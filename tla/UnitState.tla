------------------------------ MODULE UnitState ------------------------------
(***************************************************************************)
(* The states of a work unit and the transitions runs/state.py allows.     *)
(* Every module that moves a unit goes through Targets.                    *)
(***************************************************************************)

State == {"pending", "ready", "assigned", "running", "verifying", "reviewing",
          "queued_for_merge", "merged", "failed", "blocked", "needs_user",
          "interrupted", "cancelled"}

\* States from which no transition leads anywhere.
TERMINAL == {"merged", "cancelled"}

\* States in which a runner process may be at work on the unit.
IN_FLIGHT == {"assigned", "running"}

\* States whose scope counts as occupied for the dispatcher's overlap check.
ACTIVE == {"assigned", "running", "verifying", "reviewing", "queued_for_merge"}

\* The states a stopped unit can be reassigned from.
STOPPED == {"interrupted", "failed", "needs_user", "ready", "blocked"}

Targets(s) ==
  CASE s = "pending" -> {"ready", "blocked", "cancelled"}
    [] s = "ready" -> {"assigned", "blocked", "cancelled", "needs_user"}
    [] s = "assigned" ->
         {"running", "interrupted", "failed", "cancelled", "needs_user"}
    [] s = "running" ->
         {"verifying", "failed", "cancelled", "needs_user", "interrupted"}
    [] s = "verifying" ->
         {"reviewing", "failed", "cancelled", "needs_user", "interrupted"}
    [] s = "reviewing" -> {"queued_for_merge", "ready", "failed", "cancelled",
                           "needs_user", "interrupted"}
    [] s = "queued_for_merge" ->
         {"merged", "failed", "blocked", "cancelled", "needs_user"}
    [] s \in {"failed", "blocked"} -> {"ready", "cancelled", "needs_user"}
    [] s = "needs_user" -> {"ready", "reviewing", "cancelled"}
    [] s = "interrupted" -> {"ready", "cancelled", "needs_user"}
    [] s \in TERMINAL -> {}

==============================================================================
