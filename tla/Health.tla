-------------------------------- MODULE Health --------------------------------
(***************************************************************************)
(* Telling a hung process from a slow one: process/health.py.              *)
(*                                                                         *)
(* While a process runs, a thread samples its progress signals (CPU time,  *)
(* output, events, worktree, group members) once per interval and compares *)
(* the sample with the one before.  What a signal's value is does not      *)
(* matter, only whether it moved between the two, above its noise floor,   *)
(* and whether both readings succeeded.                                    *)
(***************************************************************************)
EXTENDS Integers

CONSTANTS
  Signals,     \* the signals that have a source
  FlatNeeded   \* flat_checks_for_hang

ASSUME FlatAssumption == FlatNeeded \in Nat \ {0}

VARIABLES
  sampled,  \* the signals that were readable in the check before (`previous`)
  moved,    \* the signals that moved since then
  flat,     \* HealthMonitor.flat_checks
  still     \* history: intervals so far in which nothing moved, up to FlatNeeded

healthVars == <<sampled, moved, flat, still>>

HealthTypeOK ==
  /\ sampled \subseteq Signals
  /\ moved \subseteq Signals
  /\ flat \in 0..FlatNeeded
  /\ still \in 0..FlatNeeded

\* HealthMonitor.start: the baseline.
HealthInit ==
  /\ sampled \in SUBSET Signals
  /\ moved = {} /\ flat = 0 /\ still = 0

\* The process does something a signal shows.
Progress(x) ==
  /\ x \notin moved
  /\ moved' = moved \cup {x}
  /\ UNCHANGED <<sampled, flat, still>>

\* The signals that can be compared when those in `readable` are read now.
Known(readable) == readable \cap sampled

\* Unreadable signals are taken for signals at rest.
FlatAfterIgnoringUnknown(readable) ==
  IF Known(readable) \cap moved # {} THEN 0 ELSE flat + 1

\* Movement resets the streak; an unreadable signal leaves it as it is.
FlatAfter(readable) ==
  IF Known(readable) \cap moved # {} THEN 0
  ELSE IF Known(readable) # Signals THEN flat ELSE flat + 1

\* HealthMonitor.check of a live process, whose reader stops at a hang.
CheckHealth(readable) ==
  /\ flat < FlatNeeded
  /\ readable \subseteq Signals
  /\ flat' = FlatAfter(readable)
  /\ still' = IF moved = {} /\ still < FlatNeeded THEN still + 1 ELSE still
  /\ sampled' = readable
  /\ moved' = {}

\* ... and of one that is gone, which is never hung.
CheckGone(readable) ==
  /\ readable \subseteq Signals
  /\ sampled' = readable
  /\ moved' = {}
  /\ UNCHANGED <<flat, still>>

Hung == flat >= FlatNeeded

\* "a broken probe can never make a busy process look hung" (health.py:17):
\* however readings fail, every flat check in the streak stands for an
\* interval in which nothing moved.
BusyNeverHung == flat <= still

==============================================================================
