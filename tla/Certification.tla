---------------------------- MODULE Certification -----------------------------
(***************************************************************************)
(* The certification of a runner: runners/probes.py and runners/base.py.   *)
(*                                                                         *)
(* A probe takes its steps one after another, each in a thread of its own  *)
(* that it waits for only so long; a thread that is late goes on, but its  *)
(* step has failed.  The last step starts the runner's program, cancels it *)
(* on the first event it streams, and proves that nothing of its process   *)
(* group is left.  The program itself may stream or be silent, start other *)
(* processes, exit whenever it likes and ignore SIGTERM.                   *)
(*                                                                         *)
(* What the commands of the other steps print and do comes to a step that  *)
(* passes or fails.  Time is three timers that may run out at any moment:  *)
(* the probe's patience with a thread, the wait for an event, the grace.   *)
(***************************************************************************)
EXTENDS Naturals, Sequences, FiniteSets

CONSTANT
  MaxMembers,  \* bound: processes a program's group ever has
  MaxLate      \* bound: threads that go on at one time although they were given up

ASSUME MemberAssumption == MaxMembers \in Nat \ {0}

Member == 1..MaxMembers
Leader == 1

\* _STEP_ORDER
StepOrder == <<"installed", "authentication", "live_inference", "repo_exercise",
               "cancellation_timeout">>
Steps == {StepOrder[i] : i \in DOMAIN StepOrder}
Cancellation == "cancellation_timeout"

Needs(step) ==
  CASE step = "installed" -> {}
    [] step = "authentication" -> {"installed"}
    [] step \notin {"installed", "authentication"} -> {"installed", "authentication"}

CANCEL_ATTEMPTS == 3

VARIABLES
  kind,       \* of the runner's profile
  outcomes,   \* outcomes[s]: the status of step s
  workers,    \* workers[s]: the thread of step s, or what it left in its box
  sink,       \* what kinds of output were recorded
  inspected,  \* those among them log_inspection has seen
  certificate,     \* of the record
  trial,      \* default_cancel_runner
  group,      \* group[m]: a process of the program's group
  line        \* the next line in the queue the reader fills

probeVars == <<kind, outcomes, workers, sink, inspected, certificate>>
cancelVars == <<trial, group, line>>
certificationVars == <<probeVars, cancelVars>>

Result == {"pass", "fail", "skip"}

\* "deaf" ignores SIGTERM; "foreign" may not be signalled at all.
Alive == {"plain", "deaf", "foreign"}
Process == Alive \cup {"none", "dead"}

CertificationTypeOK ==
  /\ kind \in {"coding_cli", "api"}
  /\ outcomes \in [Steps -> Result \cup {"none"}]
  /\ workers \in [Steps -> Result \cup {"off", "working"}]
  /\ sink \subseteq {"clean", "secret"} /\ inspected \subseteq sink
  /\ certificate \in {"none", "certified", "failed", "not_configured"}
  /\ trial \in [at : {"idle", "waiting", "decided", "terminating", "killed", "over"},
                 attempt : 1..CANCEL_ATTEMPTS, late : BOOLEAN, event : BOOLEAN,
                 exited : BOOLEAN]
  /\ group \in [Member -> Process]
  /\ line \in {"none", "event", "other"}

NoProgram == [m \in Member |-> "none"]

Trial(n) ==
  [at |-> "idle", attempt |-> n, late |-> FALSE, event |-> FALSE, exited |-> FALSE]

CertificationInit ==
  /\ kind \in {"coding_cli", "api"}
  /\ outcomes = [s \in Steps |-> "none"]
  /\ workers = [s \in Steps |-> "off"]
  /\ sink = {} /\ inspected = {}
  /\ certificate \in {"none", "not_configured"}
  /\ trial = Trial(1) /\ group = NoProgram /\ line = "none"

(******************************* The program *******************************)

Running(m) == group[m] \in Alive
Exited == ~Running(Leader)
GroupGone == \A m \in Member : ~Running(m)

\* What it prints when nobody reads any more makes no difference.
Stream(text) ==
  /\ line = "none" /\ trial.at = "waiting"
  /\ \E m \in Member : Running(m)
  /\ line' = text
  /\ UNCHANGED <<probeVars, trial, group>>

\* A process that runs as another user starts only such processes.
Fork(m, nature) ==
  /\ group[m] = "none"
  /\ \E parent \in Member :
       Running(parent) /\ (group[parent] = "foreign" => nature = "foreign")
  /\ group' = [group EXCEPT ![m] = nature]
  /\ UNCHANGED <<probeVars, trial, line>>

\* A process exits, by itself or on SIGTERM.
Exit(m) ==
  /\ Running(m)
  /\ group' = [group EXCEPT ![m] = "dead"]
  /\ UNCHANGED <<probeVars, trial, line>>

Program ==
  \/ \E text \in {"event", "other"} : Stream(text)
  \/ \E m \in Member : Exit(m) \/ \E nature \in Alive : Fork(m, nature)

(************************* The event driven cancel *************************)

Cancelling == workers[Cancellation] = "working" /\ kind = "coding_cli"

Report(result) ==
  /\ workers' = [workers EXCEPT ![Cancellation] = result]
  /\ trial' = [trial EXCEPT !.at = "over"]

\* default_cancel_runner: the program is started, or cannot be.
Launch ==
  /\ Cancelling /\ trial.at = "idle"
  /\ \/ /\ Report("fail")
        /\ UNCHANGED <<group, line>>
     \/ /\ \E nature \in {"plain", "deaf"} :
             group' = [NoProgram EXCEPT ![Leader] = nature]
        /\ line' = "none"
        /\ trial' = [trial EXCEPT !.at = "waiting"]
        /\ UNCHANGED workers
  /\ UNCHANGED <<kind, outcomes, sink, inspected, certificate>>

\* The first event: the cancel is due, unless the program has exited already.
ReadEvent ==
  /\ Cancelling /\ trial.at = "waiting" /\ line = "event"
  /\ trial' = [trial EXCEPT !.at = "decided", !.event = TRUE, !.exited = Exited]
  /\ line' = "none"
  /\ UNCHANGED <<probeVars, group>>

\* Any other line: the next one is read.
ReadOther ==
  /\ Cancelling /\ trial.at = "waiting" /\ line = "other"
  /\ line' = "none"
  /\ UNCHANGED <<probeVars, trial, group>>

\* Only with no line to read is the program looked at, and the clock.  What it
\* streamed just before an exit no longer matters.
LookUp ==
  /\ Cancelling /\ trial.at = "waiting" /\ line = "none"
  /\ Exited \/ trial.late
  /\ trial' = [trial EXCEPT !.at = "decided", !.exited = Exited]
  /\ UNCHANGED <<probeVars, group, line>>

\* max_wait is over.
WaitOver ==
  /\ trial.at = "waiting" /\ ~trial.late
  /\ trial' = [trial EXCEPT !.late = TRUE]
  /\ UNCHANGED <<probeVars, group, line>>

\* _terminate_group, after the members of the group were counted: SIGTERM,
SendTerm ==
  /\ Cancelling /\ trial.at = "decided"
  /\ trial' = [trial EXCEPT !.at = "terminating"]
  /\ UNCHANGED <<probeVars, group, line>>

Struck == [m \in Member |-> IF group[m] \in {"plain", "deaf"} THEN "dead" ELSE group[m]]

\* and SIGKILL, when the leader has exited or the grace is over.
SendKill ==
  /\ Cancelling /\ trial.at = "terminating"
  /\ group' = Struck
  /\ trial' = [trial EXCEPT !.at = "killed"]
  /\ UNCHANGED <<probeVars, line>>

\* Mutant of Proven: members that are left are not looked for.
ProvenUnseen == trial.event /\ ~trial.exited

\* _group_gone
Proven == trial.event /\ ~trial.exited /\ GroupGone

\* CliAdapter.cancellation: an early exit is inconclusive and tried again.
MayRetry == trial.exited /\ trial.attempt < CANCEL_ATTEMPTS

JudgeTrial ==
  /\ Cancelling /\ trial.at = "killed"
  /\ IF MayRetry
     THEN trial' = Trial(trial.attempt + 1) /\ UNCHANGED workers
     ELSE Report(IF Proven THEN "pass" ELSE "fail")
  /\ \E output \in {"clean", "secret"} : sink' = sink \cup {output}
  /\ UNCHANGED <<kind, outcomes, inspected, certificate, group, line>>

CancelRunner ==
  Launch \/ ReadEvent \/ ReadOther \/ LookUp \/ SendTerm \/ SendKill \/ JudgeTrial

(******************************** The probe ********************************)

Turn(s) ==
  /\ certificate = "none"
  /\ outcomes[s] = "none"
  /\ \E i \in DOMAIN StepOrder :
       StepOrder[i] = s /\ \A j \in 1..i - 1 : outcomes[StepOrder[j]] # "none"

Blocked(s) == \E p \in Needs(s) : outcomes[p] = "fail"

StartStep(s) ==
  /\ Turn(s) /\ workers[s] = "off"
  /\ IF Blocked(s)
     THEN outcomes' = [outcomes EXCEPT ![s] = "fail"] /\ UNCHANGED workers
     ELSE workers' = [workers EXCEPT ![s] = "working"] /\ UNCHANGED outcomes
  /\ UNCHANGED <<kind, sink, inspected, certificate, cancelVars>>

\* API runners have nothing installed, edit no repository and start nothing.
Skipped(s) == kind = "api" /\ s \in {"installed", "repo_exercise", Cancellation}

\* The thread of a step is through with its commands or requests.
EndWork(s) ==
  /\ workers[s] = "working"
  /\ IF Skipped(s)
     THEN workers' = [workers EXCEPT ![s] = "skip"] /\ UNCHANGED sink
     ELSE /\ s # Cancellation
          /\ \E result \in {"pass", "fail"} : workers' = [workers EXCEPT ![s] = result]
          /\ \E output \in {"clean", "secret"} : sink' = sink \cup {output}
  /\ UNCHANGED <<kind, outcomes, inspected, certificate, cancelVars>>

\* run_with_timeout: the thread ended in time,
JoinStep(s) ==
  /\ Turn(s) /\ workers[s] \in Result
  /\ outcomes' = [outcomes EXCEPT ![s] = workers[s]]
  /\ UNCHANGED <<kind, workers, sink, inspected, certificate, cancelVars>>

\* or is given up, and goes on by itself.
Abandon(s) ==
  /\ Turn(s) /\ workers[s] = "working"
  /\ Cardinality({t \in Steps : workers[t] = "working" /\ outcomes[t] # "none"}) < MaxLate
  /\ outcomes' = [outcomes EXCEPT ![s] = "fail"]
  /\ UNCHANGED <<kind, workers, sink, inspected, certificate, cancelVars>>

Required ==
  {"authentication", "live_inference"}
    \cup (IF kind = "coding_cli" THEN {"installed", "repo_exercise", Cancellation} ELSE {})

StepsPass ==
  /\ \A s \in Steps : outcomes[s] # "fail"
  /\ \A s \in Required : outcomes[s] = "pass"

\* probe, after its steps: log_inspection, metadata_capture and the status.
Conclude ==
  /\ certificate = "none"
  /\ \A s \in Steps : outcomes[s] # "none"
  /\ inspected' = sink
  /\ \E metadata \in BOOLEAN :
       certificate' = IF StepsPass /\ "secret" \notin sink /\ metadata THEN "certified" ELSE "failed"
  /\ UNCHANGED <<kind, outcomes, workers, sink, cancelVars>>

Prober == Conclude \/ \E s \in Steps : StartStep(s) \/ JoinStep(s) \/ Abandon(s)

CertificationNext ==
  Prober \/ CancelRunner \/ WaitOver \/ Program \/ \E s \in Steps : EndWork(s)

CertificationSpec == CertificationInit /\ [][CertificationNext]_certificationVars

(******************************* Properties ********************************)

\* A certificate is never issued while a thread of the probe is still at work or
\* has left output nobody inspected, nor to a coding runner of whose cancelled
\* program a process is left.
CertifiedIsProven ==
  certificate = "certified" =>
    /\ \A s \in Steps : workers[s] # "working"
    /\ sink = inspected /\ "secret" \notin sink
    /\ kind = "coding_cli" => GroupGone

\* Once the check has dealt with a group, and before it starts another, nothing
\* that may be signalled is left of it: not a grandchild that outlived the program,
\* nor one that ignores SIGTERM.
NothingOutlives ==
  trial.at \in {"idle", "killed", "over"} => \A m \in Member : group[m] \notin {"plain", "deaf"}

==============================================================================
