------------------------------ MODULE Supervisor ------------------------------
(***************************************************************************)
(* One supervised process: ProcessHandle of process/supervisor.py.         *)
(*                                                                         *)
(* Four threads take part: the caller who may cancel, the monitor that     *)
(* polls the child and signals its process group, the readers that see the *)
(* streams end, and the health thread (module Health).  They share the     *)
(* cancel reason, the cancel event and the hang's evidence without a lock. *)
(* The child leads its process group; members it starts may outlive it,    *)
(* and a stray that left the group may hold the pipes open.                *)
(***************************************************************************)
EXTENDS Health

CONSTANT NoResult

Canceller == {"operator", "hung"}

VARIABLES
  child,     \* the main process
  helper,    \* another member of the group is alive
  stray,     \* a process outside the group holds the pipes
  streams,   \* the monitor has not seen both streams end
  monitor,   \* the monitor thread and its locals
  caller,    \* caller[c]: where c is in cancel()
  reason,    \* _cancel_reason
  cancel,    \* the _cancel event
  evidence,  \* _hung is set
  watch,     \* the health thread
  deadline,  \* the optional wall clock limit
  result     \* _result, once _done is set

superVars == <<child, helper, stray, streams, monitor, caller, reason, cancel,
               evidence, watch, deadline, result>>
supervisorVars == <<sampled, moved, flat, still, child, helper, stray,
                    streams, monitor, caller, reason, cancel, evidence, watch,
                    deadline, result>>

IdleMonitor ==
  [at |-> "spawn", exited |-> FALSE, groupReaped |-> FALSE, lingered |-> FALSE,
   cancelled |-> FALSE, timedOut |-> FALSE, kill |-> "unset", escalated |-> FALSE]

SupervisorTypeOK ==
  /\ HealthTypeOK
  /\ child \in {"none", "running", "zombie", "reaped"}
  /\ {helper, stray, streams, cancel, evidence} \subseteq BOOLEAN
  /\ monitor \in
       [at : {"spawn", "probe", "act", "reap", "drain", "fail", "over"},
        exited : BOOLEAN, groupReaped : BOOLEAN, lingered : BOOLEAN,
        cancelled : BOOLEAN, timedOut : BOOLEAN,
        kill : {"unset", "armed", "due"}, escalated : BOOLEAN]
  /\ caller \in [Canceller -> {"no", "reason", "event", "done"}]
  /\ reason \in Canceller \cup {"none"}
  /\ watch \in {"sleep", "hung", "off"}
  /\ deadline \in {"none", "ahead", "passed"}
  /\ result \in {NoResult} \cup
       [cancelled : BOOLEAN, timedOut : BOOLEAN, hung : BOOLEAN,
        reason : Canceller \cup {"none"}, error : BOOLEAN]

SupervisorInit ==
  /\ HealthInit
  /\ child = "none" /\ helper = FALSE /\ stray = FALSE /\ streams = TRUE
  /\ monitor = IdleMonitor
  /\ caller = [c \in Canceller |-> "no"]
  /\ reason = "none" /\ cancel = FALSE /\ evidence = FALSE
  /\ watch = "off"
  /\ deadline \in {"none", "ahead"}
  /\ result = NoResult

(******************************** Starting *********************************)

SpawnChild ==
  /\ monitor.at = "spawn"
  /\ child' = "running"
  /\ monitor' = [monitor EXCEPT !.at = "probe"]
  /\ watch' \in {"sleep", "off"}    \* health is optional, and its start may fail
  /\ UNCHANGED <<helper, stray, streams, caller, reason, cancel, evidence,
                 deadline, result>> /\ UNCHANGED healthVars

Verdict(m, failed) ==
  [cancelled |-> m.cancelled, timedOut |-> m.timedOut,
   hung |-> evidence /\ m.cancelled,
   reason |-> IF m.cancelled THEN reason ELSE "none", error |-> failed]

\* _finish
Finish(failed) ==
  /\ result = NoResult
  /\ result' = Verdict(IF failed THEN IdleMonitor ELSE monitor, failed)
  /\ monitor' = [monitor EXCEPT !.at = "over"]

SpawnChildFails ==
  /\ monitor.at = "spawn"
  /\ Finish(TRUE)
  /\ UNCHANGED <<child, helper, stray, streams, caller, reason, cancel, evidence,
                 watch, deadline>> /\ UNCHANGED healthVars

(***************************** The monitor loop ****************************)

MonitorOnly ==
  UNCHANGED <<stray, streams, caller, reason, cancel, evidence, watch, deadline>>
  /\ UNCHANGED healthVars

\* SIGKILL to the whole group.  killpg's errors are swallowed: that the group is
\* gone changes nothing; that its members are another user's is left out.
KillGroup ==
  /\ child' = IF child = "running" THEN "zombie" ELSE child
  /\ helper' = FALSE

ProbeExit ==
  /\ monitor.at = "probe"
  /\ monitor' = [monitor EXCEPT !.at = "act", !.exited = child # "running"]
  /\ UNCHANGED <<child, helper, result>> /\ MonitorOnly

\* Only the child that exited is dealt with.
ActOnExitLeavingGroup ==
  /\ monitor.at = "act" /\ monitor.exited
  /\ UNCHANGED <<child, helper>>
  /\ monitor' = [monitor EXCEPT
       !.groupReaped = TRUE,
       !.at = IF ~streams \/ monitor.lingered THEN "reap" ELSE "probe"]
  /\ UNCHANGED result /\ MonitorOnly

\* The rest of the group is killed once; the streams get two seconds to end.
ActOnExit ==
  /\ monitor.at = "act" /\ monitor.exited
  /\ IF monitor.groupReaped THEN UNCHANGED <<child, helper>> ELSE KillGroup
  /\ monitor' = [monitor EXCEPT
       !.groupReaped = TRUE,
       !.at = IF ~streams \/ monitor.lingered THEN "reap" ELSE "probe"]
  /\ UNCHANGED result /\ MonitorOnly

\* The group is asked to end, by SIGTERM, which it may ignore.
ActOnRequest ==
  /\ monitor.at = "act" /\ ~monitor.exited /\ monitor.kill = "unset"
  /\ LET stop == cancel \/ deadline = "passed"
     IN monitor' = [monitor EXCEPT
          !.at = "probe", !.cancelled = cancel,
          !.timedOut = ~cancel /\ deadline = "passed",
          !.kill = IF stop THEN "armed" ELSE "unset"]
  /\ UNCHANGED <<child, helper, result>> /\ MonitorOnly

\* The grace is over and nothing is done about it.
ActOnGraceWaiting ==
  /\ monitor.at = "act" /\ ~monitor.exited /\ monitor.kill # "unset"
  /\ UNCHANGED <<child, helper>>
  /\ monitor' = [monitor EXCEPT !.at = "probe"]
  /\ UNCHANGED result /\ MonitorOnly

ActOnGrace ==
  /\ monitor.at = "act" /\ ~monitor.exited /\ monitor.kill # "unset"
  /\ IF monitor.kill = "due" /\ ~monitor.escalated
     THEN KillGroup /\ monitor' = [monitor EXCEPT !.at = "probe", !.escalated = TRUE]
     ELSE UNCHANGED <<child, helper>> /\ monitor' = [monitor EXCEPT !.at = "probe"]
  /\ UNCHANGED result /\ MonitorOnly

ReapChild ==
  /\ monitor.at = "reap"
  /\ child' = "reaped"
  /\ monitor' = [monitor EXCEPT !.at = "drain"]
  /\ UNCHANGED <<helper, result>> /\ MonitorOnly

DrainAndFinish ==
  /\ monitor.at = "drain"
  /\ Finish(FALSE)
  /\ UNCHANGED <<child, helper>> /\ MonitorOnly

\* The loop raises: the log cannot be written.
MonitorFails ==
  /\ monitor.at \in {"probe", "act", "drain"}
  /\ monitor' = [monitor EXCEPT !.at = "fail"]
  /\ UNCHANGED <<child, helper, result>> /\ MonitorOnly

\* _fail_safe: kill the group, reap the child, record an error.
FailSafe ==
  /\ monitor.at = "fail"
  /\ child' = "reaped" /\ helper' = FALSE
  /\ Finish(TRUE)
  /\ MonitorOnly

MonitorStep ==
  \/ ProbeExit \/ ActOnExit \/ ActOnRequest \/ ActOnGrace
  \/ ReapChild \/ DrainAndFinish \/ FailSafe

(******************************** Cancelling *******************************)

CancelOnly ==
  UNCHANGED <<child, helper, stray, streams, monitor, deadline, result>>
  /\ UNCHANGED healthVars

\* cancel(c) looks whether a reason is set ...
EnterCancel(c) ==
  caller' = [caller EXCEPT ![c] = IF reason = "none" THEN "reason" ELSE "event"]

\* ... sets its own, which another caller may have done meanwhile, ...
SetReason(c) ==
  /\ caller[c] = "reason"
  /\ reason' = c
  /\ caller' = [caller EXCEPT ![c] = "event"]
  /\ UNCHANGED <<cancel, evidence, watch>> /\ CancelOnly

\* ... and then the event.
SetCancel(c) ==
  /\ caller[c] = "event"
  /\ cancel' = TRUE
  /\ caller' = [caller EXCEPT ![c] = "done"]
  /\ UNCHANGED <<reason, evidence, watch>> /\ CancelOnly

OperatorCancels ==
  /\ child # "none"
  /\ caller["operator"] = "no"
  /\ EnterCancel("operator")
  /\ UNCHANGED <<reason, cancel, evidence, watch>> /\ CancelOnly

(***************************** The health thread ***************************)

\* One turn of _health_loop: nothing once a cancel is on its way.
HealthTurn ==
  /\ watch = "sleep"
  /\ IF cancel \/ result # NoResult
     THEN watch' = "off" /\ UNCHANGED healthVars
     ELSE /\ \E readable \in SUBSET Signals :
               IF child = "running" THEN CheckHealth(readable) ELSE CheckGone(readable)
          /\ watch' = IF Hung' THEN "hung" ELSE "sleep"
  /\ UNCHANGED <<child, helper, stray, streams, monitor, caller, reason, cancel,
                 evidence, deadline, result>>

\* The hang's evidence is kept, then the group is cancelled.
DeclareHung ==
  /\ watch = "hung"
  /\ IF result # NoResult THEN watch' = "off" /\ UNCHANGED <<evidence, caller>>
     ELSE IF ~evidence THEN evidence' = TRUE /\ UNCHANGED <<watch, caller>>
     ELSE EnterCancel("hung") /\ watch' = "off" /\ UNCHANGED evidence
  /\ UNCHANGED <<reason, cancel>> /\ CancelOnly

(*************************** Processes and timers **************************)

Outside ==
  UNCHANGED <<caller, reason, cancel, evidence, watch, result>>
  /\ UNCHANGED healthVars

ChildExits ==
  /\ child = "running"
  /\ child' = "zombie"
  /\ UNCHANGED <<helper, stray, streams, monitor, deadline>> /\ Outside

\* The child starts a member of its group, or a process that leaves it.
ChildForks ==
  /\ child = "running"
  /\ \/ ~helper /\ helper' = TRUE /\ UNCHANGED stray
     \/ ~stray /\ stray' = TRUE /\ UNCHANGED helper
  /\ UNCHANGED <<child, streams, monitor, deadline>> /\ Outside

ForkExits ==
  /\ \/ helper /\ helper' = FALSE /\ UNCHANGED stray
     \/ stray /\ stray' = FALSE /\ UNCHANGED helper
  /\ UNCHANGED <<child, streams, monitor, deadline>> /\ Outside

\* Both readers reach the end of file: nobody holds the pipes (a child may
\* close its own before it exits).
StreamsEnd ==
  /\ child # "none" /\ ~helper /\ ~stray /\ streams
  /\ streams' = FALSE
  /\ UNCHANGED <<child, helper, stray, monitor, deadline>> /\ Outside

TimePasses ==
  /\ \/ monitor.kill = "armed" /\ monitor' = [monitor EXCEPT !.kill = "due"]
     \/ monitor.groupReaped /\ ~monitor.lingered
        /\ monitor' = [monitor EXCEPT !.lingered = TRUE]
  /\ UNCHANGED <<child, helper, stray, streams, deadline>> /\ Outside

DeadlinePasses ==
  /\ deadline = "ahead"
  /\ deadline' = "passed"
  /\ UNCHANGED <<child, helper, stray, streams, monitor>> /\ Outside

\* Progress matters while somebody looks.
ChildProgresses(x) ==
  /\ child = "running" /\ watch = "sleep"
  /\ Progress(x)
  /\ UNCHANGED superVars

(**************************** The specification ****************************)

CancelStep == \E c \in Canceller : SetReason(c) \/ SetCancel(c)

SupervisorNext ==
  \/ SpawnChild \/ SpawnChildFails
  \/ MonitorStep \/ MonitorFails
  \/ OperatorCancels \/ CancelStep
  \/ HealthTurn \/ DeclareHung
  \/ ChildExits \/ ChildForks \/ ForkExits \/ StreamsEnd
  \/ TimePasses \/ DeadlinePasses
  \/ \E x \in Signals : ChildProgresses(x)

SupervisorSpec == SupervisorInit /\ [][SupervisorNext]_supervisorVars

\* The threads run and time passes.  Nothing makes the child exit, its streams
\* end, or the health checks find anything.
SupervisorFairness ==
  /\ WF_supervisorVars(MonitorStep)
  /\ WF_supervisorVars(CancelStep)
  /\ WF_supervisorVars(DeclareHung)
  /\ WF_supervisorVars(TimePasses)

FairSupervisorSpec == SupervisorSpec /\ SupervisorFairness

(****************************** Properties *********************************)

\* A result is given only when no member of the process group is left
\* ("leftover group members are killed when the main child exits"), whichever
\* of exit, cancel, timeout, hang and a failing monitor came first: a unit that
\* is retried never shares its worktree with a leftover of this attempt.  And a
\* process cancelled as hung is reported as hung, although the reason, the event
\* and the evidence are written by one thread and read by another.
ResultIsTrue ==
  result # NoResult =>
    /\ child \in {"none", "reaped"} /\ ~helper
    /\ result.reason = "hung" => result.hung

\* The process exited, a cancel was set, its limit passed or a hang was found:
\* none of these is ever undone.
EndIsDue ==
  \/ child \in {"zombie", "reaped"}
  \/ cancel
  \/ deadline = "passed" /\ child = "running"
  \/ watch = "hung" \/ caller["hung"] # "no"

\* Supervision ends: once its end is due a result follows, even when the process
\* ignores SIGTERM and a stray keeps its pipes open for ever.
SupervisionEnds == []<>(EndIsDue => result # NoResult)

==============================================================================
