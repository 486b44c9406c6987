------------------------------ MODULE MCProgress ------------------------------
(***************************************************************************)
(* One instance for TLC of each module that promises to come to an end: a  *)
(* supervised process, a drive, and the inbox of decisions.  They share no *)
(* variable: a behaviour exercises one of them, `part`, and the others stay *)
(* as they began, where no action that fairness asks for is enabled.       *)
(***************************************************************************)
EXTENDS Supervisor, Drive, ApprovalBroker

VARIABLE part

progressVars == <<supervisorVars, driveVars, brokerVars, part>>

\* Units and what may go wrong with them.
SomeSituations ==
  { <<<<"ready">>, {"fails", "handoff", "changes"}>>,
    <<<<"ready">>, {"fails", "conflict", "changes"}>>,
    <<<<"ready">>, {"refs", "gate_failed"}>>,
    <<<<"ready">>, {"stall", "reject"}>>,
    <<<<"ready">>, {"refs", "broken"}>> }
  \cup { <<<<"ready", "ready">>, {trouble}>> : trouble \in {"refusal", "dirty", "owner_approval"} }

ProgressInit ==
  /\ part \in {"supervisor", "drive", "inbox"}
  /\ SupervisorInit /\ (part # "supervisor" => sampled = {} /\ deadline = "none")
  /\ DriveInit /\ (part # "drive" => troubles = {"dirty"} /\ planCheck.made)
  /\ BrokerInit

ProgressNext ==
  /\ \/ part = "supervisor" /\ SupervisorNext /\ UNCHANGED <<driveVars, brokerVars>>
     \/ part = "drive" /\ DriveNext /\ UNCHANGED <<supervisorVars, brokerVars>>
     \/ part = "inbox" /\ BrokerNext /\ UNCHANGED <<supervisorVars, driveVars>>
  /\ UNCHANGED part

\* SupervisorFairness, DriveFairness and BrokerFairness, each for its part: the
\* same formulas, as in the other parts none of these actions is enabled.
ProgressFairness ==
  /\ WF_supervisorVars(part = "supervisor" /\ MonitorStep)
  /\ WF_supervisorVars(part = "supervisor" /\ CancelStep)
  /\ WF_supervisorVars(part = "supervisor" /\ DeclareHung)
  /\ WF_supervisorVars(part = "supervisor" /\ TimePasses)
  /\ WF_driveVars(part = "drive" /\ DriveStep)
  /\ \A c \in Consumers :
       /\ WF_brokerVars(part = "inbox" /\ Handle(c))
       /\ \A f \in Files : SF_brokerVars(part = "inbox" /\ Open(c, f))

ProgressSpec == ProgressInit /\ [][ProgressNext]_progressVars /\ ProgressFairness

==============================================================================
