---------------------------- MODULE MCExecution ----------------------------
(***************************************************************************)
(* Instances for TLC of what surrounds a run: the event stream, the user's *)
(* Computer, command tasks and automations.  They share no state in these  *)
(* models, so a behaviour follows one of them, chosen in the initial       *)
(* state, and the others stay as they begin.                               *)
(*                                                                         *)
(* The fairness is that of the loops in the code: a dispatcher, monitor,   *)
(* observer or scheduler that can act does so in the end, and a call of a  *)
(* helper comes back.  Users, tasks and their commands are not fair.       *)
(***************************************************************************)
EXTENDS EventStream, UserComputer, CommandTask, Automations

CONSTANTS
    a, b,       \* replicas, clients and transactions
    ta,         \* conversations
    k1          \* event keys of webhooks

VARIABLE part   \* the part that moves

execVars == <<part, eventVars, computerVars, taskVars, autoVars>>

Parts == {"events", "computer", "task", "automation"}

ExecInit ==
    /\ part \in Parts
    /\ EventInit /\ ComputerInit /\ TaskInit /\ AutoInit
    /\ part # "events" => feed = [s \in Streams |-> Workspace]
    /\ part # "computer" => provider = "docker"
    /\ part # "automation" => auto.kind = "schedule"

ExecNext ==
    /\ UNCHANGED part
    /\ \/ part = "events" /\ EventNext /\ UNCHANGED <<computerVars, taskVars, autoVars>>
       \/ part = "computer" /\ ComputerNext /\ UNCHANGED <<eventVars, taskVars, autoVars>>
       \/ part = "task" /\ TaskNext /\ UNCHANGED <<eventVars, computerVars, autoVars>>
       \/ part = "automation" /\ AutoNext /\ UNCHANGED <<eventVars, computerVars, taskVars>>

ExecSpec == ExecInit /\ [][ExecNext]_execVars

-----------------------------------------------------------------------------
\* Each loop is fair while its part moves.
EventFair ==
    /\ WF_eventVars(part = "events" /\ \E d \in Dispatchers : FlushBegin(d))
    /\ \A d \in Dispatchers : WF_eventVars(part = "events" /\ (PublishNext(d) \/ FlushCommit(d)))
ComputerFair ==
    \A m \in Monitors :
        /\ WF_computerVars(part = "computer" /\ InspectOutside(m))
        /\ WF_computerVars(part = "computer" /\ WriteStatus(m))
TaskFair ==
    \A o \in Observers \ Stoppers :
        /\ WF_taskVars(part = "task" /\ ReadTask(o))
        /\ WF_taskVars(part = "task" /\ InspectTask(o))
        /\ WF_taskVars(part = "task" /\ RecordObserved(o))
AutoFair ==
    /\ \A r \in Schedulers : WF_autoVars(part = "automation" /\ SchedulerStep(r))
    /\ \A d \in DeliveryIds :
           SF_autoVars(part = "automation" /\ \E r \in Schedulers : Dispatch(r, d))

FairExecSpec == ExecSpec /\ EventFair /\ ComputerFair /\ TaskFair /\ AutoFair

-----------------------------------------------------------------------------
(* Every part keeps its types: rows, processes and counters stay in their domains, whatever     *)
(* crashes, retries and late writes do to them.                                                 *)
ExecTypeOK == EventTypeOK /\ ComputerTypeOK /\ TaskTypeOK /\ AutoTypeOK
=============================================================================
