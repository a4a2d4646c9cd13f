---------------------------- MODULE CommandTask ----------------------------
(***************************************************************************)
(* One managed command: the bash tool that launches it, the native helper  *)
(* in the Computer that starts a supervisor for it, the supervisor, the    *)
(* row of `command_tasks`, and the observers that inspect or stop it.      *)
(*                                                                         *)
(* The helper and the supervisor meet in files; the observers in the row.  *)
(* Every call from the API to the Computer may be lost before or after it  *)
(* acted, and a snapshot is recorded some time after it was taken.         *)
(*                                                                         *)
(* Source: backend/internal/commandtask, agenttool/bash_managed.go,        *)
(* conversation/command_tasks.go, sandbox/tasks_provider.go.               *)
(***************************************************************************)
EXTENDS Integers, FiniteSets

CONSTANTS
    Observers,      \* reconciliations, task pages and task tools that watch the task
    Stoppers,       \* those of them that ask to stop it
    MaxTaskFaults   \* bound: lost calls, failed writes, deaths of the Computer

ASSUME TaskConstants == Stoppers \subseteq Observers /\ MaxTaskFaults \in Nat

VARIABLES
    taskRun,        \* the run is still "running"
    taskRow,        \* command_tasks: status and whether the handle has the process, or NoTask
    launcher,       \* the goroutine of the bash tool, and the snapshot it holds
    starter,        \* the helper process that executes Start
    record,         \* request.json and state.json in the directory of the task
    worker,         \* the supervisor process
    shell,          \* the process of the command
    signalled,      \* the supervisor has caught SIGTERM
    observer,       \* per observer, what it has read
    taskFaults

taskVars == <<taskRun, taskRow, launcher, starter, record, worker, shell, signalled, observer,
              taskFaults>>

NoTask     == [status |-> "none", pid |-> FALSE]
NoSnapshot == NoTask
Snap(status, pid) == [status |-> status, pid |-> pid]
Lost       == Snap("lost", FALSE)   \* an error instead of a snapshot
Watching   == [at |-> "idle", pid |-> FALSE, snap |-> NoSnapshot]

Finished == {"exited", "cancelled", "timed_out"}
Ended    == Finished \cup {"unknown"}       \* Snapshot.Terminal

Supervised == worker \notin {"none", "gone"}

TaskTypeOK ==
    /\ taskRow.status \in {"none", "starting", "running", "stopping"} \cup Ended
    /\ launcher.at \in {"idle", "launch", "call", "record", "wait", "stop", "final", "done"}
    /\ starter \in {"none", "request", "state", "spawn", "owner", "await", "gone"}
    /\ record.state \in {"missing", "starting", "running", "stopping"} \cup Ended
    /\ worker \in {"none", "spawned", "launched", "running", "stopping", "written", "gone"}
    /\ shell \in {"none", "running", "exited", "killed"}
    /\ \A o \in Observers : observer[o].at \in {"idle", "call", "signal", "record"}

TaskInit ==
    /\ taskRun = TRUE
    /\ taskRow = NoTask
    /\ launcher = [at |-> "idle", background |-> FALSE, snap |-> NoSnapshot]
    /\ starter = "none"
    /\ record = [request |-> FALSE, state |-> "missing", pid |-> FALSE]
    /\ worker = "none" /\ shell = "none" /\ signalled = FALSE
    /\ observer = [o \in Observers |-> Watching]
    /\ taskFaults = 0

TaskFault == taskFaults < MaxTaskFaults /\ taskFaults' = taskFaults + 1

inComputer == <<starter, record, worker, shell, signalled>>

-----------------------------------------------------------------------------
\* recordCommandTask: one transaction under the conversation row.

\* The first record precedes the launch and needs a running run; a handle with a process is
\* never replaced by one without; a finished row stays.
Recordable(snap) ==
    \/ taskRow = NoTask /\ taskRun /\ snap = Snap("starting", FALSE)
    \/ taskRow # NoTask /\ (taskRow.pid => snap.pid)
RecordTask(snap) ==
    taskRow' = IF taskRow.status \in Finished THEN taskRow ELSE snap

-----------------------------------------------------------------------------
\* Inspect and Stop in the Computer.

\* A record that was never finished by a supervisor that is gone says nothing; a finished one
\* counts once the supervisor has exited; without the process in the handle nothing counts.
Inspected(pid) ==
    IF ~record.request THEN Snap("unknown", pid)
    ELSE IF record.state = "missing" THEN Lost
    ELSE IF ~pid \/ record.state = "unknown" THEN Snap("unknown", pid)
    ELSE IF record.state \in Finished THEN Snap(IF Supervised THEN "running" ELSE record.state, TRUE)
    ELSE Snap(IF Supervised THEN record.state ELSE "unknown", TRUE)

\* SIGTERM: before the supervisor handles signals it ends it, with nothing started.
Signal ==
    IF worker = "spawned"
    THEN worker' = "gone" /\ UNCHANGED signalled
    ELSE signalled' = TRUE /\ UNCHANGED worker
MayStop(pid) == Inspected(pid) # Lost /\ Inspected(pid).status \notin Ended /\ Supervised

-----------------------------------------------------------------------------
\* The bash tool.

\* The task is recorded, or nothing is launched.
RecordLaunch ==
    /\ launcher.at = "idle"
    /\ Recordable(Snap("starting", FALSE)) /\ RecordTask(Snap("starting", FALSE))
    /\ \E background \in BOOLEAN :
           launcher' = [launcher EXCEPT !.at = "launch", !.background = background]
    /\ UNCHANGED <<taskRun, inComputer, observer, taskFaults>>

CallStart ==
    /\ launcher.at = "launch" /\ starter = "none"
    /\ starter' = "request"
    /\ launcher' = [launcher EXCEPT !.at = "call"]
    /\ UNCHANGED <<taskRun, taskRow, record, worker, shell, signalled, observer, taskFaults>>

\* No answer: the task is left as unknown, never launched again.
StartUnanswered ==
    /\ launcher.at \in {"launch", "call"}
    /\ IF Recordable(Snap("unknown", FALSE)) THEN RecordTask(Snap("unknown", FALSE))
       ELSE UNCHANGED taskRow
    /\ launcher' = [launcher EXCEPT !.at = "done"]
    /\ UNCHANGED <<taskRun, inComputer, observer>>

\* The request does not reach the helper, or its response is lost, or the wait for it ends.
StartLost == TaskFault /\ StartUnanswered
StartFailed == launcher.at = "call" /\ starter = "gone" /\ StartUnanswered /\ UNCHANGED taskFaults

\* The snapshot of Start is recorded.  If that fails the task is asked to stop, and only what
\* the stop reports is recorded.
RecordStarted ==
    /\ launcher.at = "record"
    /\ RecordTask(launcher.snap)
    /\ launcher' = [launcher EXCEPT !.at = IF launcher.background THEN "done" ELSE "wait"]
    /\ UNCHANGED <<taskRun, inComputer, observer, taskFaults>>
RecordStartedFails ==
    /\ TaskFault
    /\ launcher.at = "record"
    /\ launcher' = [launcher EXCEPT !.at = "stop", !.snap = NoSnapshot]
    /\ UNCHANGED <<taskRun, taskRow, inComputer, observer>>

\* Wait: until a snapshot is final.  The end of the run, or a lost call, asks for a stop.
WaitEnds ==
    /\ launcher.at = "wait"
    /\ LET snap == Inspected(TRUE)
       IN  \/ /\ snap # Lost /\ snap.status \in Ended
              /\ launcher' = [launcher EXCEPT !.at = "final", !.snap = snap]
           \/ /\ ~taskRun \/ snap = Lost
              /\ launcher' = [launcher EXCEPT !.at = "stop"]
    /\ UNCHANGED <<taskRun, taskRow, inComputer, observer, taskFaults>>
WaitLost ==
    /\ TaskFault
    /\ launcher.at = "wait" /\ launcher' = [launcher EXCEPT !.at = "stop"]
    /\ UNCHANGED <<taskRun, taskRow, inComputer, observer>>

\* StopTask of the tool, within 8 seconds: what it saw last is recorded, otherwise 'unknown'.
LauncherStops ==
    /\ launcher.at = "stop"
    /\ launcher' = [launcher EXCEPT !.at = "final",
                                     !.snap = IF @ = NoSnapshot THEN @ ELSE Snap("unknown", TRUE)]
    /\ IF MayStop(TRUE) THEN Signal ELSE UNCHANGED <<worker, signalled>>
    /\ UNCHANGED <<taskRun, taskRow, starter, record, shell, observer, taskFaults>>
StopAnswers ==
    /\ launcher.at = "final" /\ Inspected(TRUE) # Lost
    /\ launcher.snap # Inspected(TRUE)
    /\ launcher' = [launcher EXCEPT !.snap = Inspected(TRUE)]
    /\ UNCHANGED <<taskRun, taskRow, inComputer, observer, taskFaults>>
RecordFinal ==
    /\ launcher.at = "final"
    /\ IF launcher.snap = NoSnapshot THEN UNCHANGED taskRow ELSE RecordTask(launcher.snap)
    /\ launcher' = [launcher EXCEPT !.at = "done"]
    /\ UNCHANGED <<taskRun, inComputer, observer, taskFaults>>

\* The run is stopped, or completes with the task in the background.
EndTaskRun ==
    /\ taskRun /\ taskRun' = FALSE
    /\ UNCHANGED <<taskRow, launcher, inComputer, observer, taskFaults>>

-----------------------------------------------------------------------------
\* Start, in the Computer.

\* One step after the other: the exclusive request, the log and the first state, the worker in
\* a session of its own, its identity in the state and at once the handle on its pipe.
StarterStep ==
    /\ \/ /\ starter = "request" /\ ~record.request
          /\ record' = [record EXCEPT !.request = TRUE]
          /\ starter' = "state" /\ UNCHANGED worker
       \/ /\ starter = "state"
          /\ record' = [record EXCEPT !.state = "starting"]
          /\ starter' = "spawn" /\ UNCHANGED worker
       \/ /\ starter = "spawn"
          /\ worker' = "spawned"
          /\ starter' = "owner" /\ UNCHANGED record
       \/ /\ starter = "owner"
          /\ record' = [record EXCEPT !.pid = TRUE]
          /\ starter' = "await" /\ UNCHANGED worker
    /\ UNCHANGED <<taskRun, taskRow, launcher, shell, signalled, observer, taskFaults>>

\* It answers when the state has moved or the worker died, or after 3 seconds with 'unknown'.
StarterAnswers ==
    /\ starter = "await" /\ starter' = "gone"
    /\ launcher' \in {[launcher EXCEPT !.at = IF @ = "call" THEN "record" ELSE @, !.snap = snap] :
          snap \in {Snap("unknown", TRUE)}
                   \cup (IF record.state # "starting" \/ ~Supervised THEN {Inspected(TRUE)} ELSE {})}
    /\ UNCHANGED <<taskRun, taskRow, record, worker, shell, signalled, observer, taskFaults>>

\* A write or the fork fails: an error, whatever was done stays.
StarterFails ==
    /\ TaskFault
    /\ starter \notin {"none", "gone"} /\ starter' = "gone"
    /\ UNCHANGED <<taskRun, taskRow, launcher, record, worker, shell, signalled, observer>>

-----------------------------------------------------------------------------
\* RunWorker, the supervisor.

\* Its handle came through the pipe and the files agree: the command is started, then recorded.
WorkerStarts ==
    /\ worker = "spawned" /\ starter \in {"await", "gone"} /\ record.pid
    /\ worker' = "launched" /\ shell' = "running"
    /\ UNCHANGED <<taskRun, taskRow, launcher, starter, record, signalled, observer, taskFaults>>

\* The pipe closed without a handle: it ends.
WorkerRefuses ==
    /\ worker = "spawned" /\ starter = "gone" /\ worker' = "gone"
    /\ UNCHANGED <<taskRun, taskRow, launcher, starter, record, shell, signalled, observer, taskFaults>>

WorkerRecords ==
    /\ worker = "launched"
    /\ record' = [record EXCEPT !.state = "running"] /\ worker' = "running"
    /\ UNCHANGED <<taskRun, taskRow, launcher, starter, shell, signalled, observer, taskFaults>>

\* The record cannot be written: the descendants are stopped and the supervisor ends.
WorkerRecordFails ==
    /\ TaskFault
    /\ worker \in {"launched", "stopping"}
    /\ worker' = "gone"
    /\ shell' \in IF shell = "running" THEN {"running", "killed"} ELSE {shell}
    /\ UNCHANGED <<taskRun, taskRow, launcher, starter, record, signalled, observer>>

CommandExits ==
    /\ shell = "running" /\ shell' = "exited"
    /\ UNCHANGED <<taskRun, taskRow, launcher, starter, record, worker, signalled, observer, taskFaults>>

\* select: the command is done, or SIGTERM, or the timeout.
WorkerSees ==
    /\ worker = "running"
    /\ \/ shell = "exited" /\ worker' = "written"
          /\ record' \in {[record EXCEPT !.state = s] : s \in {"exited", "unknown"}}
       \/ worker' = "stopping" /\ record' = [record EXCEPT !.state = "stopping"]
    /\ UNCHANGED <<taskRun, taskRow, launcher, starter, shell, signalled, observer, taskFaults>>

Outcome_Unconfirmed(end) == {"cancelled", "timed_out"} \* mutant: the cleanup is taken for granted
\* What the end of a stopped command is called: its reason if the cleanup is confirmed.
Outcome(end) ==
    (IF end = "running" THEN {} ELSE {IF signalled THEN "cancelled" ELSE "timed_out"}) \cup {"unknown"}

\* stopDescendants, then the final record.
WorkerStops ==
    /\ worker = "stopping" /\ worker' = "written"
    /\ shell' \in IF shell = "running" THEN {"running", "killed"} ELSE {shell}
    /\ record' \in {[record EXCEPT !.state = s] : s \in Outcome(shell')}
    /\ UNCHANGED <<taskRun, taskRow, launcher, starter, signalled, observer, taskFaults>>

WorkerExits ==
    /\ worker = "written" /\ worker' = "gone"
    /\ UNCHANGED <<taskRun, taskRow, launcher, starter, record, shell, signalled, observer, taskFaults>>

\* The Computer stops with all its processes; the files stay.
ComputerDies ==
    /\ TaskFault
    /\ record.request
    /\ starter' = "gone"
    /\ worker' = IF worker = "none" THEN "none" ELSE "gone"
    /\ shell' = IF shell = "running" THEN "killed" ELSE shell
    /\ UNCHANGED <<taskRun, taskRow, launcher, record, signalled, observer>>

-----------------------------------------------------------------------------
\* commandTask: pages, task tools and the reconciliation.

Reconciled_NotUnknown == {"starting", "running", "stopping"} \* mutant: unknown counts as settled
\* The rows the reconciliation looks at.
Reconciled == {"starting", "running", "stopping", "unknown"}

\* The row is read; its handle is used from now on.
ReadTask(o) ==
    /\ observer[o].at = "idle" /\ taskRow # NoTask
    /\ o \in Stoppers \/ taskRow.status \in Reconciled
    /\ observer' = [observer EXCEPT ![o] =
           [at |-> IF o \in Stoppers THEN "signal" ELSE "call", pid |-> taskRow.pid, snap |-> NoSnapshot]]
    /\ UNCHANGED <<taskRun, taskRow, launcher, inComputer, taskFaults>>

\* Stop: signal what can be identified, then look.
StopTask(o) ==
    /\ observer[o].at = "signal"
    /\ IF MayStop(observer[o].pid) THEN Signal ELSE UNCHANGED <<worker, signalled>>
    /\ observer' = [observer EXCEPT ![o].at = "call"]
    /\ UNCHANGED <<taskRun, taskRow, launcher, starter, record, shell, taskFaults>>

\* The helper answers; an error counts as 'unknown' under the handle that was read.
InspectTask(o) ==
    /\ observer[o].at = "call"
    /\ LET snap == Inspected(observer[o].pid)
       IN  observer' = [observer EXCEPT ![o].at = "record",
               ![o].snap = IF snap = Lost THEN Snap("unknown", observer[o].pid) ELSE snap]
    /\ UNCHANGED <<taskRun, taskRow, launcher, inComputer, taskFaults>>
InspectLost(o) ==
    /\ TaskFault
    /\ observer[o].at \in {"call", "signal"}
    /\ observer' = [observer EXCEPT ![o].at = "record", ![o].snap = Snap("unknown", observer[o].pid)]
    /\ UNCHANGED <<taskRun, taskRow, launcher, inComputer>>

\* What was seen is recorded, if the handle is still the one that was read.
RecordObserved(o) ==
    /\ observer[o].at = "record"
    /\ IF Recordable(observer[o].snap) THEN RecordTask(observer[o].snap) ELSE UNCHANGED taskRow
    /\ observer' = [observer EXCEPT ![o] = Watching]
    /\ UNCHANGED <<taskRun, launcher, inComputer, taskFaults>>

-----------------------------------------------------------------------------
LauncherStep ==
    RecordLaunch \/ CallStart \/ StartFailed \/ RecordStarted \/ WaitEnds \/ LauncherStops \/ RecordFinal
WorkerStep == WorkerStarts \/ WorkerRefuses \/ WorkerRecords \/ WorkerStops \/ WorkerExits
ObserverStep(o) == ReadTask(o) \/ InspectTask(o) \/ RecordObserved(o)

TaskNext ==
    \/ LauncherStep \/ StartLost \/ RecordStartedFails \/ WaitLost \/ StopAnswers \/ EndTaskRun
    \/ StarterStep \/ StarterAnswers \/ StarterFails
    \/ WorkerStep \/ WorkerRecordFails \/ WorkerSees \/ CommandExits \/ ComputerDies
    \/ \E o \in Observers : ObserverStep(o) \/ StopTask(o) \/ InspectLost(o)

TaskSpec == TaskInit /\ [][TaskNext]_taskVars

-----------------------------------------------------------------------------
(* A task shown as finished has finished, in the way shown: a process that may still run keeps  *)
(* its row among the active or unknown ones, which keep the Computer from being suspended.      *)
FinishedIsTrue ==
    taskRow.status \in Finished =>
        /\ shell \in {"exited", "killed"}
        /\ taskRow.status = "exited" => shell = "exited"
        /\ taskRow.status = record.state

(* When a supervisor has left a result and its process is known to the row, the row gets that   *)
(* result, although older snapshots and 'unknown' are recorded over newer ones meanwhile.       *)
TaskConverges ==
    (record.state \in Finished /\ worker = "gone" /\ taskRow.pid) ~> taskRow.status = record.state
=============================================================================
