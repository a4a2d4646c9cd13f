---------------------------- MODULE RunLifecycle ----------------------------
(***************************************************************************)
(* The life of the runs of ONE conversation: how a message, a queued input *)
(* or a recovery takes ownership of the conversation, how the in-process   *)
(* executor drives a run through model turns and tool batches, how a user  *)
(* cancels it, and how a run whose owner vanished is repaired.             *)
(*                                                                         *)
(* Every database transaction takes the conversation row lock first, so a  *)
(* committed transaction is one action.  What is NOT one action is the     *)
(* path between transactions: a handler acquires the advisory lock, scans  *)
(* the active runs, finishes them one by one and only then inserts its own *)
(* run; an executor reads the run status and then finishes the run.        *)
(*                                                                         *)
(* Source: backend/internal/conversation (transcript.go, cancellation.go,  *)
(* executor.go, service.go, run_inputs.go, run_input_queue.go,             *)
(* run_input_actions.go, run_monitor.go, interactions.go).                 *)
(***************************************************************************)
EXTENDS Integers, FiniteSets

CONSTANTS
    Replicas,      \* API processes sharing the database
    MaxRuns,       \* bound: runs of the conversation
    Calls,         \* tool-call ids a model may issue in a run
    SendIds,       \* client-chosen submission ids of sent messages
    InputIds,      \* client-chosen ids of adjust/next inputs
    NoId,          \* the nil submission id
    Free,          \* the advisory lock has no holder
    MaxPending,    \* inputs a conversation may hold open (20 in the code)
    Cancellable,   \* runs the user may stop
    FaultKinds,    \* the faults that may happen
    MaxFaults      \* bound: how many of them

Runs == 1..MaxRuns
Ids  == SendIds \cup InputIds

ASSUME ConstantsOK ==
    /\ MaxRuns \in Nat /\ MaxPending \in Nat /\ MaxFaults \in Nat
    /\ Cancellable \subseteq Runs
    /\ FaultKinds \subseteq {"crash", "shutdown", "session", "handoff", "cleanup", "abort"}
    /\ NoId \notin Ids
    /\ Free \notin Replicas \cup Runs
    /\ Replicas \cap Runs = {}

VARIABLES
    \* ---- the database
    status,     \* runs.status, "none" before the row exists
    subm,       \* runs.submission_id
    answer,     \* per tool call: not issued, open, or how its result arose
    torn,       \* a user message follows a tool call that has no result
    asked,      \* runs with a pending question or plan in run_interactions
    input,      \* run_inputs rows
    accepted,   \* the accepted_order sequence
    \* ---- the advisory lock of the conversation
    guard,
    \* ---- the memory of the API processes
    handler,    \* per replica: the goroutine that seeks or holds the guard
    todo,       \* per replica: the snapshot of active runs it is repairing
    exec,       \* per run: its executor goroutine
    stopping,   \* replicas that are shutting down
    \* ---- bound
    faults

database == <<status, subm, answer, torn, asked, input, accepted>>
vars == <<database, guard, handler, todo, exec, stopping, faults>>

-----------------------------------------------------------------------------
Active   == {"running", "cancelling"}
Terminal == {"cancelled", "failed", "completed"}
RunStatus == Active \cup Terminal \cup {"none"}
Answers  == {"none", "open", "result", "interrupted", "cancelled"}

NoInput == [kind |-> "none", state |-> "none", after |-> 0, order |-> 0,
            resumed |-> FALSE]
Idle    == [pc |-> "idle", op |-> "none", id |-> NoId, run |-> 0]
NoExec  == [pc |-> "none", at |-> Free, cause |-> "none"]
NoTodo  == [r \in Runs |-> "none"]

\* The phases in which the executor still works on the run, as opposed to
\* recording its end.
Working == {"setup", "turn", "model", "tools", "asking", "returned", "finish"}

InputOpen(i)  == input[i].state \in {"pending", "queued", "held"}
Queued(i)     == input[i].kind = "next" /\ input[i].state = "queued"
Pending(i, r) == /\ input[i].kind = "adjust" /\ input[i].state = "pending"
                 /\ input[i].after = r
\* Mutant of Unread: completion does not look for accepted adjustments.
Unread_Ignored(r) == FALSE
Unread(r)     == \E i \in InputIds : Pending(i, r)
OpenCall(r)   == \E c \in Calls : answer[r][c] = "open"
Live(r)       == exec[r].pc # "none"

\* Mutant of UsedIdentity: a repeated id is not looked up.
UsedIdentity_Unchecked(i) == FALSE

\* acceptedSubmission / usedIdentity / runs_submission_identity_unique: the id
\* already names a run.
UsedIdentity(i) == \E r \in Runs : status[r] # "none" /\ subm[r] = i

\* The row an INSERT INTO runs creates: created_at orders runs like their ids.
NextRun(r) == status[r] = "none" /\ \A q \in Runs : q < r => status[q] # "none"

\* queuedInputHasPriority: a queued input that may start now.
ReadyInput(i) == Queued(i) /\ (status[input[i].after] = "completed" \/ input[i].resumed)

\* Mutant of Head: any queued input may go first.
Head_Any(i) == Queued(i)

\* The head of the queue by accepted_order.
Head(i) == /\ Queued(i)
           /\ \A j \in InputIds : Queued(j) => input[i].order <= input[j].order

-----------------------------------------------------------------------------
(***************************************************************************)
(* The transactions that end a run.  Each is used by several callers.      *)
(***************************************************************************)

\* holdRunInputs: work accepted behind a run that did not complete waits for
\* an explicit decision of the user.
\* Mutant of HeldBy: the queue behind a failed run is not held.
HeldBy_PendingOnly(r, i) == Pending(i, r)

HeldBy(r, i) == Pending(i, r) \/ Queued(i)

HoldRunInputs(r) ==
    [i \in InputIds |-> IF HeldBy(r, i) THEN [input[i] EXCEPT !.state = "held"]
                                       ELSE input[i]]

\* Mutant of SettleCalls: unanswered calls get no record.
SettleCalls_Skipped(r, how) == answer

\* The missing tool results of r, recorded with the reason of the ending.
SettleCalls(r, how) ==
    [answer EXCEPT ![r] = [c \in Calls |-> IF answer[r][c] = "open" THEN how
                                                                   ELSE answer[r][c]]]

\* Mutant of EndRun: outcome and reason are swapped.
EndRun_Swapped(r, st, how) ==
    /\ status' = [status EXCEPT ![r] = how]
    /\ answer' = SettleCalls(r, st)
    /\ input'  = HoldRunInputs(r)
    /\ asked'  = asked \ {r}

EndRun(r, st, how) ==
    /\ status' = [status EXCEPT ![r] = st]
    /\ answer' = SettleCalls(r, how)
    /\ input'  = HoldRunInputs(r)
    /\ asked'  = asked \ {r}

\* Mutant of FinishFailedRun: the row is not checked for a stop.
FinishFailedRun_OverStop(r) ==
    \/ /\ status[r] \in Active
       /\ EndRun(r, "failed", "interrupted")
    \/ /\ status[r] \notin Active
       /\ UNCHANGED <<status, answer, input, asked>>

\* finishFailedRun: only a running run fails; any other status is left alone.
FinishFailedRun(r) ==
    \/ /\ status[r] = "running"
       /\ EndRun(r, "failed", "interrupted")
    \/ /\ status[r] # "running"
       /\ UNCHANGED <<status, answer, input, asked>>

\* finishCancelledRun: a run that already ended is left alone.
FinishCancelledRun(r) ==
    \/ /\ status[r] \in Active
       /\ EndRun(r, "cancelled", "cancelled")
    \/ /\ status[r] \notin Active
       /\ UNCHANGED <<status, answer, input, asked>>

\* INSERT INTO runs with its user message.  The message lands behind every
\* call that has no result yet, which no later result can repair.
InsertRun(r, id) ==
    /\ NextRun(r)
    /\ status' = [status EXCEPT ![r] = "running"]
    /\ subm'   = [subm EXCEPT ![r] = id]
    /\ torn'   = (torn \/ \E q \in Runs : OpenCall(q))

-----------------------------------------------------------------------------
(***************************************************************************)
(* Handlers: Send, the queue dispatcher and the run monitor all take the   *)
(* guard, repair what its last owner left, and go on.  A replica runs one  *)
(* such goroutine at a time here; the guard admits only one anyway.        *)
(***************************************************************************)

\* SendSubmission up to acquireRun: an id that already names a run returns it.
SendBegin(p, i) ==
    /\ handler[p].pc = "idle"
    /\ ~UsedIdentity(i)
    /\ handler' = [handler EXCEPT ![p] = [pc |-> "begin", op |-> "send", id |-> i, run |-> 0]]
    /\ UNCHANGED <<database, guard, todo, exec, stopping, faults>>

\* scheduleInputQueue, fired by a ticker, a resume or the end of an executor.
DispatchBegin(p) ==
    /\ handler[p].pc = "idle" /\ p \notin stopping
    /\ \E i \in InputIds : Queued(i)
    /\ handler' = [handler EXCEPT ![p] = [pc |-> "begin", op |-> "dispatch", id |-> NoId, run |-> 0]]
    /\ UNCHANGED <<database, guard, todo, exec, stopping, faults>>

\* reconcileInteractionOwner: the newest active run has no executor here.
MonitorBegin(p) ==
    /\ handler[p].pc = "idle" /\ p \notin stopping
    /\ \E r \in Runs :
        /\ status[r] \in Active
        /\ \A q \in Runs : q > r => status[q] \notin Active
        /\ ~(Live(r) /\ exec[r].at = p)
    /\ handler' = [handler EXCEPT ![p] = [pc |-> "begin", op |-> "monitor", id |-> NoId, run |-> 0]]
    /\ UNCHANGED <<database, guard, todo, exec, stopping, faults>>

\* Mutant of AcquireRun: the lock is shared instead of exclusive.
AcquireRun_Shared(p) ==
    /\ handler[p].pc = "begin"
    /\ guard' = p
    /\ handler' = [handler EXCEPT ![p].pc = "owned"]
    /\ UNCHANGED <<database, todo, exec, stopping, faults>>

\* acquireRun: pg_try_advisory_lock on a dedicated session.
AcquireRun(p) ==
    /\ handler[p].pc = "begin"
    /\ guard = Free
    /\ guard' = p
    /\ handler' = [handler EXCEPT ![p].pc = "owned"]
    /\ UNCHANGED <<database, todo, exec, stopping, faults>>

AcquireFails(p) ==
    /\ handler[p].pc = "begin"
    /\ guard # Free
    /\ handler' = [handler EXCEPT ![p] = Idle]
    /\ UNCHANGED <<database, guard, todo, exec, stopping, faults>>

\* Closing the session ends the handler; a session that dropped holds nothing.
Release(p) ==
    /\ guard' = IF guard = p THEN Free ELSE guard
    /\ handler' = [handler EXCEPT ![p] = Idle]
    /\ todo' = [todo EXCEPT ![p] = NoTodo]

\* The second acceptedSubmission of SendSubmission, now under the guard.
SendFound(p) ==
    /\ handler[p].pc = "owned" /\ handler[p].op = "send"
    /\ UsedIdentity(handler[p].id)
    /\ Release(p)
    /\ UNCHANGED <<database, exec, stopping, faults>>

\* Mutants of Abandoned: recovery looks for one of the two statuses only.
Abandoned_OnlyRunning(r) == status[r] = "running"
Abandoned_OnlyCancelling(r) == status[r] = "cancelling"

\* A run that has not ended has no owner any more once its guard is ours.
Abandoned(r) == status[r] \in Active

\* recoverInterruptedRuns, the SELECT: run ids with the status they have now.
RecoverScan(p) ==
    /\ handler[p].pc = "owned"
    /\ handler[p].op = "send" => ~UsedIdentity(handler[p].id)
    /\ todo' = [todo EXCEPT ![p] =
                    [r \in Runs |-> IF Abandoned(r) THEN status[r] ELSE "none"]]
    /\ handler' = [handler EXCEPT ![p].pc = "recover"]
    /\ UNCHANGED <<database, guard, exec, stopping, faults>>

\* recoverInterruptedRuns, the loop: the status that was READ picks the
\* transaction, the status of the row decides what that transaction does.
RecoverOne(p, r) ==
    /\ handler[p].pc = "recover"
    /\ todo[p][r] # "none"
    /\ \A q \in Runs : q < r => todo[p][q] = "none"
    /\ \/ todo[p][r] = "cancelling" /\ FinishCancelledRun(r)
       \/ todo[p][r] = "running"    /\ FinishFailedRun(r)
    /\ todo' = [todo EXCEPT ![p][r] = "none"]
    /\ UNCHANGED <<subm, torn, accepted, guard, handler, exec, stopping, faults>>

Recovered(p, op) ==
    /\ handler[p].pc = "recover" /\ handler[p].op = op
    /\ todo[p] = NoTodo

MonitorDone(p) ==
    /\ Recovered(p, "monitor")
    /\ Release(p)
    /\ UNCHANGED <<database, exec, stopping, faults>>

\* ErrQueuedInputPriority: an input that may start now goes first.
SendYields(p) ==
    /\ Recovered(p, "send")
    /\ \E i \in InputIds : ReadyInput(i)
    /\ Release(p)
    /\ UNCHANGED <<database, exec, stopping, faults>>

\* prepareRunInput rejects an attachment or a reference of the message, or the
\* INSERT meets runs_submission_identity_unique.
SendRejected(p) ==
    /\ Recovered(p, "send")
    /\ \A i \in InputIds : ~ReadyInput(i)
    /\ Release(p)
    /\ UNCHANGED <<database, exec, stopping, faults>>

\* The accepting transaction of SendSubmission.
SendInsert(p, r) ==
    /\ Recovered(p, "send")
    /\ \A i \in InputIds : ~ReadyInput(i)
    /\ ~UsedIdentity(handler[p].id)
    /\ InsertRun(r, handler[p].id)
    /\ handler' = [handler EXCEPT ![p].pc = "launch", ![p].run = r]
    /\ UNCHANGED <<answer, asked, input, accepted, guard, todo, exec, stopping, faults>>

\* dispatchInputQueue / claimQueuedInput that start nothing: the replica stops,
\* a run is active, the queue is empty, or the id of the head already names a
\* run and the INSERT violates runs_submission_identity_unique.
ClaimNothing(p) ==
    /\ Recovered(p, "dispatch")
    /\ \/ p \in stopping
       \/ \E r \in Runs : status[r] \in Active
       \/ \A i \in InputIds : ~Queued(i)
       \/ \E i \in InputIds : Head(i) /\ ReadyInput(i) /\ UsedIdentity(i)
    /\ Release(p)
    /\ UNCHANGED <<database, exec, stopping, faults>>

\* claimQueuedInput that holds the head: its predecessor did not complete, or
\* its actor lost access (an administrator's choice, at any time).
ClaimHolds(p, i) ==
    /\ Recovered(p, "dispatch") /\ p \notin stopping
    /\ \A r \in Runs : status[r] \notin Active
    /\ Head(i)
    /\ input' = [input EXCEPT ![i].state = "held"]
    /\ Release(p)
    /\ UNCHANGED <<status, subm, answer, torn, asked, accepted, exec, stopping, faults>>

\* claimQueuedInput that starts the head as a new run.
ClaimQueuedInput(p, i, r) ==
    /\ Recovered(p, "dispatch") /\ p \notin stopping
    /\ \A q \in Runs : status[q] \notin Active
    /\ Head(i) /\ ReadyInput(i) /\ ~UsedIdentity(i)
    /\ InsertRun(r, i)
    /\ input' = [input EXCEPT ![i].state = "started"]
    /\ handler' = [handler EXCEPT ![p].pc = "launch", ![p].run = r]
    /\ UNCHANGED <<answer, asked, accepted, guard, todo, exec, stopping, faults>>

\* runExecutor.launch: the guard passes to the executor of the run.
Launch(p) ==
    LET r == handler[p].run IN
    /\ handler[p].pc = "launch" /\ p \notin stopping
    /\ exec' = [exec EXCEPT ![r] = [pc |-> "setup", at |-> p, cause |-> "none"]]
    /\ guard' = IF guard = p THEN r ELSE guard
    /\ handler' = [handler EXCEPT ![p] = Idle]
    /\ UNCHANGED <<database, todo, stopping, faults>>

\* launch returns false while shutting down: the accepted run fails at once.
LaunchRefused(p) ==
    /\ handler[p].pc = "launch" /\ p \in stopping
    /\ FinishFailedRun(handler[p].run)
    /\ Release(p)
    /\ UNCHANGED <<subm, torn, accepted, exec, stopping, faults>>

-----------------------------------------------------------------------------
(***************************************************************************)
(* The executor of a run.                                                  *)
(***************************************************************************)

Goto(r, pc) == exec' = [exec EXCEPT ![r].pc = pc]

\* Mutant of At: the writes of an executor are not fenced by the row.
At_Unfenced(r, pc) == exec[r].pc = pc /\ exec[r].cause = "none"

\* A step the executor takes while its context is alive.  Every write of it is
\* fenced by the row: appendMessage, applyRunAdjustments, createRunInteraction
\* and finishCompletedRun refuse a run that is not running.
At(r, pc) == exec[r].pc = pc /\ exec[r].cause = "none" /\ status[r] = "running"

\* execute: load history, wake the computer, save the run context.
Setup(r) ==
    /\ At(r, "setup")
    /\ Goto(r, "turn")
    /\ UNCHANGED <<database, guard, handler, todo, stopping, faults>>

\* The head of a turn: applyRunAdjustments appends accepted adjustments, then
\* toolcontext.Build rejects a history whose calls and results do not pair up.
ApplyRunAdjustments(r) ==
    /\ At(r, "turn")
    /\ input' = [i \in InputIds |-> IF Pending(i, r) THEN [input[i] EXCEPT !.state = "applied"]
                                                     ELSE input[i]]
    /\ torn' = (torn \/ (Unread(r) /\ \E q \in Runs : OpenCall(q)))
    /\ Goto(r, IF torn THEN "failing" ELSE "model")
    /\ UNCHANGED <<status, subm, answer, asked, accepted, guard, handler, todo, stopping, faults>>

\* The assistant message, durable before any of its calls runs.
ModelAnswers(r, batch) ==
    /\ At(r, "model")
    /\ \A c \in batch : answer[r][c] = "none"
    /\ answer' = [answer EXCEPT ![r] = [c \in Calls |-> IF c \in batch THEN "open"
                                                                      ELSE answer[r][c]]]
    /\ Goto(r, IF batch = {} THEN "finish" ELSE "tools")
    /\ UNCHANGED <<status, subm, torn, asked, input, accepted, guard, handler, todo, stopping, faults>>

\* Mutant of ToolDone: the result that could not be stored is dropped.
ToolDone_Unrecorded(r, c) ==
    /\ At(r, "tools") \/ At(r, "returned")
    /\ answer[r][c] = "open"
    /\ Goto(r, "turn")
    /\ UNCHANGED <<database, guard, handler, todo, stopping, faults>>

\* runTool returned and its result is appended; the last one ends the batch.
\* "returned" is the phase of a tool that has had its answer.
ToolDone(r, c) ==
    /\ At(r, "tools") \/ At(r, "returned")
    /\ answer[r][c] = "open"
    /\ answer' = [answer EXCEPT ![r][c] = "result"]
    /\ Goto(r, IF \E d \in Calls \ {c} : answer[r][d] = "open" THEN "tools" ELSE "turn")
    /\ UNCHANGED <<status, subm, torn, asked, input, accepted, guard, handler, todo, stopping, faults>>

\* createRunInteraction: run_interactions_one_pending allows one per run.
ToolAsks(r) ==
    /\ At(r, "tools")
    /\ r \notin asked
    /\ asked' = asked \cup {r}
    /\ Goto(r, "asking")
    /\ UNCHANGED <<status, subm, answer, torn, input, accepted, guard, handler, todo, stopping, faults>>

\* waitRunInteraction returns to its tool: answered, superseded by an
\* adjustment, or its poll failed and the row stays pending.
AskReturns(r) ==
    /\ At(r, "asking")
    /\ Goto(r, "returned")
    /\ UNCHANGED <<database, guard, handler, todo, stopping, faults>>

\* finishCompletedRun: not while an accepted adjustment is unread.
FinishCompletedRun(r) ==
    /\ At(r, "finish")
    /\ ~Unread(r)
    /\ status' = [status EXCEPT ![r] = "completed"]
    /\ asked' = asked \ {r}
    /\ Goto(r, "exit")
    /\ UNCHANGED <<subm, answer, torn, input, accepted, guard, handler, todo, stopping, faults>>

\* ErrPendingRunInputs sends the executor back to the head of its loop.
FinishDeferred(r) ==
    /\ At(r, "finish")
    /\ Unread(r)
    /\ Goto(r, "turn")
    /\ UNCHANGED <<database, guard, handler, todo, stopping, faults>>

\* Any step may fail, be refused by its fence, or find its context cancelled.
StepFails(r) ==
    /\ exec[r].pc \in Working
    /\ Goto(r, "failing")
    /\ UNCHANGED <<database, guard, handler, todo, stopping, faults>>

\* A tool that returned while the user cancelled: the observed result is kept,
\* marked cancelled.  appendMessage accepts it while the run is cancelling.
ToolObserved(r, c) ==
    /\ exec[r].pc \in {"tools", "returned"} /\ exec[r].cause = "user"
    /\ status[r] \in Active
    /\ answer[r][c] = "open"
    /\ answer' = [answer EXCEPT ![r][c] = "cancelled"]
    /\ Goto(r, "failing")
    /\ UNCHANGED <<status, subm, torn, asked, input, accepted, guard, handler, todo, stopping, faults>>

\* finishContext / finishExecutionError: a user's cancellation is known from
\* the context or from the row, anything else fails the run.
ReadStatus(r) ==
    /\ exec[r].pc = "failing"
    /\ Goto(r, IF exec[r].cause = "user" \/ status[r] \in {"cancelling", "cancelled"}
               THEN "to_cancelled" ELSE "to_failed")
    /\ UNCHANGED <<database, guard, handler, todo, stopping, faults>>

\* The transaction that was chosen; the status may have moved since the read.
RecordEnd(r) ==
    /\ \/ exec[r].pc = "to_cancelled" /\ FinishCancelledRun(r)
       \/ exec[r].pc = "to_failed"    /\ FinishFailedRun(r)
    /\ Goto(r, "exit")
    /\ UNCHANGED <<subm, torn, accepted, guard, handler, todo, stopping, faults>>

\* Mutant of Exit: the session of the guard is not closed.
Exit_KeepsGuard(r) ==
    /\ exec[r].pc = "exit"
    /\ exec' = [exec EXCEPT ![r] = NoExec]
    /\ UNCHANGED <<database, guard, handler, todo, stopping, faults>>

\* The deferred end of the goroutine: guard.Close, active.Delete.
Exit(r) ==
    /\ exec[r].pc = "exit"
    /\ exec' = [exec EXCEPT ![r] = NoExec]
    /\ guard' = IF guard = r THEN Free ELSE guard
    /\ UNCHANGED <<database, handler, todo, stopping, faults>>

\* The context learns of the cancellation, from CancelRun on this replica or
\* from the watchdog's poll.  Only the first cause of a context is kept.
CancelObserved(r) ==
    /\ exec[r].pc \in Working /\ exec[r].cause = "none"
    /\ status[r] \in {"cancelling", "cancelled"}
    /\ exec' = [exec EXCEPT ![r].cause = "user"]
    /\ UNCHANGED <<database, guard, handler, todo, stopping, faults>>

\* The watchdog finds its session gone or the run ended by someone else.
OwnershipLost(r) ==
    /\ exec[r].pc \in Working /\ exec[r].cause = "none"
    /\ guard # r \/ status[r] \in {"failed", "completed"}
    /\ exec' = [exec EXCEPT ![r].cause = "lost"]
    /\ UNCHANGED <<database, guard, handler, todo, stopping, faults>>

\* Shutdown cancels the executors of its process.
ShutdownCancels(r) ==
    /\ exec[r].pc \in Working /\ exec[r].cause = "none"
    /\ exec[r].at \in stopping
    /\ exec' = [exec EXCEPT ![r].cause = "shutdown"]
    /\ UNCHANGED <<database, guard, handler, todo, stopping, faults>>

-----------------------------------------------------------------------------
(***************************************************************************)
(* Users.                                                                  *)
(***************************************************************************)

\* CancelRun: any replica, no guard needed.
CancelRun(r) ==
    /\ r \in Cancellable
    /\ status[r] = "running"
    /\ status' = [status EXCEPT ![r] = "cancelling"]
    /\ input' = HoldRunInputs(r)
    /\ asked' = asked \ {r}
    /\ UNCHANGED <<subm, answer, torn, accepted, guard, handler, todo, exec, stopping, faults>>

\* AcceptRunInput; a repeated id returns the stored row and changes nothing.
AcceptRunInput(i, r, kind) ==
    /\ input[i] = NoInput
    /\ ~UsedIdentity(i)
    /\ status[r] = "running"
    /\ Cardinality({j \in InputIds : InputOpen(j)}) < MaxPending
    /\ accepted' = accepted + 1
    /\ input' = [input EXCEPT ![i] =
            [kind |-> kind, state |-> IF kind = "next" THEN "queued" ELSE "pending",
             after |-> r, order |-> accepted', resumed |-> FALSE]]
    /\ asked' = IF kind = "adjust" THEN asked \ {r} ELSE asked
    /\ UNCHANGED <<status, subm, answer, torn, guard, handler, todo, exec, stopping, faults>>

\* ChangeRunInput, action cancel.
CancelInput(i) ==
    /\ InputOpen(i)
    /\ input' = [input EXCEPT ![i].state = "cancelled"]
    /\ UNCHANGED <<status, subm, answer, torn, asked, accepted, guard, handler, todo, exec, stopping, faults>>

\* ChangeRunInput, action resume: only while the conversation is idle.
ResumeInput(i) ==
    /\ input[i].kind = "next" /\ input[i].state = "held"
    /\ \A r \in Runs : status[r] \notin Active
    /\ input' = [input EXCEPT ![i].state = "queued", ![i].resumed = TRUE]
    /\ UNCHANGED <<status, subm, answer, torn, asked, accepted, guard, handler, todo, exec, stopping, faults>>

\* RespondRunInteraction.
RespondInteraction(r) ==
    /\ r \in asked /\ status[r] = "running"
    /\ asked' = asked \ {r}
    /\ UNCHANGED <<status, subm, answer, torn, input, accepted, guard, handler, todo, exec, stopping, faults>>

-----------------------------------------------------------------------------
(***************************************************************************)
(* Faults and restarts, bounded by MaxFaults.                              *)
(***************************************************************************)

Fault(kind) == kind \in FaultKinds /\ faults < MaxFaults /\ faults' = faults + 1

\* Memory of a process is gone; PostgreSQL frees the sessions it held.
LoseProcess(p) ==
    /\ handler' = [handler EXCEPT ![p] = Idle]
    /\ todo' = [todo EXCEPT ![p] = NoTodo]
    /\ exec' = [r \in Runs |-> IF exec[r].at = p THEN NoExec ELSE exec[r]]
    /\ guard' = IF guard = p \/ (guard \in Runs /\ exec[guard].at = p) THEN Free ELSE guard
    /\ stopping' = stopping \ {p}
    /\ UNCHANGED database

Crash(p) == Fault("crash") /\ LoseProcess(p)

\* The context of main is cancelled: no launch, no dispatch, no monitor.
ShutdownBegin(p) ==
    /\ Fault("shutdown")
    /\ p \notin stopping
    /\ stopping' = stopping \cup {p}
    /\ UNCHANGED <<database, guard, handler, todo, exec>>

\* The process ends, drained or out of patience, and is started again.
Restart(p) ==
    /\ p \in stopping
    /\ LoseProcess(p)
    /\ UNCHANGED faults

\* The dedicated session of an executor drops while the process lives on.
LoseSession(r) ==
    /\ Fault("session")
    /\ guard = r
    /\ guard' = Free
    /\ UNCHANGED <<database, handler, todo, exec, stopping>>

\* The session of a handler drops between acquireRun and the hand-off; nothing
\* watches it there.
LoseHandlerSession(p) ==
    /\ Fault("handoff")
    /\ guard = p
    /\ guard' = Free
    /\ UNCHANGED <<database, handler, todo, exec, stopping>>

\* The database does not answer the cleanup of an executor in time.
RecordEndLost(r) ==
    /\ Fault("cleanup")
    /\ exec[r].pc \in {"to_cancelled", "to_failed"}
    /\ Goto(r, "exit")
    /\ UNCHANGED <<database, guard, handler, todo, stopping>>

\* A handler gives up between two of its transactions: the client went away,
\* the database did not answer, or the cleanup of a refused launch timed out.
HandlerAborts(p) ==
    /\ Fault("abort")
    /\ \/ handler[p].pc \in {"owned", "recover"}
       \/ handler[p].pc = "launch" /\ p \in stopping
    /\ Release(p)
    /\ UNCHANGED <<database, exec, stopping>>

-----------------------------------------------------------------------------
Init ==
    /\ status = [r \in Runs |-> "none"]
    /\ subm = [r \in Runs |-> NoId]
    /\ answer = [r \in Runs |-> [c \in Calls |-> "none"]]
    /\ torn = FALSE
    /\ asked = {}
    /\ input = [i \in InputIds |-> NoInput]
    /\ accepted = 0
    /\ guard = Free
    /\ handler = [p \in Replicas |-> Idle]
    /\ todo = [p \in Replicas |-> NoTodo]
    /\ exec = [r \in Runs |-> NoExec]
    /\ stopping = {}
    /\ faults = 0

HandlerStep(p) ==
    \/ AcquireRun(p) \/ AcquireFails(p)
    \/ SendFound(p) \/ RecoverScan(p) \/ (\E r \in Runs : RecoverOne(p, r))
    \/ MonitorDone(p) \/ SendYields(p) \/ SendRejected(p) \/ (\E r \in Runs : SendInsert(p, r))
    \/ ClaimNothing(p) \/ (\E i \in InputIds : ClaimHolds(p, i))
    \/ (\E i \in InputIds, r \in Runs : ClaimQueuedInput(p, i, r))
    \/ Launch(p) \/ LaunchRefused(p)

ExecStep(r) ==
    \/ Setup(r) \/ ApplyRunAdjustments(r)
    \/ (\E batch \in SUBSET Calls : ModelAnswers(r, batch))
    \/ (\E c \in Calls : ToolDone(r, c)) \/ ToolAsks(r)
    \/ FinishCompletedRun(r) \/ FinishDeferred(r)
    \/ (\E c \in Calls : ToolObserved(r, c))
    \/ ReadStatus(r) \/ RecordEnd(r) \/ Exit(r)

ExecSignal(r) == CancelObserved(r) \/ OwnershipLost(r) \/ ShutdownCancels(r)

UserStep ==
    \/ \E r \in Runs : CancelRun(r) \/ RespondInteraction(r)
    \/ \E i \in InputIds, r \in Runs, k \in {"adjust", "next"} : AcceptRunInput(i, r, k)
    \/ \E i \in InputIds : CancelInput(i) \/ ResumeInput(i)

FaultStep ==
    \/ \E p \in Replicas : \/ Crash(p) \/ ShutdownBegin(p) \/ Restart(p)
                           \/ LoseHandlerSession(p) \/ HandlerAborts(p)
    \/ \E r \in Runs : LoseSession(r) \/ RecordEndLost(r)

Next ==
    \/ \E p \in Replicas : \/ \E i \in SendIds : SendBegin(p, i)
                           \/ DispatchBegin(p) \/ MonitorBegin(p) \/ HandlerStep(p)
    \/ \E r \in Runs : ExecStep(r) \/ AskReturns(r) \/ StepFails(r) \/ ExecSignal(r)
    \/ UserStep
    \/ FaultStep

Spec == Init /\ [][Next]_vars

-----------------------------------------------------------------------------
(***************************************************************************)
(* Fairness.  Executors, watchdogs and handlers are goroutines that keep   *)
(* running; every model request, tool and query has a timeout.  A process  *)
(* that stops is restarted.  MonitorRuns and MonitorInputQueue try again   *)
(* every 15 s and 10 s, and the guard they try for is released again and   *)
(* again, so their attempts are strongly fair.  Users are never obliged to *)
(* act: in particular nobody has to answer a question.                     *)
(***************************************************************************)
Refused(r) == exec[r].cause # "none" \/ status[r] # "running"

Fairness ==
    /\ \A r \in Runs :
        /\ WF_vars(ExecStep(r))
        /\ WF_vars(ExecSignal(r))
        /\ WF_vars(AskReturns(r) /\ r \notin asked)
        /\ WF_vars(StepFails(r) /\ Refused(r))
    /\ \A p \in Replicas :
        /\ WF_vars(HandlerStep(p))
        /\ SF_vars(AcquireRun(p))
        /\ SF_vars(MonitorBegin(p))
        /\ SF_vars(DispatchBegin(p))
        /\ WF_vars(Restart(p))

FairSpec == Spec /\ Fairness

-----------------------------------------------------------------------------
(***************************************************************************)
(* Properties.                                                             *)
(***************************************************************************)

InputRow == [kind : {"none", "adjust", "next"},
             state : {"none", "pending", "queued", "held", "applied", "started", "cancelled"},
             after : Runs \cup {0}, order : Nat, resumed : BOOLEAN]
HandlerRow == {h \in [pc : {"idle", "begin", "owned", "recover", "launch"},
                      op : {"none", "send", "dispatch", "monitor"},
                      id : SendIds \cup {NoId}, run : Runs \cup {0}] :
                  /\ h.op = "send" => h.id \in SendIds
                  /\ h.pc = "launch" => h.run \in Runs}
ExecRow == [pc : Working \cup {"none", "failing", "to_cancelled", "to_failed", "exit"},
            at : Replicas \cup {Free}, cause : {"none", "user", "lost", "shutdown"}]

\* Every variable keeps the shape of the rows, locks and goroutines it stands for.
TypeOK ==
    /\ status \in [Runs -> RunStatus]
    /\ subm \in [Runs -> Ids \cup {NoId}]
    /\ answer \in [Runs -> [Calls -> Answers]]
    /\ torn \in BOOLEAN
    /\ asked \in SUBSET Runs
    /\ input \in [InputIds -> InputRow]
    /\ accepted \in Nat
    /\ guard \in Replicas \cup Runs \cup {Free}
    /\ handler \in [Replicas -> HandlerRow]
    /\ todo \in [Replicas -> [Runs -> Active \cup {"none"}]]
    /\ exec \in [Runs -> ExecRow]
    /\ stopping \in SUBSET Replicas
    /\ faults \in Nat

\* One run of a conversation executes at a time: whatever crashes or loses
\* its session, the run a new owner starts is the only running one, because
\* recoverInterruptedRuns failed every run the last owner left behind.
AtMostOneRunning ==
    \A q, r \in Runs : status[q] = "running" /\ status[r] = "running" => q = r

\* New input is accepted only behind a settled past: whatever run a message
\* or a queued input starts, every older run has ended and each of its tool
\* calls has a result or an explicit interrupted/cancelled record.
OlderRunsSettled ==
    \A q, r \in Runs :
        (q < r /\ status[r] # "none") => status[q] \in Terminal /\ ~OpenCall(q)

\* The transcript a model is shown always pairs calls with results: no user
\* message is ever stored behind a tool call that has no result, which would
\* make toolcontext.Build reject the history of every later run.
TranscriptIntact == ~torn

\* Both at once: behind a settled past, in a transcript a model accepts.
TranscriptSettled == OlderRunsSettled /\ TranscriptIntact

\* A run that ended left nothing open: every tool call has a result, no
\* adjustment waits for it, no question is still put to the user.  A run that
\* is only being cancelled has already withdrawn its questions and inputs.
EndedRunsSettled ==
    \A r \in Runs :
        /\ status[r] \in Terminal => ~OpenCall(r)
        /\ status[r] # "running" => r \notin asked /\ \A i \in InputIds : ~Pending(i, r)

\* Accepted work starts by itself only in an unbroken chain of successes: a
\* queued input that was never resumed became a run only if every run from the
\* one it was queued behind up to its own start completed.
NoSilentLaunch ==
    \A i \in InputIds, s \in Runs :
        (input[i].state = "started" /\ ~input[i].resumed /\ subm[s] = i)
            => \A q \in Runs : input[i].after <= q /\ q < s => status[q] = "completed"

\* Queued inputs start in the order they were accepted, except those a user
\* resumed after they had been held.
QueueOrder ==
    \A i, j \in InputIds :
        (input[i].state = "started" /\ Queued(j) /\ input[j].order < input[i].order)
            => input[j].resumed

\* The queue does what its user was told: nothing starts silently behind a run
\* that failed or was stopped, and what starts, starts in the order accepted.
QueueHonest == NoSilentLaunch /\ QueueOrder

\* A submission id becomes at most one run, however often and on however many
\* replicas the message is sent, and never the run of a started input too.
OneRunPerSubmission ==
    \A q, r \in Runs : subm[q] = subm[r] /\ subm[q] # NoId => q = r

\* The past is frozen: after a run has ended, neither its outcome nor the
\* results in its transcript change, although its old executor, the executor
\* of its successor and recovering replicas may all still be at work.
EndedRunsFrozen ==
    [][\A r \in Runs : status[r] \in Terminal
            => status'[r] = status[r] /\ answer'[r] = answer[r]]_vars

\* Once a user's stop is accepted the run can only become cancelled; no late
\* completion, failure or recovery reports it as anything else.
StopIsFinal ==
    [][\A r \in Runs : status[r] = "cancelling"
            => status'[r] \in {"cancelling", "cancelled"}]_vars

\* A stop that was accepted takes effect, on whatever replica the run lives.
StopTakesEffect ==
    \A r \in Runs : status[r] = "cancelling" ~> status[r] = "cancelled"

\* A run ends, or waits for its user: a lost owner never leaves it running.
RunsEnd ==
    \A r \in Runs : status[r] = "running" ~> status[r] \in Terminal \/ r \in asked

\* A queued input does not wait forever, unless a run waits for its user.
QueueMoves ==
    \A i \in InputIds : Queued(i) ~> ~Queued(i) \/ asked # {}

-----------------------------------------------------------------------------
(***************************************************************************)
(* Why it works: the inductive invariants behind the properties.  They     *)
(* hold as long as no handler loses its session ("handoff").               *)
(***************************************************************************)

\* The run that owns the guard, or the handler that repairs the conversation
\* on behalf of its next run, accounts for every running run.
Owned(r) ==
    \/ guard = Free
    \/ guard = r
    \/ \E p \in Replicas :
        /\ guard = p
        /\ \/ handler[p].pc = "owned"
           \/ handler[p].pc = "recover" /\ todo[p][r] = "running"
           \/ handler[p].pc = "launch" /\ handler[p].run = r

HandlersHoldGuard ==
    \A p \in Replicas : handler[p].pc \in {"owned", "recover", "launch"} <=> guard = p

\* Ownership, inductive as long as no handler loses its session: every running
\* run is accounted for by whoever holds the guard, so a new one is inserted
\* only when recovery has left none.
Ownership ==
    /\ AtMostOneRunning
    /\ HandlersHoldGuard
    /\ \A r \in Runs : status[r] = "running" => Owned(r)

RunsInOrder ==
    \A q, r \in Runs : q < r /\ status[r] # "none" => status[q] # "none"

\* An executor between two batches has no unanswered call.
BatchesComplete ==
    \A r \in Runs :
        /\ status[r] = "none" => \A c \in Calls : answer[r][c] = "none"
        /\ (status[r] = "running" /\ exec[r].pc \in {"setup", "turn", "model", "finish"})
               => ~OpenCall(r)

\* A run that was just inserted has no executor and no call yet.
LaunchIsFresh ==
    \A p \in Replicas : handler[p].pc = "launch" =>
        ~Live(handler[p].run) /\ ~OpenCall(handler[p].run)

UnstartedRunsIdle == \A r \in Runs : status[r] = "none" => ~Live(r)

\* Together: a run is inserted behind settled batches of nobody, and completes
\* with none of its own calls open.
Batches == RunsInOrder /\ BatchesComplete /\ LaunchIsFresh /\ UnstartedRunsIdle

\* What every step keeps: recovery and launch may rely on both.
OwnedBatches == Ownership /\ Batches

-----------------------------------------------------------------------------
\* The lifecycle implements the contract of a conversation.
Contract == INSTANCE RunContract

ImplementsContract == Contract!Spec
=============================================================================
