# Lester agent: TLA+ models, checks and proofs

This directory is the formal side of the Lester backend (`src/backend`, Go): TLA+
modules translated from the code, TLC configurations that check them on small
instances, and TLAPS proofs of what matters most. It is meant to be read beside
the code: `PROJECT.json` maps every definition to the lines it stands for.

Contents: 1 the system, 2 what is hard about it, 3 the modules, 4 the checks,
5 fairness, 6 the proofs, 7 disagreements found, 8 the plan, 9 what is left out.

## 1. The system

One Go process (`cmd/api`), run in any number of replicas over one PostgreSQL
database. Users talk to *conversations*; a message starts a *run*, in which a
goroutine alternates model requests and tool calls until the model stops.
Replicas share no memory: they meet in rows, in advisory locks, and in the
event outbox.

| Component | Source (under `src/backend`) | State | Operations | What makes it correct |
| --- | --- | --- | --- | --- |
| Run ownership and recovery | `internal/conversation/transcript.go`, `run_monitor.go` | advisory lock of the conversation on a dedicated session; `runs.status`; tool results in `messages` | acquire, watch, recover, finish, append (fenced) | one run executes at a time; an abandoned run is settled before new input; an ended run never changes |
| Executor and cancellation | `executor.go`, `cancellation.go` | goroutine and context per run; shutdown flag | launch, turns, stop, end, shutdown | every run ends; a stop is final and takes effect anywhere |
| Submission | `service.go`, `submissions.go` | `runs.submission_id` | send, look up a receipt | a submission makes at most one run, however often it is sent |
| Run inputs and queue | `run_inputs.go`, `run_input_queue.go`, `run_input_actions.go` | `run_inputs` (pending, queued, held, applied, started, cancelled; `accepted_order`; `resumed_at`) | accept, apply, hold, resume, cancel, claim | nothing accepted is lost or started silently; order of acceptance |
| Interactions, plan mode | `interactions.go` | `run_interactions`, `runs.execution_mode` | ask, wait, answer, supersede | withdrawn with its run; a plan approval concerns the plan shown |
| Permissions and review | `permissions.go`, `permission_modes.go`, `permission_reviews.go` | `run_permissions`, `runs.permission_mode/revision` | authorize, respond, change mode, review, consume | what executes was consented to under the present mode, once |
| Event stream and outbox | `internal/eventlog/events.go`, `streamEvents` in `conversation/http.go` | `run_events`, `run_event_outbox`, dispatch lock, subscriber cursors | append, flush, subscribe, replay, forward | order of ids is order of commits; at least once; a cursor leaves no holes behind it |
| User Computer | `conversation/service.go`, `internal/sandbox` | row of `sandboxes`, per-user lease, machines at Docker or ACS | ensure, suspend, monitor, show status | one Computer per user; recorded status becomes true; not suspended in use |
| Command tasks | `internal/commandtask/runner.go`, `conversation/command_tasks.go`, `agenttool/bash_managed.go` | files of a task, supervisor and command process, row of `command_tasks` | start, wait, inspect, stop, record | started once; a result that is shown is the command's |
| Automations and triggers | `internal/automation`, `conversation/triggered_tasks.go` | `automations`, `automation_deliveries`, session lock per delivery | save, webhook, trigger, poll, claim, start, look up | a delivery starts at most one task, and waits only for earlier ones that are active |
| File state, versioned writes, rollback | `internal/agenttool/file_state.go`, `internal/toolboxfs`, `conversation/file_changes.go`, `file_rollback.go` | what a run has seen; lock file of a path; recorded changes and restorations | read, write, edit, restore | no write over a version its author did not see; receipts are true |
| Personal assistant | `internal/personal` | thread, facts, turns, delegations | chat, recover, delegate, reconcile, remember, undo | a turn's record is true; a change of the owner is never overwritten |
| Accounts, sessions, token rotation | `internal/auth` | account, session families, cookies, links, flows | sign in, rotate, sign out, reset, link, hand off | revocation is final; tabs that renew together keep the session |
| App connections | `internal/connector/{store,oauth,protocol}.go` | grant, generation, refresh intent | connect, disconnect, callback, renew, read | a refresh token is used once; no grant comes back after its withdrawal |
| GitHub publishing | `internal/githubwork`, `connector/github_gateway.go` | checkout, proposal with its stage | check out, prepare, publish, reconcile | nothing is created twice; a receipt is right |
| Context projection, checkpoints | `internal/toolcontext`, `context_checkpoints.go` | derived history; checkpoint rows | project, prune, compact | calls and results stay paired; compare and set |
| Tools, model providers, artifacts, skills, projects, HTTP, clients | remaining packages, `src/frontend`, `src/ios`, `src/android` | CRUD and I/O | | outside the models, see 9 |

How they interact: `SendSubmission` and the queue dispatcher take the advisory
lock, repair what its last owner left, insert a run and hand the lock to an
executor. The executor calls the model, authorizes and runs tools (which may
start command tasks, ask the user, or use the computer) and records the end of
the run; its deferred exit wakes the queue. Users act on any replica through
rows: stop, adjust, queue, resume, answer. A watchdog per executor polls the
lock and the row every second; `MonitorRuns` (15 s) and `MonitorInputQueue`
(10 s) repair what was missed.

## 2. What is hard

* A transaction takes the conversation row lock first, so it is atomic; the
  paths *between* transactions are not. Recovery scans the active runs, then
  ends them one at a time by the status it scanned; an executor reads the status
  of its run and ends it afterwards; a handler holds the lock unwatched between
  acquiring it and launching the executor.
* An executor that lost its session works on beside its successor until the
  watchdog polls. Only the row fences its writes.
* Crash, shutdown, a cleanup that times out, a handler that gives up, at any step.
* Stops, adjustments, queued inputs and retries arrive on other replicas at any
  moment of the run.
* Consent is read, then used; modes change in between; an automatic reviewer
  answers late.
* External effects (provider, GitHub, automations, processes) cannot be rolled
  back with the transaction that records them.

`PROJECT.json`, "hazards", lists each at the line where it bites, with the
properties that cover it.

## 3. The modules

### RunLifecycle — the life of the runs of one conversation

| Variables | Code |
| --- | --- |
| `status`, `subm`, `answer`, `torn`, `asked` | `runs.status`, `runs.submission_id`; tool calls and results in `messages`; `torn` records that a user message was stored behind a call without result; `run_interactions.status='pending'` |
| `input`, `accepted` | `run_inputs` rows, `accepted_order` |
| `guard` | holder of the advisory lock: a replica's handler, a run's executor, or nobody |
| `handler`, `todo` | per replica, the goroutine that seeks the lock (a send, the queue dispatcher or the run monitor) and its scan of active runs |
| `exec` | per run, its executor: phase, replica, first cause of cancellation of its context |
| `stopping` | replicas whose main context is cancelled |

An action is one transaction, or one step of a goroutine between two. The phases
of a handler are `begin` (before `acquireRun`), `owned`, `recover`, `launch`;
those of an executor `setup`, `turn` (adjustments, projection of the history),
`model`, `tools`, `asking` and `returned` (a tool waiting for the user, and having
its answer), `finish`, then `failing` (status is about to be read), `to_failed` or
`to_cancelled` (the chosen transaction), `exit` (deferred `guard.Close`). Every
write of a working executor is fenced by `status = "running"` (`At`), as
`appendMessageReceipt`, `applyRunAdjustments`, `createRunInteraction` and
`finishCompletedRun` are; a result observed during a stop may still be appended while
`cancelling` (`ToolObserved`).

Abstractions, all deliberate:

* One owner-seeking goroutine per replica at a time. The lock admits only one
  anyway; what a second would do is what the other replica does.
* The order of calls within a batch is left open (`ToolDone` takes any open call);
  call ids do not repeat within a run.
* Digests of inputs and submissions: a repeated id with another digest is a
  conflict that changes nothing, so it is a step that does not exist.
* `ClaimHolds` stands for both reasons the claim may hold the head of the queue
  (`run_interrupted`, `authorization_changed`: an administrator may remove the
  actor at any time, so no guard limits it).
* Permissions, usage rows, streaming, titles, compaction and the computer are left
  out; a failure of any of them is `StepFails`.
* The short use of the lock by file rollback is a spurious `AcquireFails` and is not
  modelled as a holder.
* `ShutdownCancels` may happen at any time after `ShutdownBegin`; a process may
  also end (`Restart`) before its executors are drained.
* When `MaxRuns` runs exist no further run can be inserted; `SendRejected` and
  `ClaimHolds`, possible at any time, keep handlers from blocking at that bound.

### RunContract — what a conversation promises

Runs start in order, one running at a time; each ends at most once; one that was
asked to stop can only become cancelled; calls are issued by a running run, answered at
most once while it is active, and none is open when it has ended. `RunLifecycle`
implements it with the identity on `status` and `answer` (`ImplementsContract`),
although its guard, recovery, executors and faults are far from that simple.

### MCRunLifecycle, RunLifecycle_proofs, RunContract_proofs

The TLC instances; the TLAPS proofs of typing and ownership; those of the contract, the queue and the
transcript.

### RunAuthority — what the tools of one run may do

| Variables | Code |
| --- | --- |
| `status`, `mode`, `revision`, `execution`, `approvedPlan` | `runs.status` (folded to running or stopped: every other status is refused alike), `permission_mode`, `permission_revision`, `execution_mode`, `approved_plan_digest` |
| `row` | `run_permissions` by tool call: operation, status, decision, its source, who answered, revision, review token, whether a review was decided, whether it was consumed |
| `inter` | `run_interactions` by tool call |
| `ex` | the executor inside one tool call: where it is, the call, its operation, the review it claimed |
| `entered` | the calls with an `EXECUTION_MODE_CHANGED` event; `NoCall` if the submission chose plan mode |
| `decided`, `uses`, `lost`, `proposed` | history for the properties: revision of the last approval, how often a receipt was used, whether a cleanup was lost, the plans put to the user in the present planning that no adjustment superseded |

The executor's path through `AuthorizeTool` is one action per transaction or unlocked
read: `PlanCheck` (`authorizeRunTool`), `ReadMode`, `AskNothing` or
`AskPermission` (the transaction of `authorizePermission`), `Poll`, `Recheck`,
`ConsumePermission`, `ClaimPermissionReview`, `ReviewPermission` (the transaction after the
model was asked), and the deferred `Cleanup`, which may be lost. A call that is let
through (`start`) is `RunTool`, `EnterPlanMode` or `CreateRunInteraction` and
`WaitRunInteraction`. Members act between any two of these steps:
`ChangeRunPermissionMode`, `RespondPermission`, `RespondRunInteraction`, `AdjustRun`,
`StopRun`. `CompleteRun` leaves permission rows alone, as `finishCompletedRun` does.

Abstractions: an operation is its tool and whether its path is sensitive; two requests with
the same operation have the same digest, and the durable call always matches. A closed
row keeps only what is read again, its digest. `responded_by` is kept for individual
answers. A token is named by the revision it was drawn under, since a row is claimed at most
once per revision. "rejected" stands for "changes_requested" too. A client that read an old
revision, or answers again, gets a conflict or the stored answer: no step. Eleven tools
stand for twenty; each branch of `needsPermission` has one.

### ConsentLedger — what permissions promise

A request is asked, decided under an epoch of the rules, and spent at most once in that epoch
while the run is active; new rules void every unspent decision unless they decide it again;
a refusal is final. `RunAuthority` implements it with `LedgerRow` as refinement mapping.

### MCRunAuthority, RunAuthority_proofs

The TLC instances (`Consents` and `Reading` say which operations a call may ask for) and the
TLAPS proofs.

### EventStream — from a transaction to a client

| Variables | Code |
| --- | --- |
| `log`, `outbox`, `lastId`, `writing` | `run_events`, `run_event_outbox`, the sequence, the open transaction of each writer (it holds the event lock of the workspace) |
| `flushing`, `flush` | the session lock `lester:event-dispatch`; per API replica its batch, what of it is published, whether its session lives |
| `stream`, `feed`, `cursor`, `got` | the handler of a connection (subscribed, replaying, live; its Redis channel); what the client follows, its `Last-Event-ID`, what it received |

`Append` takes the lock, draws the id and writes both rows (`AppendEvent`); the rest of its
transaction is `EndAppend`. A flush is `FlushBegin`, one `PublishNext` per event and
`FlushCommit`, or it fails, or its session drops while it goes on publishing. A stream
subscribes, reads the history (`ReadHistory`, the newest `ReplayLimit`) and forwards what is
fresh. Payloads are left out. The writers' topics stand for `conversation_id`.

### UserComputer — one machine for one user

| Variables | Code |
| --- | --- |
| `machines`, `provider` | Docker containers (one fixed name) or ACS sandboxes (an id per creation), as the provider has them |
| `computerRow` | the row of `sandboxes` |
| `lease`, `ensuring` | the transaction-level advisory lock of the user; per replica, how far `ensureComputer` is and whether its transaction still lives |
| `suspending`, `inspection` | what `SuspendIdle` selected and `MonitorSandboxes` or the status page read, not yet acted on or written |
| `inFlight`, `unfenced` | creations whose request may still land after its caller gave up |

Every call to the provider is a step: it acts, fails, is lost before or after it acted, or
lands later (`LandCreate`). A transaction that dies forgets its row and keeps its effects.
`MachineChanges` is the provider's own doing (a host that fails, an operator).

### CommandTask — one command, its supervisor and its record

| Variables | Code |
| --- | --- |
| `launcher` | the bash tool: launch, call `Start`, record, wait, stop, final record |
| `starter`, `record`, `worker`, `shell`, `signalled` | the helper that executes `Start`; `request.json`/`state.json`; the supervisor (`RunWorker`) and the process of the command; its SIGTERM |
| `taskRow` | `command_tasks`: status and whether the handle names the supervisor |
| `observer` | per observer (reconciliation, task page, task tool), its handle and snapshot |

Calls are lost before or after they acted; a snapshot is recorded some time after it was
taken; the Computer may die. `Recordable` is the WHERE clause that protects results. `shell` is the
one process of the command: the tree below it, which `stopDescendants` hunts down, is left out,
and its verdict is a choice (`Outcome`): the cleanup is confirmed, or the result is unknown.

### Automations — deliveries and their starts

| Variables | Code |
| --- | --- |
| `auto`, `preview`, `member`, `autoClock` | the row of `automations`, a proposed schedule, membership of the creator, time |
| `deliveries` | `automation_deliveries` in acceptance order |
| `sched` | per replica, the delivery at hand, where `dispatch` is, whether its session lock lives |
| `triggered` | the run of the submission a delivery owns (`running`, ended with command tasks active or unknown, `ended`) |

The claim (`Claim`) commits before `CallStartTask`; the call, its effect
(`StartTriggeredTask`) and its receipt are steps of their own, between which a replica dies
or loses its lock. `starts` and `doubted` are history. `Active` is what `busy` asks of an accepted
delivery. Nothing makes it end (`TaskAdvances` may happen and is not fair): the run may wait for
an answer, a command may have no timeout, a row of `command_tasks` may stay `unknown`, and a new
message may start commands in the conversation again.

### ClaimedWork — what a row promises whose effect happens elsewhere

An automation's task and a delegated task begin in a transaction other than that of the row that
asks for them. `ClaimedWork` says what survives this: work is claimed once, its effect happens
only while it is claimed or in doubt, doubt is resolved by the effect alone, what was dropped never
happens, a report that was given is true and stays. `Automations` implements it with
`DeliveryReport` over `triggered` (`DispatchedOnce`), `PersonalAssistant` with `DelegationReport` over
`submitted` (`DelegatedOnce`): "not recorded yet" is open work, since a cancelled, skipped or
interrupted row drops it for good. `GitHubWork` does not implement it: a late publisher
may overwrite a receipt with its older one (7, last observation).

### WorkspaceFile — who may replace a file

| Variables | Code |
| --- | --- |
| `target`, `pathLock`, `helper` | the file; the lock file of its path; helper processes between version check and rename |
| `observed` | `FileState` of the run: the version and the lines seen under it |
| `change`, `rolling`, `fileGuard` | a followed row of `file_changes`, its `file_rollbacks`, the conversation's advisory lock |

A file has two lines, so that a page can show half of it. Absent, odd (a link, a directory,
binary data) and unconditional are versions of their own. A shell command takes no lock:
that is why a helper remembers `moved`.

### PersonalAssistant — turns, one fact, one delegated task

`chat` is the handler of a turn (reading the context, thinking, its second transaction,
then claim, acceptance and record of the delegation), under a session lock of the member that
may drop; `turn`, `delegation` and `submitted` are its rows; `memory` is one fact with what
undoing brings back; `thread.rev` is the barrier the second transaction compares. A page that
polls (`PollTurn`) recovers abandoned turns and reconciles delegations.

### Sessions — an account, its families and a browser

`families` are rows with their rotating tokens, numbered; `jar` is the browser's cookies and
`tab` the request of each tab, which carries the cookies it was sent with; answers come back in any
order or never. `account` holds what authority depends on; `epoch` counts what revokes
everything, and `by` in a family is the authority it was made with. Requests that check a
password or ask a provider read, wait, and commit under the row lock of the account. Only the
configuration with mail is run (`Mailer = TRUE`): without it registration signs in at once,
like a login.

### AppConnections — a grant that is redeemed once

`connection` is the row with its generation, flow and refresh intent; `redeemable` and
`granted` are the provider's side; `callback` and `reader` the goroutines. `ReadyToken`
commits the intent before `ExchangeRefresh`; the answer may be lost, the lock too. The provider
rotates: every renewal brings a new refresh token and ends the old one. For a provider that sends
none, the code keeps the old token (`store.go:240`) and presents it again, which is right there and
not modelled.

### GitHubWork — publishing without transactions

`checkout` and `proposal` are rows, `publisher` the calls of `github_publish` with the copy of
the proposal each holds, `hub` the branch and pull request at GitHub, `onTheWay` the writes
whose sender may have given up. `SaveStage` stores the intent before `SendWrite`; whoever
comes later only looks (`FindCommit`, `FindPull`). `OthersWork` changes the branch from outside.

### MCExecution, MCAccess

The models above meet only through a run, whose side of each is already part of them (an
ensured Computer in use, a task run, a submission). They share no variable, so each composite
chooses one part in its initial state and state spaces add instead of multiplying:
`MCExecution` events, Computer, command task and automation, `MCAccess` file, assistant,
sessions, app connection and GitHub.

### EventStream_proofs, Computer_proofs, Execution_proofs, Account_proofs, Access_proofs

The proofs about these models, one part after the other. `Execution_proofs` and
`Access_proofs` extend the composites and end with what carries over to them.

## 4. The checks

Deadlock is not checked: runs, ids and faults are finite, and a conversation in which
everything has been said may rest. All properties are defined and explained in the
modules.

| Run | Instance | Shows |
| --- | --- | --- |
| `stops_and_queue` | 1 replica, 3 runs, 2 messages, 2 inputs, stops of the first two runs | `TranscriptSettled` (older runs are settled before a new one and no message is torn from an open call), `QueueHonest` (nothing held starts silently, order of acceptance), across a chain of three runs |
| `owners_and_faults` | 2 replicas (symmetric), 2 runs, 2 messages, 1 input, one fault of any kind but `handoff`, no stops | `AtMostOneRunning`, `OwnedBatches` (the inductive `Ownership`; a run is inserted behind settled batches and completes with none of its calls open), `ImplementsContract` |
| `faults_and_stops` | 2 replicas, 2 runs, one id used for a message and for an input, stops, one fault of any kind including `handoff` | `TypeOK`, `EndedRunsSettled`, `OneRunPerSubmission`, `EndedRunsFrozen`, `StopIsFinal` |
| `liveness` | 1 replica, 2 runs, 1 message, 1 input, stops, any two faults but `handoff` | `StopTakesEffect`, `RunsEnd`, `QueueMoves` |
| `consent` | 2 calls (command, write, edit, publish, enter plan mode, plan, schedule), ids may repeat, 2 members, 1 change of the mode, fairness | `TypeOK`, `ReceiptsAreCurrent`, `SingleUse`, `ReviewsAreCurrent`, `PlanIsReadOnly`, `OwnersOnly`, `PlanApproved`, `ImplementsLedger`, `WaitsOnlyForUser` |
| `execution` | 2 replicas, dispatchers, schedulers and observers; 3 events, 2 machines, 2 deliveries, one fault per part | `ExecTypeOK`, `NoHoles`, `OutboxDrains`, `OneComputer`, `StatusConverges`, `FinishedIsTrue`, `TaskConverges`, `DispatchedOnce` (`StartsOnce`, and deliveries implement `ClaimedWork`), `DeliveriesLeave` |
| `access` | 2 helpers, turns, tabs, readers and publishers; 2 writes, 2 families, 4 grants; one or two faults per part | `AccessTypeOK`, `NoLostUpdate`, `ReceiptsTrue`, `DelegatedOnce` (`TurnsTrue`, and delegations implement `ClaimedWork`), `CurrentMemory`, `RevocationWins`, `TabsKeepSession`, `GrantsTrue`, `PublishedOnce` |
| `recovery_races_stop`, `handoff_session_loss`, `reused_input_id`, `reading_asks`, `suspension_in_use` | | counterexamples, see 7 |

Why the bounds are enough to be interesting. Two replicas suffice for every race of a
lock, since only its holder and one competitor matter; two runs are a predecessor and
its successor, and three are needed for a queue that is held, resumed and
continued behind a run it was not queued for. One call per run is a batch that is open
or not; a batch of two would distinguish partial batches, which `SettleCalls` treats call by
call. One fault in every interleaving covers a fault at each step of every protocol; a
second one during the repair is covered in `liveness`, in parts of `access`, and by the proofs.

The parts of the composites were also checked one by one, as specifications of their own
under the same constants, to see that each action fires (TLC reports the choice of a part as
one action): about 27,000 states in EventStream, 104,000 in UserComputer, 332,000 in
CommandTask, 142,000 in Automations, 146,000 in WorkspaceFile, 141,000 in
PersonalAssistant, 276,000 in Sessions, 243,000 in AppConnections, 359,000 in GitHubWork.
Three events with a replay and a batch of two overflow both limits; two machines are the
first and one created by mistake; two deliveries a predecessor and its successor; two
writes and a restoration the race of a late helper with both; two rotations and two families a
token in grace, a replayed one and a sign-in beside it; four grants two connections with a
renewal each; two generations of a GitHub grant and two runs a publication that outlives the
consent it began with.

`liveness` has one replica: a second process competes for the guard just as the other
goroutines of the first do, and a crash releases it the same way. It has one message, because
with two, a stop and a crash, the first finding of section 7 makes the run that was
stopped wait behind another run's question.

`TranscriptSettled` is checked with stops only on one replica without faults: stops and
faults together violate it (7, first finding). The same holds for `AtMostOneRunning` and
`handoff` (second finding).

A call id that comes back is what stresses receipts: the row of its first use is still
there. Two calls are one that holds a run-wide consent and one that may use it; one change of
the mode makes a receipt stale. A change and its reversal, under which a stale receipt might
pass for a fresh one, is beyond this run and covered by the theorems of section 6, which
remove the bounds for every property of the run but `WaitsOnlyForUser`.

`PlanApproved` speaks of the plan that ended plan mode, not of any: it was put to the user since
the run last went from execution into plan mode, and no adjustment met it unanswered. Its mutant
leaves plans open when the task is adjusted. `DeliveriesLeave` is what fairness of the schedulers
alone can give: a delivery leaves the queue unless one earlier delivery's task, or a command in
its conversation, stays active for ever (`docs/usage.md:106` has it wait then). It rules out that a
delivery waits for ever behind a claim that was lost, a receipt nobody knows, a cancelled or
rejected predecessor, or one that waits itself.

Each property has a mutant in `PROJECT.json`: a plausible bug in a mapped definition
(`Abandoned_OnlyRunning`, `At_Unfenced`, `HeldBy_PendingOnly`, ...) under which TLC finds the
property violated in the same run.

## 5. Fairness

`FairSpec` adds, and the code justifies:

* weak fairness of the steps of an executor and of its watchdog: goroutines, with a
  timeout on every model request, tool and query; a refused or cancelled step fails
  (`StepFails(r) /\ Refused(r)`);
* weak fairness of a waiting tool once its question has been answered or
  withdrawn. Nobody has to answer a question: liveness properties except that case;
* weak fairness of the steps of a handler, and of restarting a process that stops;
* strong fairness of `AcquireRun`, `MonitorBegin` and `DispatchBegin`: `MonitorRuns` and
  `MonitorInputQueue` try again every 15 s and 10 s for ever, and a lock that is
  free again and again is found free at some attempt.

`FairSpec` of `RunAuthority`: weak fairness of the executor (`Authorize \/ UseTool`: it polls four
times a second and the review has a timeout of 25 s) and of its failing once the run has
stopped (its context is cancelled). `WaitsOnlyForUser` excepts a lost cleanup: it leaves a row
under review by nobody, and a later call under the same id polls it until a user changes the
mode, adjusts or stops the run.

`FairExecSpec` of `MCExecution` is the fairness of loops, each of which runs on a ticker for
as long as its process lives: some dispatcher begins a flush and a dispatcher goes on with
its batch (`EventFair`); a monitor inspects and writes what it saw (`ComputerFair`); an
observer that reconciles reads, inspects and records (`TaskFair`; a task page or a stop is a
user's and not fair); a scheduler goes on with the delivery at hand (`AutoFair`), takes each
one up in the end, although its lock is taken from time to time (strong fairness of
`Dispatch`). A started task and its commands need not end. Calls come back because every client
has a timeout.

No fairness of users, tasks, commands, faults, providers, or of a model stopping after a
particular number of turns (calls are finite here, and a run with no calls left finishes).

## 6. The proofs

`RunLifecycle_proofs` is checked by `tlapm` without gaps, for every number of
replicas, runs, calls, ids and faults:

* `TypeCorrect`: `Spec => []TypeOK`.
* `OneRunningRun`: `"handoff" \notin FaultKinds` implies `Spec => []AtMostOneRunning`.

`AtMostOneRunning` is not inductive: an insert preserves it only if no run is running, and
that is what recovery established some steps earlier. `Ownership` says so: a handler past
`acquireRun` is the guard's holder and the other way round, and every running run is accounted for
by the guard — it is free, or is held by the run itself, or by a handler that has yet to
scan (`owned`), has the run in its scan *as running* (`recover`), or has just inserted it
(`launch`). `RecoverOne` removes a run from the scan only together with its ending, so when
the scan is empty none is left. A session lost by a handler (`handoff`) is
exactly what breaks the equivalence of holder and guard, hence the assumption
`NoHandoffLoss`. TLC checks `Ownership` as a part of `OwnedBatches` in `owners_and_faults`, on
the same specification.

`RunContract_proofs` builds on it, for every number of the same:

* `FrozenPast` and `FinalStop` rest on `StepEffect`: every step is, for at most one run, an
  action of `RunContract`, except that `Begins` and `Completes` leave two conditions open: that no
  other run is running, and that no call of the run is open.
* `OneRunEach`: `Identities` relates the rows of runs and inputs, which share the ids.
* `SettledEnds`: `Spec => []EndedRunsSettled`, also with lost handler sessions. `BatchInv` gives the
  second open condition: an executor reaches "finish" only with its batch answered. Alone,
  `Batches` is not inductive: a launch must find the run as it was inserted, so no two handlers and
  executors may have it (`LaunchOnce`). `AllWithdrawn` says the same of adjustments and questions.
* `SettledOwners` and `KeepsContract`: under `NoHandoffLoss`, `Ownership` gives the first
  open condition (`RecoveredNoneRunning`), and `Spec => ImplementsContract` follows step by step.
* `HonestQueue`: under `NoHandoffLoss`, `Spec => []QueueHonest`, by `QueueInv`. That nothing starts
  silently is not inductive: what keeps a queued input from starting behind a failure is that every
  end but success holds the *whole* queue, so an input that waits unasked has an unbroken chain of
  successes behind it (`ChainIntact`); it needs that only the newest run is running
  (`NewestRuns`, from `Ownership`), and that a started input has its run (`StartedHasRun`), so that
  no message under its id starts another.
* `SettledTranscript`: `NoHandoffLoss /\ Spec /\ NoStopInRecovery => []TranscriptSettled`, by
  `TranscriptInv`. `NoStopInRecovery` is an action property of the behaviour: no stop is accepted
  while a handler recovers. The code does not exclude it, and without it the statement is false: the
  run `recovery_races_stop` is the counterexample (7, first finding). The theorem says that it is
  the only one, besides `handoff`: neither crashes, lost cleanups, restarts nor stops at
  any other moment can put a message behind an unsettled run. `StopSeen` is the heart of it: a run
  that is being cancelled is in the scan of whoever recovers as what it is.

`RunAuthority_proofs` covers every number of calls, requests, members and mode changes:

* `TypeCorrect`, `CurrentReceipts`, `CurrentReviews`, `OneUse`: by the invariant `Consent`, which
  says of each row (`RowOK`) that what can still be used or decided is of the present
  revision, that a used row stays approved, and that an individual consent to
  publish is the submitter's. `ReceiptsAreCurrent` alone is not inductive: an answer
  approves a row without touching its revision, so rows that *wait* must be current too.
* `ApprovedPlans`, `ReadOnlyPlans`, `OwnersConfirm`: by the invariant `Plans`. A call that got past
  `authorizeRunTool` in plan mode is one that only reads, because only the executor itself
  enters plan mode, and between two calls. That the approved plan is of the present planning
  needs two more facts: a plan that waits was put to the user in it, and it is the *only*
  interaction that waits, so plan mode cannot end and begin again around it.
* `KeepsLedger`: `Spec => ImplementsLedger`, row by row under the same invariants.

`EventStream_proofs`, for every number of writers, dispatchers, streams, events and faults:

* `EventTypes`, and `NothingMissing`: `EventSpec => []NoHoles`, by `EventInv`. A cursor may pass an id
  only if all smaller ones of the feed are had or are queued before it, so the order of the *queue*
  must be stated (`QueueTrue`): an id that was published is had or queued at every live client, and
  each message of a queue stands behind those before it. That is so because a batch
  of a dispatcher contains every intent smaller than any of its own (`BatchTrue`), also
  when two dispatchers hold overlapping batches after a crash, and because ids
  follow the order of commits (`IdsInOrder`: the only open transaction has the last id).

`Computer_proofs` (user Computer and command tasks), for every number of replicas, monitors, machines,
observers, stoppers and faults:

* `ComputerTypes`, and `OneComputerHeld`: `ComputerSpec => OneComputer`, by `ComputerInv`. The number of
  machines is bounded only together with what may still land: `CountTrue` keeps one machine in
  reserve for whoever is about to create under the lease, who must have seen that none was left
  (`HolderTrue`), and charges a creation that lost its caller to `unfenced`. `RowTrue` says that the
  row names the machine of the files unless that machine is lost, whichever transaction forgot it.
* `TaskTypes`, and `TrueFinish`: `TaskSpec => []FinishedIsTrue`, by `TaskInv`. The row may be
  written from any snapshot still under way, so truth of the row is not inductive:
  *every* snapshot somebody holds must be honest (`SnapsHonest`), and honest must mean something
  no later step undoes (`SettledAs`: the supervisor has left its result and is gone, and the command
  ended that way). `WorkerInv` says why a result stays: nobody starts a second
  supervisor, because the helper is past its spawn whenever one exists.

`Execution_proofs` (Automations, and what surrounds a run together), for every number of schedulers,
event keys, deliveries and faults:

* `AutoTypes`, and `OneStart`: `AutoSpec => []StartsOnce`, by `AutoInv`. A claimed delivery is
  at hand of exactly one scheduler that has yet to start it (`AtHand`, `OneClaimer`), also
  when its lock is lost, because the next holder of the lock finds it claimed and only looks it up;
  deliveries are claimed in order, behind predecessors that are over or in doubt (`SerialTasks`,
  with `DeliveriesInOrder`: ids are given without gaps).
* `DispatchesOnce`: `AutoSpec => DispatchedOnce`. Under `AutoInv` every step is a step of `ClaimedWork` or a
  stutter (`ClaimStep`), delivery by delivery (`DeliveryMoves`, `CancelDrops`). That a task starts only
  while its delivery is claimed or in doubt is `Taken`, which a scheduler that has lost its lock still
  knows of the delivery it has at hand.
* `ExecParts`: `ExecSpec` implies the specification of each part, so the theorems about
  the parts are theorems about the specification TLC checks in `execution`; `ExecTypes` joins their types.

`Account_proofs` (sessions and app connections), for every number of tabs, families, rotations,
revocations, readers, grants, flows and faults:

* `SessionTypes`, and `FinalRevocation`: `SessionSpec => []RevocationWins`, by `SessionInv`. That a
  live family is of the present epoch needs to know that a login which checked its password still
  holds the row (`holding` carries the present `epoch`); that a logout ends what its cookies name needs
  `access` to be at most one ahead of `last`, so that every token is an access token or a refresh
  token; and a new family is one no request or cookie names yet (`0..made`).
* `SessionKept`: `SessionSpec => []TabsKeepSession`, by `AccountInv`, which adds `TokensTrue`. The
  browser holds an old token only while exactly *one* answer under way brings the current one, until
  which nobody renews with that one, and no cookie and no request has a token too old for its
  grace: facts about requests, cookies and the row, which two tabs that renew at once keep
  together (`KeptFamily`).
* `AppTypes`, and `TrueGrants`: `AppSpec => []GrantsTrue`, by `AppInv`. Whoever is going to send or
  store a token holds one nobody has presented (`HeldFresh`) and nobody else holds (`HeldOnce`); the
  generations of connection, flow and callback are ordered around the last withdrawal
  (`Generations`). Types need the counters too (`AppBounds`).

`Access_proofs` (files, personal assistant, GitHub, and all that is reached through the API together), for every
number of helpers, turns, writes, restorations, publishing calls, grants, runs and faults:

* `FileTypes`, `TrueReceipts`: `FileSpec => []ReceiptsTrue`, and `UpdatesKept`: `FileSpec => NoLostUpdate`, by
  `FileInv`. Between the check of a version and the rename the file stays as it was
  because a helper that has checked holds the lock of the path (`HelperTrue`), unless a command moved
  it; that a write replaces only what its author has seen in full is a fact about what the run
  remembers (`ObservedTrue`). Receipts count: `RestoresPaid` adds to the restorations made those
  that are still to come, from helpers on their way and from requests that lost the guard
  after they had read, and bounds the sum by one per guard ever lost.
* `PersonalTypes`, `TrueTurns`: `PersonalSpec => []TurnsTrue`, and `FactsCurrent`:
  `PersonalSpec => CurrentMemory`, by `PersonalInv`. `RecordTrue` relates the record of a turn to where its
  handler is, whose lock may be gone (`alive`); `ContextTrue` says that the fact is what the handler has
  read *while* the revision of the thread stays, which makes the comparison in the second
  transaction enough.
* `DelegatesOnce`: `PersonalSpec => DelegatedOnce`, step by step from `PersonalInv` (`DelegationMoves`). A
  task is submitted only under a delegation that was claimed (`RecordTrue`), a claimed one is dropped
  only if its submission was refused, and a doubt ends only with the receipt of the task, whether the
  handler or a page finds it.
* `HubTypes`, and `OncePublished`: `HubSpec => []PublishedOnce`, by `HubInv`. Counting writes is not
  inductive: what a call may *still* send (`Ahead`) must be neither on its way nor written, only one
  call is ever the author (`OneAuthor`), although the lock may be lost, since the claim leaves
  `prepared` for good; and every receipt at hand is honest however old it is (`RowTrue`), because it
  may overwrite the stored one.
* `AccessParts` and `AccessTypes`, as above for `access`.

Assumptions. Each module states what its constants must satisfy (`RunConstants`, `FileConstants`,
...), and TLC evaluates these on every run. Besides positive bounds they say that the
value that stands for "no holder" is not a holder (`"none"` and `"run"` among helpers and
restorations, `"nobody"` among replicas). `NoHandoffLoss` and
`NoStopInRecovery` are hypotheses of the theorems that need them, never of the
specification, and each has a run that shows why.

The invariants were model-checked on the instances of the runs, `QueueInv` and
`TranscriptInv` on larger ones with all faults they allow.

Only model-checked: liveness (`StopTakesEffect`, `RunsEnd`, `QueueMoves`, `WaitsOnlyForUser`, `OutboxDrains`,
`StatusConverges`, `TaskConverges`, `DeliveriesLeave`), since fairness and `ENABLED` are beyond
the prover. Every safety property of a passing run is a theorem.

## 7. Disagreements between code and documentation

1. `recovery_races_stop`: `recoverInterruptedRuns` ends runs by the status it *scanned*. A
   stop accepted between scan and transaction makes `finishFailedRun` return
   without effect (`transcript.go:310`), and the new message is accepted behind a run
   that is still cancelling with open calls. `ARCHITECTURE.md:32` promises the records
   "before accepting new input". The transcript is then torn.
2. `handoff_session_loss`: between `acquireRun` and `launch` nobody watches the session of the
   lock and the accepting transaction does not check it, so its loss lets two runs be
   running (`docs/architecture.md:187`: "One run executes per conversation").
3. `reused_input_id`: a message sent under the id of a held input takes the pair
   (conversation, submission id); the claim of that input then violates the unique
   index on every attempt, and the queue never moves (`docs/usage.md:145`). The
   bundled clients draw fresh ids.
4. `reading_asks`: `needsPermission` lists the free tools and names `tool_result`, which no tool
   is called; `read_tool_result` falls to the default case and waits for consent in
   standard and auto mode, although `PlanReadOnlyTool` knows it as one that only reads and
   `docs/usage.md:151` says that default permissions ask "before file changes and commands".

5. `suspension_in_use`: `SuspendIdle` selects idle Computers and suspends them afterwards, without
   the lease and without asking again (`service.go:752`). A run accepted in between finds the
   Computer running, goes on to use it, and loses it. `docs/deployment.md:132`: "active or
   unconfirmed work prevents idle suspension".

Observations without a run of their own:

* When a query fails between an approval and its consumption, the row stays approved (the cleanup
  withdraws unanswered rows only), and a later change of the mode makes it pending again: a card
  nobody waits for, until the run is adjusted or ends.
* For an `unhealthy` Computer `ensureComputer` posts to `/v1/sandboxes/{id}/destroy`, but
  `sandbox/service.go:44` routes that operation as DELETE only. In the model, as in the code, such a
  Computer is not replaced, although `docs/architecture.md:140` says that the API reconciles the
  provider's actual state before use.
* An automation whose delivery is `unknown` does not count as busy (`automation/scheduler.go:75`),
  so its next task may run beside the one nobody knows of; `docs/usage.md:106` has occurrences
  skipped while an earlier task remains. `StartsOnce` excepts exactly these (`doubted`).
* A publisher that lost its lock session may overwrite the receipt of a finished reconciliation with
  its older one ("completed" back to "pushed"), and a process that dies in `Checkout` leaves its row
  `preparing` for ever. Both leave what was created at GitHub as it is.

## 8. The plan

Done, in this order: `RunLifecycle` and `RunContract`; `RunAuthority` and `ConsentLedger`;
`EventStream`, `UserComputer`, `CommandTask`, `Automations` with `MCExecution`; `WorkspaceFile`,
`PersonalAssistant`, `Sessions`, `AppConnections`, `GitHubWork` with `MCAccess`; a theorem for every
safety property of the passing runs, and for what the composites inherit; `ClaimedWork`,
implemented by deliveries and delegations.

Left, the most valuable first:

1. Context: pairing and pruning of `toolcontext` as operators against a reference definition, and the
   compare-and-set of checkpoints.
2. `GitHubWork` against a weaker form of `ClaimedWork` in which a receipt may go back to an older one
   that is also true.

## 9. What is not modelled, and why

Model providers, blob clients, HTTP plumbing, telemetry, speech and mail are I/O: seen from
the models, a call answers, fails or is lost. Agents, skills, projects, references, the
context library, artifacts and workspace administration are CRUD in single transactions.
Cron arithmetic, prompt texts, formatting and migrations other than unique indexes
carry no concurrent state. The projection of tool history and the generation of context
checkpoints are pure functions over whole transcripts, with tests of their own; a failure of
either is `StepFails`. Of `internal/auth`, the limit of attempts, profiles and the closing of
long connections when their session ends (`guardLongRequest`) are left out. The web, iOS and
Android clients are user interfaces; the receipts they rely on are modelled on the server
side. What the prover cannot do stays with TLC: liveness, `ENABLED`, induction over data, and
recursive operators.
