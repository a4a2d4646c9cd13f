---------------------------- MODULE Automations ----------------------------
(***************************************************************************)
(* One automation, the deliveries its schedule, its webhook and its owner  *)
(* put in the queue, and the schedulers of the API replicas that turn each *)
(* delivery into at most one task.                                         *)
(*                                                                         *)
(* A scheduler claims a delivery under a session lock, commits the claim,  *)
(* and only then calls StartTriggeredTask, whose receipt it records.  When *)
(* it cannot know the result it only looks the receipt up.                 *)
(*                                                                         *)
(* Source: backend/internal/automation/*.go,                               *)
(* backend/internal/conversation/triggered_tasks.go.                       *)
(***************************************************************************)
EXTENDS Integers, FiniteSets

CONSTANTS
    Schedulers,     \* API replicas
    EventKeys,      \* ids of webhook events and of manual triggers
    PendingLimit,   \* 20 in the code: pending events of an automation
    MaxDeliveries,  \* bound: rows of automation_deliveries
    MaxAutoTime,    \* bound: the clock
    MaxAutoOps,     \* bound: saves, deletions, rotations and proposals
    MaxAutoFaults   \* bound: failed calls, lost sessions and replicas, revoked members

ASSUME AutoConstants ==
    /\ {PendingLimit, MaxDeliveries, MaxAutoTime} \subseteq Nat \ {0}
    /\ {MaxAutoOps, MaxAutoFaults} \subseteq Nat
    /\ EventKeys \cap Nat = {}

VARIABLES
    auto,           \* the row of automations
    deliveries,     \* its deliveries in acceptance order
    triggered,      \* per delivery, the run of the submission it owns
    sched,          \* per scheduler, the delivery at hand and where dispatch is
    preview,        \* a schedule the user is asked to confirm
    member,         \* its creator is an enabled, verified member of the workspace
    autoClock,
    starts,         \* history: calls of Start, per delivery
    doubted,        \* history: deliveries whose receipt was once unknown
    autoOps, autoFaults

autoVars == <<auto, deliveries, triggered, sched, preview, member, autoClock, starts, doubted,
              autoOps, autoFaults>>

DeliveryIds == 1..MaxDeliveries
NoDelivery  == [state |-> "none", source |-> "none", key |-> 0]
NoPreview   == [rev |-> -1, enabled |-> FALSE, cron |-> FALSE, next |-> 0]
AtRest      == [at |-> "idle", d |-> 0, locked |-> FALSE]

Open == {"pending", "dispatching", "unknown"}
Closed_ == {"accepted", "failed", "cancelled", "skipped"}

AutoTypeOK ==
    /\ auto.kind \in {"schedule", "webhook"} /\ auto.next \in 0..MaxAutoTime + 1 /\ auto.rev \in Nat
    /\ \A d \in DeliveryIds :
           /\ deliveries[d].state \in Open \cup Closed_ \cup {"none"}
           /\ deliveries[d].source \in {"none", "schedule", "webhook", "manual"}
           /\ triggered[d] \in {"none", "running", "commands", "ended"}
    /\ \A r \in Schedulers :
           /\ sched[r].at \in {"idle", "claimed", "starting", "lookup", "found", "missing"}
           /\ sched[r].d \in DeliveryIds \cup {0}

AutoInit ==
    /\ \E kind \in {"schedule", "webhook"} :
           auto = [kind |-> kind, enabled |-> TRUE, deleted |-> FALSE, cron |-> TRUE, rev |-> 1,
                   next |-> IF kind = "schedule" THEN 1 ELSE 0]
    /\ deliveries = [d \in DeliveryIds |-> NoDelivery]
    /\ triggered = [d \in DeliveryIds |-> "none"]
    /\ sched = [r \in Schedulers |-> AtRest]
    /\ preview = NoPreview
    /\ member = TRUE
    /\ autoClock = 1
    /\ starts = [d \in DeliveryIds |-> 0] /\ doubted = {}
    /\ autoOps = 0 /\ autoFaults = 0

AutoFault == autoFaults < MaxAutoFaults /\ autoFaults' = autoFaults + 1
AutoOp == autoOps < MaxAutoOps /\ autoOps' = autoOps + 1

-----------------------------------------------------------------------------
\* The definition.

Is(d, state) == deliveries[d].state = state
Pending == {d \in DeliveryIds : Is(d, "pending")}
Recorded == {d \in DeliveryIds : ~Is(d, "none")}
Cancelled(ds) == [d \in DeliveryIds |-> IF d \in ds THEN [deliveries[d] EXCEPT !.state = "cancelled"]
                                                  ELSE deliveries[d]]

\* A cron expression gives an instant after now, a one-off date must still be ahead.
NextOccurrence(enabled, cron, runAt) ==
    IF auto.kind = "webhook" \/ ~enabled THEN {0}
    ELSE IF cron THEN {autoClock + 1} ELSE {t \in {runAt} : t > autoClock}

\* The row is replaced if its revision is the one shown; pausing cancels what waits.
SaveRow(rev, enabled, cron, next) ==
    /\ member /\ ~auto.deleted /\ auto.rev = rev
    /\ auto' = [auto EXCEPT !.enabled = enabled, !.cron = cron, !.next = next, !.rev = @ + 1]
    /\ deliveries' = IF enabled THEN deliveries ELSE Cancelled(Pending)

SaveAutomation ==
    /\ AutoOp
    /\ \E enabled, cron \in BOOLEAN, runAt \in 1..MaxAutoTime :
          \E next \in NextOccurrence(enabled, cron, runAt) : SaveRow(auto.rev, enabled, cron, next)
    /\ UNCHANGED <<triggered, sched, preview, member, autoClock, starts, doubted, autoFaults>>

DeleteAutomation ==
    /\ AutoOp
    /\ ~auto.deleted
    /\ auto' = [auto EXCEPT !.deleted = TRUE, !.enabled = FALSE, !.next = 0, !.rev = @ + 1]
    /\ deliveries' = Cancelled(Pending)
    /\ UNCHANGED <<triggered, sched, preview, member, autoClock, starts, doubted, autoFaults>>

\* A new secret: the revision moves, the deliveries stay.
RotateSecret ==
    /\ AutoOp
    /\ auto.kind = "webhook" /\ ~auto.deleted
    /\ auto' = [auto EXCEPT !.rev = @ + 1]
    /\ UNCHANGED <<deliveries, triggered, sched, preview, member, autoClock, starts, doubted, autoFaults>>

\* A run proposes a change of the schedule, the user sees its next occurrence.
PrepareSchedule ==
    /\ AutoOp
    /\ preview = NoPreview /\ auto.kind = "schedule" /\ ~auto.deleted
    /\ \E enabled, cron \in BOOLEAN, runAt \in 1..MaxAutoTime :
          \E next \in NextOccurrence(enabled, cron, runAt) :
              preview' = [rev |-> auto.rev, enabled |-> enabled, cron |-> cron, next |-> next]
    /\ UNCHANGED <<auto, deliveries, triggered, sched, member, autoClock, starts, doubted, autoFaults>>

\* The user confirms: the same occurrence and revision, or a conflict.
ApplySchedule ==
    /\ preview # NoPreview /\ preview' = NoPreview
    /\ preview.next \in NextOccurrence(preview.enabled, preview.cron, preview.next)
    /\ SaveRow(preview.rev, preview.enabled, preview.cron, preview.next)
    /\ UNCHANGED <<triggered, sched, member, autoClock, starts, doubted, autoOps, autoFaults>>

-----------------------------------------------------------------------------
\* Acceptance.

InsertDelivery(source, key, state) ==
    \E d \in DeliveryIds :
        /\ d = Cardinality(Recorded) + 1
        /\ deliveries' = [deliveries EXCEPT ![d] = [state |-> state, source |-> source, key |-> key]]

\* A key that is known returns its receipt; the queue has a limit.
AcceptDelivery(source, key) ==
    /\ \A d \in Recorded : deliveries[d].key # key
    /\ Cardinality(Pending) < PendingLimit
    /\ InsertDelivery(source, key, "pending")

Webhook(key) ==
    /\ auto.kind = "webhook" /\ ~auto.deleted /\ auto.enabled /\ member
    /\ AcceptDelivery("webhook", key)
    /\ UNCHANGED <<auto, triggered, sched, preview, member, autoClock, starts, doubted, autoOps, autoFaults>>

\* Also when it is paused.
Trigger(key) ==
    /\ ~auto.deleted
    /\ AcceptDelivery("manual", key)
    /\ UNCHANGED <<auto, triggered, sched, preview, member, autoClock, starts, doubted, autoOps, autoFaults>>

\* The run of a delivery has not ended, or a command of its conversation is active or unknown.
Active(d) == Is(d, "accepted") /\ triggered[d] \in {"running", "commands"}

\* Mutant of Busy: an unknown receipt keeps the automation busy.
Busy_Unknown == \E d \in DeliveryIds : Is(d, "dispatching") \/ Is(d, "unknown") \/ Active(d)
\* A delivery is being dispatched, or what it started is active.
Busy == \E d \in DeliveryIds : Is(d, "dispatching") \/ Active(d)

\* The occurrence that is due becomes a delivery and the next one is set, in one transaction.
EnqueueDue ==
    /\ auto.kind = "schedule" /\ auto.enabled /\ ~auto.deleted
    /\ auto.next \in 1..autoClock
    /\ InsertDelivery("schedule", auto.next, IF Busy \/ Pending # {} THEN "skipped" ELSE "pending")
    /\ auto' = [auto EXCEPT !.next = IF auto.cron THEN autoClock + 1 ELSE 0, !.rev = @ + 1]
    /\ UNCHANGED <<triggered, sched, preview, member, autoClock, starts, doubted, autoOps, autoFaults>>

-----------------------------------------------------------------------------
\* dispatch, by the scheduler of a replica.

DeliveryLockFree(d) == \A r \in Schedulers : ~(sched[r].locked /\ sched[r].d = d)

Claimable_Again(d) == Is(d, "pending") \/ Is(d, "unknown") \* mutant: what is in doubt is claimed again
Claimable(d) == Is(d, "pending")

\* What was claimed before is only looked up.
BeginLookup(r, d) ==
    /\ deliveries[d].state \in Open /\ ~Claimable(d)
    /\ sched' = [sched EXCEPT ![r] = [at |-> "lookup", d |-> d, locked |-> TRUE]]
    /\ UNCHANGED deliveries

\* Paused since; started by its owner it runs all the same.
CancelPending(r, d) ==
    /\ Claimable(d)
    /\ auto.deleted \/ (~auto.enabled /\ deliveries[d].source # "manual")
    /\ deliveries' = Cancelled({d})
    /\ UNCHANGED sched

Ready(d) ==
    /\ Claimable(d)
    /\ ~auto.deleted /\ (auto.enabled \/ deliveries[d].source = "manual")
    /\ ~Busy

RejectPending(r, d) ==
    /\ Ready(d) /\ ~member
    /\ deliveries' = [deliveries EXCEPT ![d].state = "failed"]
    /\ UNCHANGED sched

Claim(r, d) ==
    /\ Ready(d) /\ member
    /\ \A e \in Pending : d <= e
    /\ deliveries' = [deliveries EXCEPT ![d].state = "dispatching"]
    /\ sched' = [sched EXCEPT ![r] = [at |-> "claimed", d |-> d, locked |-> TRUE]]

Dispatch(r, d) ==
    /\ sched[r] = AtRest /\ DeliveryLockFree(d)
    /\ BeginLookup(r, d) \/ CancelPending(r, d) \/ RejectPending(r, d) \/ Claim(r, d)
    /\ UNCHANGED <<auto, triggered, preview, member, autoClock, starts, doubted, autoOps, autoFaults>>

\* The session is pinged before the call; without it the claim is left to be looked up.
CallStartTask(r) ==
    /\ sched[r].at = "claimed"
    /\ sched' = [sched EXCEPT ![r] = IF @.locked THEN [@ EXCEPT !.at = "starting"] ELSE AtRest]
    /\ starts' = [starts EXCEPT ![sched[r].d] = IF sched[r].locked THEN @ + 1 ELSE @]
    /\ UNCHANGED <<auto, deliveries, triggered, preview, member, autoClock, doubted, autoOps, autoFaults>>

\* The task is accepted once for its submission id, for a member; the answer may be lost.
StartTriggeredTask(r) ==
    /\ sched[r].at = "starting" /\ member
    /\ triggered' = [triggered EXCEPT ![sched[r].d] = IF @ = "none" THEN "running" ELSE @]
    /\ \/ sched' = [sched EXCEPT ![r].at = "found"] /\ UNCHANGED autoFaults
       \/ AutoFault /\ sched' = [sched EXCEPT ![r].at = "lookup"]
    /\ UNCHANGED <<auto, deliveries, preview, member, autoClock, starts, doubted, autoOps>>

StartTaskFails(r) ==
    /\ sched[r].at = "starting"
    /\ IF member THEN AutoFault ELSE UNCHANGED autoFaults
    /\ sched' = [sched EXCEPT ![r].at = "lookup"]
    /\ UNCHANGED <<auto, deliveries, triggered, preview, member, autoClock, starts, doubted, autoOps>>

LookUpReceipt(r) ==
    /\ sched[r].at = "lookup"
    /\ sched' = [sched EXCEPT ![r].at = IF triggered[sched[r].d] = "none" THEN "missing" ELSE "found"]
    /\ UNCHANGED <<auto, deliveries, triggered, preview, member, autoClock, starts, doubted, autoOps, autoFaults>>

\* Conditional updates: a late answer changes nothing that is settled.
AcceptReceipt(r) ==
    LET d == sched[r].d
    IN  /\ sched[r].at = "found"
        /\ deliveries' = [deliveries EXCEPT ![d].state = IF @ \in {"dispatching", "unknown"}
                                                         THEN "accepted" ELSE @]
        /\ sched' = [sched EXCEPT ![r] = AtRest]
        /\ UNCHANGED <<auto, triggered, preview, member, autoClock, starts, doubted, autoOps, autoFaults>>
MarkUnknown(r) ==
    LET d == sched[r].d
    IN  /\ sched[r].at = "missing"
        /\ deliveries' = [deliveries EXCEPT ![d].state = IF @ = "dispatching" THEN "unknown" ELSE @]
        /\ doubted' = IF Is(d, "dispatching") THEN doubted \cup {d} ELSE doubted
        /\ sched' = [sched EXCEPT ![r] = AtRest]
        /\ UNCHANGED <<auto, triggered, preview, member, autoClock, starts, autoOps, autoFaults>>

\* A statement fails or the replica is lost: the row stays as it is, the lock goes.
DispatchFails(r) ==
    /\ AutoFault
    /\ sched[r] # AtRest /\ sched' = [sched EXCEPT ![r] = AtRest]
    /\ UNCHANGED <<auto, deliveries, triggered, preview, member, autoClock, starts, doubted, autoOps>>
LoseDeliveryLock(r) ==
    /\ AutoFault
    /\ sched[r].locked /\ sched' = [sched EXCEPT ![r].locked = FALSE]
    /\ UNCHANGED <<auto, deliveries, triggered, preview, member, autoClock, starts, doubted, autoOps>>

-----------------------------------------------------------------------------
\* The run ends, then the commands it left; its user goes on in the conversation, and new commands
\* start there.  Nothing makes a task end: it may wait for its user, or a command run, for ever.
TaskAdvances(d) ==
    /\ triggered[d] # "none"
    /\ triggered' = [triggered EXCEPT ![d] = IF @ = "commands" THEN "ended" ELSE "commands"]
    /\ UNCHANGED <<auto, deliveries, sched, preview, member, autoClock, starts, doubted, autoOps, autoFaults>>
RevokeMember ==
    /\ AutoFault
    /\ member /\ member' = FALSE
    /\ UNCHANGED <<auto, deliveries, triggered, sched, preview, autoClock, starts, doubted, autoOps>>
AutoTick ==
    /\ autoClock < MaxAutoTime /\ autoClock' = autoClock + 1
    /\ UNCHANGED <<auto, deliveries, triggered, sched, preview, member, starts, doubted, autoOps, autoFaults>>

SchedulerStep(r) ==
    \/ CallStartTask(r) \/ StartTriggeredTask(r) \/ StartTaskFails(r) \/ LookUpReceipt(r)
    \/ AcceptReceipt(r) \/ MarkUnknown(r)

AutoNext ==
    \/ SaveAutomation \/ DeleteAutomation \/ RotateSecret \/ PrepareSchedule \/ ApplySchedule
    \/ EnqueueDue \/ RevokeMember \/ AutoTick
    \/ \E k \in EventKeys : Webhook(k) \/ Trigger(k)
    \/ \E r \in Schedulers : SchedulerStep(r) \/ DispatchFails(r) \/ LoseDeliveryLock(r)
    \/ \E r \in Schedulers, d \in DeliveryIds : Dispatch(r, d)
    \/ \E d \in DeliveryIds : TaskAdvances(d)

AutoSpec == AutoInit /\ [][AutoNext]_autoVars

-----------------------------------------------------------------------------
(* A delivery starts at most one task, and only while it is claimed: replicas that lose their   *)
(* lock or die in a start never make another call it again, what was cancelled, skipped or      *)
(* rejected has no task, and an accepted one has.  Two tasks of an automation are active        *)
(* together only when the receipt of one had been unknown.                                      *)
StartsOnce ==
    /\ \A d \in DeliveryIds :
           /\ starts[d] <= 1
           /\ deliveries[d].state \in {"cancelled", "skipped", "failed", "pending"} => starts[d] = 0
           /\ Is(d, "accepted") => triggered[d] # "none"
    /\ \A d, e \in DeliveryIds :
           (d < e /\ triggered[d] = "running" /\ triggered[e] = "running") => d \in doubted

\* A delivery as work that is claimed: what its state reports, and whether its task was accepted.
DeliveryReport(state) ==
    CASE state \in {"none", "pending"} -> "open"
      [] state = "dispatching" -> "claimed"
      [] state = "unknown" -> "doubt"
      [] state = "accepted" -> "made"
      [] OTHER -> "dropped"
DeliveryReports == [d \in DeliveryIds |-> DeliveryReport(deliveries[d].state)]
TasksAccepted == {d \in DeliveryIds : triggered[d] # "none"}

DeliveryClaims == INSTANCE ClaimedWork
    WITH Work <- DeliveryIds, report <- DeliveryReports, done <- TasksAccepted

(* Started at most once, and as claimed work: a delivery that was withdrawn or reported has no  *)
(* task later, one in doubt is resolved by the task alone, and no late answer, lookup or lost   *)
(* lock changes what was reported.                                                              *)
DispatchedOnce == []StartsOnce /\ DeliveryClaims!Spec

(* A delivery waits only for tasks that were started before it: none waits for ever behind a    *)
(* start nobody knows the result of, a lost lock, a dead replica, a paused schedule or another  *)
(* delivery that waits, unless an earlier task, or a command in its conversation, stays active. *)
DeliveriesLeave ==
    \A d \in DeliveryIds : []<>~Is(d, "pending") \/ <>[](\E e \in 1..(d - 1) : Active(e))
=============================================================================
