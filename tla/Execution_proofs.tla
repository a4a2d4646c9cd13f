--------------------------- MODULE Execution_proofs ---------------------------
(*****************************************************************************)
(* Proofs about Automations, for any number of schedulers, deliveries,       *)
(* operations and faults; and that all that surrounds a run - the event      *)
(* stream, the Computer, command tasks and automations - keeps its types     *)
(* together.                                                                 *)
(*****************************************************************************)
EXTENDS MCExecution, EventStream_proofs, Computer_proofs

-----------------------------------------------------------------------------
(*****************************************************************************)
(* Automations: a delivery starts at most one task.                          *)
(*****************************************************************************)

DeliveryState == Open \cup Closed_ \cup {"none"}
DeliveryRow ==
    [state : DeliveryState, source : {"none", "schedule", "webhook", "manual"}, key : EventKeys \cup Nat]
SchedRow ==
    [at : {"idle", "claimed", "starting", "lookup", "found", "missing"},
     d : DeliveryIds \cup {0}, locked : BOOLEAN]
AutoRow ==
    [kind : {"schedule", "webhook"}, enabled : BOOLEAN, deleted : BOOLEAN, cron : BOOLEAN,
     rev : Nat, next : 0..MaxAutoTime + 1]
PreviewRow == [rev : Int, enabled : BOOLEAN, cron : BOOLEAN, next : 0..MaxAutoTime + 1]

\* The tables with their domains: what AutoTypeOK leaves to the initial state.
AutoTables ==
    /\ auto \in AutoRow
    /\ deliveries \in [DeliveryIds -> DeliveryRow]
    /\ triggered \in [DeliveryIds -> {"none", "running", "commands", "ended"}]
    /\ sched \in [Schedulers -> SchedRow]
    /\ preview \in PreviewRow
    /\ member \in BOOLEAN
    /\ autoClock \in 1..MaxAutoTime
    /\ starts \in [DeliveryIds -> Nat]
    /\ doubted \subseteq DeliveryIds

\* A delivery that was claimed: it never waits again.
Taken(d) == deliveries[d].state \in {"dispatching", "unknown", "accepted"}
Dropped(d) == deliveries[d].state \in {"cancelled", "skipped", "failed"}

\* Deliveries are numbered in the order of their acceptance.
DeliveriesInOrder == \E n \in 0..MaxDeliveries : Recorded = 1..n

\* What a scheduler has at hand was claimed, and only its claimer has yet to start it.
AtHand ==
    \A r \in Schedulers :
        sched[r].at # "idle" =>
            /\ sched[r].d \in DeliveryIds /\ Taken(sched[r].d)
            /\ sched[r].at = "claimed" => starts[sched[r].d] = 0
            /\ sched[r].at = "found" => triggered[sched[r].d] # "none"
OneClaimer ==
    \A r, s \in Schedulers :
        (sched[r].at = "claimed" /\ sched[s].at = "claimed" /\ sched[r].d = sched[s].d) => r = s

\* Only what was claimed is started or has a task; an accepted delivery has one.
OnlyTaken ==
    \A d \in DeliveryIds :
        /\ starts[d] <= 1
        /\ starts[d] > 0 \/ triggered[d] # "none" => Taken(d)
        /\ Is(d, "accepted") => triggered[d] # "none"
        /\ Is(d, "unknown") => d \in doubted

\* A delivery is claimed when its predecessors are over, or nobody knows.
SerialTasks ==
    \A d, e \in DeliveryIds :
        (d < e /\ Taken(e)) =>
            d \in doubted \/ Dropped(d) \/ (Is(d, "accepted") /\ triggered[d] # "running")

AutoInv == AutoTables /\ DeliveriesInOrder /\ AtHand /\ OneClaimer /\ OnlyTaken /\ SerialTasks

-----------------------------------------------------------------------------
LEMMA AutoLimits ==
    /\ MaxDeliveries \in Nat /\ MaxAutoTime \in Nat /\ 0 < MaxAutoTime
    /\ DeliveryIds \subseteq Nat /\ 0 \notin DeliveryIds
BY AutoConstants DEF AutoConstants, DeliveryIds

\* A new definition is a row, under the next revision.
LEMMA RowType ==
    ASSUME NEW row \in AutoRow, NEW enabled \in BOOLEAN, NEW deleted \in BOOLEAN, NEW cron \in BOOLEAN,
           NEW next \in 0..MaxAutoTime + 1
    PROVE  /\ row.rev + 1 \in Nat
           /\ \A rev \in Nat : [row EXCEPT !.enabled = enabled, !.cron = cron, !.next = next,
                                          !.rev = rev] \in AutoRow
           /\ \A rev \in Nat : [row EXCEPT !.deleted = deleted, !.enabled = enabled, !.next = next,
                                          !.rev = rev] \in AutoRow
           /\ \A rev \in Nat : [row EXCEPT !.next = next, !.rev = rev] \in AutoRow
           /\ \A rev \in Nat : [row EXCEPT !.rev = rev] \in AutoRow
<1>1. row.rev + 1 \in Nat BY DEF AutoRow
<1> QED BY <1>1, Zenon DEF AutoRow

LEMMA SaveType ==
    ASSUME AutoTables, NEW rev, NEW enabled \in BOOLEAN, NEW cron \in BOOLEAN,
           NEW next \in 0..MaxAutoTime + 1, SaveRow(rev, enabled, cron, next)
    PROVE  /\ auto' \in AutoRow
           /\ deliveries' = deliveries \/ deliveries' = Cancelled(Pending)
<1>1. auto' \in AutoRow
  <2>1. auto' = [auto EXCEPT !.enabled = enabled, !.cron = cron, !.next = next, !.rev = @ + 1]
    BY DEF SaveRow
  <2> QED BY <2>1, RowType DEF AutoTables
<1>2. deliveries' = deliveries \/ deliveries' = Cancelled(Pending) BY DEF SaveRow
<1> QED BY <1>1, <1>2

LEMMA CancelType ==
    ASSUME AutoTables, NEW ds PROVE Cancelled(ds) \in [DeliveryIds -> DeliveryRow]
BY DEF AutoTables, Cancelled, DeliveryRow, DeliveryState, Closed_

LEMMA NextType ==
    ASSUME AutoTables, NEW enabled, NEW cron, NEW runAt \in 0..MaxAutoTime + 1,
           NEW next \in NextOccurrence(enabled, cron, runAt)
    PROVE  next \in 0..MaxAutoTime + 1
BY AutoLimits DEF NextOccurrence, AutoTables

\* Cancelling what waits touches nothing that was claimed.
LEMMA CancelKeeps ==
    ASSUME AutoInv, deliveries' = Cancelled(Pending) \/ deliveries' = deliveries,
           auto' \in AutoRow, preview' \in PreviewRow,
           UNCHANGED <<triggered, sched, member, autoClock, starts, doubted>>
    PROVE  AutoInv'
<1> USE DEF AutoInv
<1>1. AutoTables' BY CancelType DEF AutoTables
<1>2. \A d \in DeliveryIds : /\ Taken(d)' <=> Taken(d)
                             /\ Dropped(d) => Dropped(d)'
                             /\ Is(d, "accepted")' <=> Is(d, "accepted")
                             /\ Is(d, "unknown")' <=> Is(d, "unknown")
                             /\ Is(d, "none")' <=> Is(d, "none")
  BY DEF Cancelled, Pending, Taken, Dropped, Is, AutoTables, DeliveryRow
<1>3. DeliveriesInOrder' BY <1>2 DEF DeliveriesInOrder, Recorded
<1>4. AtHand' BY <1>2 DEF AtHand
<1>5. OneClaimer' BY DEF OneClaimer
<1>6. OnlyTaken' BY <1>2 DEF OnlyTaken
<1>7. SerialTasks' BY <1>2 DEF SerialTasks
<1> QED BY <1>1, <1>3, <1>4, <1>5, <1>6, <1>7

\* A new delivery comes last, and nobody has it at hand.
LEMMA InsertKeeps ==
    ASSUME AutoInv, NEW source \in {"schedule", "webhook", "manual"}, NEW key \in EventKeys \cup Nat,
           NEW state \in {"pending", "skipped"}, InsertDelivery(source, key, state),
           auto' \in AutoRow,
           UNCHANGED <<triggered, sched, preview, member, autoClock, starts, doubted>>
    PROVE  AutoInv'
<1> USE DEF AutoInv
<1>1. PICK n \in 0..MaxDeliveries : Recorded = 1..n BY DEF DeliveriesInOrder
<1>2. Cardinality(Recorded) = n BY <1>1, FS_Interval, AutoLimits
<1>3. /\ n + 1 \in DeliveryIds
      /\ deliveries' = [deliveries EXCEPT ![n + 1] = [state |-> state, source |-> source, key |-> key]]
  BY <1>2 DEF InsertDelivery
<1>4. Is(n + 1, "none") BY <1>1, <1>3, AutoLimits DEF Recorded
<1>5. AutoTables' BY <1>3 DEF AutoTables, DeliveryRow, DeliveryState, Open, Closed_
<1>6. \A d \in DeliveryIds : /\ Taken(d)' <=> Taken(d)
                             /\ Dropped(d) => Dropped(d)'
                             /\ Is(d, "accepted")' <=> Is(d, "accepted")
                             /\ Is(d, "unknown")' <=> Is(d, "unknown")
                             /\ Is(d, "none")' <=> Is(d, "none") /\ d # n + 1
  BY <1>3, <1>4 DEF Taken, Dropped, Is, AutoTables, DeliveryRow
<1>7. DeliveriesInOrder'
  <2>1. Recorded' = Recorded \cup {n + 1} BY <1>3, <1>6 DEF Recorded
  <2>2. Recorded' = 1..(n + 1) /\ n + 1 \in 0..MaxDeliveries
    BY <2>1, <1>1, <1>3, AutoLimits DEF DeliveryIds
  <2> QED BY <2>2 DEF DeliveriesInOrder
<1>8. AtHand' BY <1>6 DEF AtHand
<1>9. OneClaimer' BY DEF OneClaimer
<1>10. OnlyTaken' BY <1>6 DEF OnlyTaken
<1>11. SerialTasks' BY <1>6 DEF SerialTasks
<1> QED BY <1>5, <1>7, <1>8, <1>9, <1>10, <1>11

\* A step of a scheduler that leaves every delivery, task and count alone.
LEMMA SchedKeeps ==
    ASSUME AutoInv, NEW r \in Schedulers, NEW row \in SchedRow,
           sched' = [sched EXCEPT ![r] = row],
           row.at # "idle" => /\ row.d \in DeliveryIds /\ Taken(row.d)
                              /\ row.at # "claimed" \/ (sched[r].at = "claimed" /\ row.d = sched[r].d)
                              /\ row.at = "found" => triggered[row.d] # "none",
           UNCHANGED <<auto, deliveries, triggered, preview, member, autoClock, starts, doubted>>
    PROVE  AutoInv'
<1> USE DEF AutoInv
<1>1. AutoTables' BY DEF AutoTables
<1>2. DeliveriesInOrder' BY DEF DeliveriesInOrder, Recorded, Is
<1>3. AtHand' BY DEF AtHand, AutoTables, Taken
<1>4. OneClaimer' BY DEF OneClaimer, AutoTables
<1>5. OnlyTaken' BY DEF OnlyTaken, Taken, Is
<1>6. SerialTasks' BY DEF SerialTasks, Taken, Dropped, Is
<1> QED BY <1>1, <1>2, <1>3, <1>4, <1>5, <1>6

-----------------------------------------------------------------------------
LEMMA AutoInitially == AutoInit => AutoInv
<1> SUFFICES ASSUME AutoInit PROVE AutoInv OBVIOUS
<1> USE DEF AutoInit
<1>1. AutoTables
  BY AutoLimits DEF AutoTables, AutoRow, DeliveryRow, DeliveryState, SchedRow, PreviewRow, NoDelivery,
     NoPreview, AtRest
<1>2. Recorded = {} BY DEF Recorded, Is, NoDelivery
<1>3. 0 \in 0..MaxDeliveries /\ 1..0 = {} BY AutoLimits
<1>4. DeliveriesInOrder BY <1>2, <1>3 DEF DeliveriesInOrder
<1>5. AtHand /\ OneClaimer BY DEF AtHand, OneClaimer, AtRest
<1>6. OnlyTaken /\ SerialTasks BY DEF OnlyTaken, SerialTasks, Taken, Is, NoDelivery
<1> QED BY <1>1, <1>4, <1>5, <1>6 DEF AutoInv

\* dispatch, up to the claim.
LEMMA DeliveryKeeps ==
    ASSUME AutoInv, NEW r \in Schedulers, NEW d \in DeliveryIds, Dispatch(r, d) PROVE AutoInv'
<1> USE DEF AutoInv, Dispatch
<1>1. CASE BeginLookup(r, d)
  <2> DEFINE row == [at |-> "lookup", d |-> d, locked |-> TRUE]
  <2>1. row \in SchedRow BY DEF SchedRow
  <2>2. Taken(d) BY <1>1 DEF BeginLookup, Claimable, Taken, Open, Is
  <2> QED BY <1>1, <2>1, <2>2, SchedKeeps DEF BeginLookup
<1>2. ASSUME NEW state \in {"cancelled", "failed"}, Is(d, "pending"), UNCHANGED sched,
             deliveries' = [deliveries EXCEPT ![d].state = state]
      PROVE  AutoInv'
  <2>1. AutoTables' BY <1>2 DEF AutoTables, DeliveryRow, DeliveryState, Closed_
  <2>2. \A e \in DeliveryIds : /\ Taken(e)' <=> Taken(e)
                               /\ Dropped(e) => Dropped(e)'
                               /\ Is(e, "accepted")' <=> Is(e, "accepted")
                               /\ Is(e, "unknown")' <=> Is(e, "unknown")
                               /\ Is(e, "none")' <=> Is(e, "none")
    BY <1>2 DEF Taken, Dropped, Is, AutoTables, DeliveryRow
  <2>3. DeliveriesInOrder' BY <2>2 DEF DeliveriesInOrder, Recorded
  <2>4. AtHand' BY <1>2, <2>2 DEF AtHand
  <2>5. OneClaimer' BY <1>2 DEF OneClaimer
  <2>6. OnlyTaken' BY <2>2 DEF OnlyTaken
  <2>7. SerialTasks' BY <2>2 DEF SerialTasks
  <2> QED BY <2>1, <2>3, <2>4, <2>5, <2>6, <2>7
<1>3. CASE CancelPending(r, d)
  <2>1. deliveries' = [deliveries EXCEPT ![d].state = "cancelled"]
    BY <1>3 DEF CancelPending, Cancelled, AutoTables
  <2> QED BY <1>3, <1>2, <2>1 DEF CancelPending, Claimable
<1>4. CASE RejectPending(r, d) BY <1>4, <1>2 DEF RejectPending, Ready, Claimable
<1>5. CASE Claim(r, d)
  <2> USE <1>5 DEF Claim, Ready, Claimable
  <2>1. AutoTables' BY DEF AutoTables, DeliveryRow, DeliveryState, Open, SchedRow
  <2>2. \A e \in DeliveryIds : /\ Taken(e)' <=> (Taken(e) \/ e = d)
                               /\ Dropped(e) => Dropped(e)'
                               /\ Is(e, "accepted")' <=> Is(e, "accepted")
                               /\ Is(e, "unknown")' <=> Is(e, "unknown")
                               /\ Is(e, "none")' <=> Is(e, "none")
    BY DEF Taken, Dropped, Is, AutoTables, DeliveryRow
  <2>3. ~Taken(d) BY DEF Taken, Is
  <2>4. DeliveriesInOrder' BY <2>2 DEF DeliveriesInOrder, Recorded
  <2>5. starts[d] = 0 BY <2>3, AutoLimits DEF OnlyTaken, AutoTables
  <2>6. AtHand' BY <2>2, <2>5 DEF AtHand, AutoTables
  <2>7. OneClaimer' BY <2>3 DEF OneClaimer, AtHand, AutoTables
  <2>8. OnlyTaken' BY <2>2 DEF OnlyTaken
  <2>9. \A e \in DeliveryIds :
            e < d => e \in doubted \/ Dropped(e) \/ (Is(e, "accepted") /\ triggered[e] # "running")
    <3> SUFFICES ASSUME NEW e \in DeliveryIds, e < d
                 PROVE  e \in doubted \/ Dropped(e) \/ (Is(e, "accepted") /\ triggered[e] # "running")
      OBVIOUS
    <3>1. PICK n \in 0..MaxDeliveries : Recorded = 1..n BY DEF DeliveriesInOrder
    <3>2. d \in Recorded BY DEF Recorded, Is
    <3>3. ~Is(e, "none") BY <3>1, <3>2, AutoLimits DEF Recorded, DeliveryIds
    <3>4. ~Is(e, "pending") BY AutoLimits DEF Pending
    <3>5. ~Is(e, "dispatching") /\ (Is(e, "accepted") => triggered[e] \notin {"running", "commands"})
      BY DEF Busy, Active
    <3>6. deliveries[e].state \in DeliveryState /\ triggered[e] \in {"none", "running", "commands", "ended"}
      BY DEF AutoTables, DeliveryRow
    <3> QED BY <3>3, <3>4, <3>5, <3>6 DEF OnlyTaken, Dropped, Is, DeliveryState, Open, Closed_
  <2>10. SerialTasks' BY <2>2, <2>9 DEF SerialTasks
  <2> QED BY <2>1, <2>4, <2>6, <2>7, <2>8, <2>10
<1> QED BY <1>1, <1>3, <1>4, <1>5

\* The call and its receipt.
LEMMA SchedulerKeeps ==
    ASSUME AutoInv, NEW r \in Schedulers, SchedulerStep(r) \/ DispatchFails(r) \/ LoseDeliveryLock(r)
    PROVE  AutoInv'
<1> USE DEF AutoInv
<1> DEFINE d == sched[r].d
<1>0. sched[r] \in SchedRow /\ AtRest \in SchedRow /\ AtRest.at = "idle"
  BY DEF AutoTables, SchedRow, AtRest
<1>1. CASE CallStartTask(r)
  <2>1. CASE ~sched[r].locked
    <3>1. starts' = starts BY <1>1, <2>1 DEF CallStartTask, AutoTables
    <3>2. sched' = [sched EXCEPT ![r] = AtRest] BY <1>1, <2>1 DEF CallStartTask
    <3> QED BY <1>0, <1>1, <3>1, <3>2, SchedKeeps DEF CallStartTask
  <2>2. CASE sched[r].locked
    <3>1. d \in DeliveryIds /\ Taken(d) /\ starts[d] = 0 BY <1>1 DEF CallStartTask, AtHand
    <3>2. starts' = [starts EXCEPT ![d] = 1] BY <1>1, <2>2, <3>1 DEF CallStartTask, AutoTables
    <3>3. sched' = [sched EXCEPT ![r].at = "starting"] BY <1>1, <2>2 DEF CallStartTask
    <3>4. UNCHANGED <<auto, deliveries, triggered, preview, member, autoClock, doubted>>
      BY <1>1 DEF CallStartTask
    <3>5. AutoTables' BY <3>2, <3>3, <3>4 DEF AutoTables, SchedRow
    <3>6. DeliveriesInOrder' BY <3>4 DEF DeliveriesInOrder, Recorded, Is
    <3>7. \A s \in Schedulers : s # r /\ sched[s].at = "claimed" => sched[s].d # d
      BY <1>1 DEF OneClaimer, CallStartTask
    <3>8. AtHand'
      <4> SUFFICES ASSUME NEW s \in Schedulers, sched'[s].at # "idle"
                   PROVE  /\ sched'[s].d \in DeliveryIds /\ Taken(sched[s].d)
                          /\ sched'[s].d = sched[s].d
                          /\ sched'[s].at = "claimed" => starts'[sched[s].d] = 0
                          /\ sched'[s].at = "found" => triggered[sched[s].d] # "none"
        BY <3>4 DEF AtHand, Taken
      <4>1. CASE s = r BY <4>1, <3>1, <3>3 DEF AutoTables, SchedRow
      <4>2. CASE s # r
        <5>1. sched'[s] = sched[s] BY <4>2, <3>3 DEF AutoTables
        <5>2. sched[s].at = "claimed" => starts'[sched[s].d] = starts[sched[s].d]
          BY <4>2, <3>2, <3>7 DEF AutoTables, AtHand
        <5> QED BY <5>1, <5>2 DEF AtHand
      <4> QED BY <4>1, <4>2
    <3>9. OneClaimer' BY <3>3 DEF OneClaimer, AutoTables, SchedRow
    <3>10. OnlyTaken' BY <3>1, <3>2, <3>4 DEF OnlyTaken, Taken, Is, AutoTables
    <3>11. SerialTasks' BY <3>4 DEF SerialTasks, Taken, Dropped, Is
    <3> QED BY <3>5, <3>6, <3>8, <3>9, <3>10, <3>11
  <2> QED BY <2>1, <2>2
<1>2. CASE StartTriggeredTask(r)
  <2>1. d \in DeliveryIds /\ Taken(d) /\ sched[r].at = "starting" BY <1>2 DEF StartTriggeredTask, AtHand
  <2>2. triggered' = [triggered EXCEPT ![d] = IF @ = "none" THEN "running" ELSE @]
    BY <1>2 DEF StartTriggeredTask
  <2>3. PICK at \in {"found", "lookup"} : sched' = [sched EXCEPT ![r].at = at]
    BY <1>2 DEF StartTriggeredTask
  <2>4. UNCHANGED <<auto, deliveries, preview, member, autoClock, starts, doubted>>
    BY <1>2 DEF StartTriggeredTask
  <2>5. AutoTables' BY <2>2, <2>3, <2>4 DEF AutoTables, SchedRow
  <2>6. DeliveriesInOrder' BY <2>4 DEF DeliveriesInOrder, Recorded, Is
  <2>7. \A e \in DeliveryIds : /\ triggered[e] # "none" => triggered'[e] = triggered[e]
                               /\ triggered'[e] # "none" => triggered[e] # "none" \/ e = d
                               /\ triggered'[d] # "none"
    BY <2>1, <2>2 DEF AutoTables
  <2>8. AtHand' BY <2>1, <2>3, <2>4, <2>7 DEF AtHand, Taken, AutoTables, SchedRow
  <2>9. OneClaimer' BY <2>3 DEF OneClaimer, AutoTables, SchedRow
  <2>10. OnlyTaken' BY <2>1, <2>4, <2>7 DEF OnlyTaken, Taken, Is
  <2>11. SerialTasks' BY <2>4, <2>7 DEF SerialTasks, Taken, Dropped, Is, OnlyTaken
  <2> QED BY <2>5, <2>6, <2>8, <2>9, <2>10, <2>11
<1>3. ASSUME NEW at \in {"lookup", "missing", "found"}, sched[r].at # "idle",
             at = "found" => triggered[d] # "none",
             sched' = [sched EXCEPT ![r].at = at],
             UNCHANGED <<auto, deliveries, triggered, preview, member, autoClock, starts, doubted>>
      PROVE  AutoInv'
  <2> DEFINE row == [sched[r] EXCEPT !.at = at]
  <2>1. row \in SchedRow /\ row.at = at /\ row.d = d BY <1>0 DEF SchedRow
  <2>2. sched' = [sched EXCEPT ![r] = row] BY <1>3 DEF AutoTables
  <2>3. d \in DeliveryIds /\ Taken(d) BY <1>3 DEF AtHand
  <2> HIDE DEF row
  <2> QED BY <1>3, <2>1, <2>2, <2>3, SchedKeeps
<1>4. CASE StartTaskFails(r) BY <1>4, <1>3 DEF StartTaskFails
<1>5. CASE LookUpReceipt(r)
  <2> DEFINE at == IF triggered[d] = "none" THEN "missing" ELSE "found"
  <2>1. at \in {"missing", "found"} /\ (at = "found" => triggered[d] # "none") OBVIOUS
  <2> QED BY <1>5, <1>3, <2>1 DEF LookUpReceipt
<1>6. CASE DispatchFails(r) BY <1>0, <1>6, SchedKeeps DEF DispatchFails
<1>7. CASE LoseDeliveryLock(r)
  <2> DEFINE row == [sched[r] EXCEPT !.locked = FALSE]
  <2>1. row \in SchedRow /\ row.at = sched[r].at /\ row.d = d BY <1>0 DEF SchedRow
  <2>2. sched' = [sched EXCEPT ![r] = row] BY <1>7 DEF LoseDeliveryLock
  <2>3. row.at # "idle" => /\ row.d \in DeliveryIds /\ Taken(row.d)
                           /\ row.at # "claimed" \/ (sched[r].at = "claimed" /\ row.d = sched[r].d)
                           /\ row.at = "found" => triggered[row.d] # "none"
    BY <2>1 DEF AtHand
  <2> HIDE DEF row
  <2> QED BY <1>7, <2>1, <2>2, <2>3, SchedKeeps DEF LoseDeliveryLock
\* The conditional updates of the row.
<1>8. ASSUME NEW state \in {"accepted", "unknown"}, d \in DeliveryIds, Taken(d),
             \/ deliveries' = [deliveries EXCEPT ![d].state = state]
             \/ deliveries' = deliveries,
             state = "accepted" => triggered[d] # "none",
             state = "unknown" => deliveries[d].state # "dispatching" \/ d \in doubted',
             deliveries[d].state # "accepted" \/ deliveries' = deliveries,
             doubted \subseteq doubted', doubted' \subseteq DeliveryIds,
             deliveries' = deliveries \/ state = "accepted" \/ d \in doubted',
             sched' = [sched EXCEPT ![r] = AtRest],
             UNCHANGED <<auto, triggered, preview, member, autoClock, starts>>
      PROVE  AutoInv'
  <2>1. AutoTables' BY <1>0, <1>8 DEF AutoTables, DeliveryRow, DeliveryState, Open, Closed_
  <2>2. \A e \in DeliveryIds : /\ Taken(e)' <=> Taken(e)
                               /\ Dropped(e) => Dropped(e)'
                               /\ Is(e, "accepted") => Is(e, "accepted")'
                               /\ Is(e, "accepted")' => Is(e, "accepted") \/ triggered[e] # "none"
                               /\ Is(e, "unknown")' => Is(e, "unknown") \/ e \in doubted'
                               /\ Is(e, "none")' <=> Is(e, "none")
    BY <1>8 DEF Taken, Dropped, Is, AutoTables, DeliveryRow
  <2>3. DeliveriesInOrder' BY <2>2 DEF DeliveriesInOrder, Recorded
  <2>4. AtHand' BY <1>0, <1>8, <2>2 DEF AtHand, AutoTables
  <2>5. OneClaimer' BY <1>0, <1>8 DEF OneClaimer, AutoTables
  <2>6. OnlyTaken' BY <1>8, <2>2 DEF OnlyTaken
  <2>7. SerialTasks' BY <1>8, <2>2 DEF SerialTasks
  <2> QED BY <2>1, <2>3, <2>4, <2>5, <2>6, <2>7
<1>9. CASE AcceptReceipt(r)
  <2>1. d \in DeliveryIds /\ Taken(d) /\ triggered[d] # "none" BY <1>9 DEF AcceptReceipt, AtHand
  <2>2. CASE deliveries[d].state \in {"dispatching", "unknown"}
    <3>1. deliveries' = [deliveries EXCEPT ![d].state = "accepted"] BY <1>9, <2>2 DEF AcceptReceipt
    <3> QED BY <1>8, <1>9, <2>1, <2>2, <3>1 DEF AcceptReceipt, AutoTables
  <2>3. CASE deliveries[d].state \notin {"dispatching", "unknown"}
    <3>1. deliveries' = deliveries BY <1>9, <2>1, <2>3 DEF AcceptReceipt, AutoTables, DeliveryRow
    <3> QED BY <1>8, <1>9, <2>1, <3>1 DEF AcceptReceipt, AutoTables
  <2> QED BY <2>2, <2>3
<1>10. CASE MarkUnknown(r)
  <2>1. d \in DeliveryIds /\ Taken(d) BY <1>10 DEF MarkUnknown, AtHand
  <2>2. CASE deliveries[d].state = "dispatching"
    <3>1. deliveries' = [deliveries EXCEPT ![d].state = "unknown"] BY <1>10, <2>2 DEF MarkUnknown
    <3>2. doubted' = doubted \cup {d} BY <1>10, <2>2 DEF MarkUnknown, Is
    <3> QED BY <1>8, <1>10, <2>1, <2>2, <3>1, <3>2 DEF MarkUnknown, AutoTables
  <2>3. CASE deliveries[d].state # "dispatching"
    <3>1. deliveries' = deliveries BY <1>10, <2>1, <2>3 DEF MarkUnknown, AutoTables, DeliveryRow
    <3>2. doubted' = doubted BY <1>10, <2>3 DEF MarkUnknown, Is
    <3> QED BY <1>8, <1>10, <2>1, <2>3, <3>1, <3>2 DEF MarkUnknown, AutoTables
  <2> QED BY <2>2, <2>3
<1> QED BY <1>1, <1>2, <1>4, <1>5, <1>6, <1>7, <1>9, <1>10 DEF SchedulerStep

\* What owners, senders of events, tasks and the clock do.
LEMMA OthersKeep ==
    ASSUME AutoInv,
           \/ SaveAutomation \/ DeleteAutomation \/ RotateSecret \/ PrepareSchedule \/ ApplySchedule
           \/ EnqueueDue \/ RevokeMember \/ AutoTick
           \/ \E k \in EventKeys : Webhook(k) \/ Trigger(k)
           \/ \E d \in DeliveryIds : TaskAdvances(d)
    PROVE  AutoInv'
<1> USE DEF AutoInv
<1>0. auto \in AutoRow /\ preview \in PreviewRow BY DEF AutoTables
<1>1. CASE SaveAutomation
  <2>1. PICK enabled \in BOOLEAN, cron \in BOOLEAN, runAt \in 1..MaxAutoTime :
            \E next \in NextOccurrence(enabled, cron, runAt) : SaveRow(auto.rev, enabled, cron, next)
    BY <1>1 DEF SaveAutomation
  <2>2. PICK next \in NextOccurrence(enabled, cron, runAt) : SaveRow(auto.rev, enabled, cron, next)
    BY <2>1
  <2>3. runAt \in 0..MaxAutoTime + 1 BY AutoLimits
  <2>4. next \in 0..MaxAutoTime + 1 BY <2>3, NextType
  <2>5. auto' \in AutoRow /\ (deliveries' = deliveries \/ deliveries' = Cancelled(Pending))
    BY <2>2, <2>4, SaveType
  <2> QED BY <1>0, <1>1, <2>5, CancelKeeps DEF SaveAutomation
<1>2. CASE DeleteAutomation
  <2>0. 0 \in 0..MaxAutoTime + 1 /\ TRUE \in BOOLEAN /\ FALSE \in BOOLEAN BY AutoLimits
  <2>1. auto' \in AutoRow BY <1>0, <1>2, <2>0, RowType, Zenon DEF DeleteAutomation
  <2> QED BY <1>0, <1>2, <2>1, CancelKeeps DEF DeleteAutomation
<1>3. CASE RotateSecret
  <2>0. 0 \in 0..MaxAutoTime + 1 /\ TRUE \in BOOLEAN BY AutoLimits
  <2>1. auto' \in AutoRow BY <1>0, <1>3, <2>0, RowType, Zenon DEF RotateSecret
  <2> QED BY <1>0, <1>3, <2>1, CancelKeeps DEF RotateSecret
<1>4. CASE PrepareSchedule
  <2>1. PICK enabled \in BOOLEAN, cron \in BOOLEAN, runAt \in 1..MaxAutoTime :
            \E next \in NextOccurrence(enabled, cron, runAt) :
               preview' = [rev |-> auto.rev, enabled |-> enabled, cron |-> cron, next |-> next]
    BY <1>4 DEF PrepareSchedule
  <2>2. runAt \in 0..MaxAutoTime + 1 BY AutoLimits
  <2>3. \A next \in NextOccurrence(enabled, cron, runAt) : next \in 0..MaxAutoTime + 1
    BY <2>2, NextType
  <2>4. preview' \in PreviewRow BY <1>0, <2>1, <2>3 DEF PreviewRow, AutoRow
  <2> QED BY <1>0, <1>4, <2>4, CancelKeeps DEF PrepareSchedule
<1>5. CASE ApplySchedule
  <2>1. /\ preview.enabled \in BOOLEAN /\ preview.cron \in BOOLEAN
        /\ preview.next \in 0..MaxAutoTime + 1
    BY <1>0 DEF PreviewRow
  <2>2. auto' \in AutoRow /\ (deliveries' = deliveries \/ deliveries' = Cancelled(Pending))
    BY <1>5, <2>1, SaveType DEF ApplySchedule
  <2>3. preview' \in PreviewRow BY <1>5, AutoLimits DEF ApplySchedule, NoPreview, PreviewRow
  <2> QED BY <1>5, <2>2, <2>3, CancelKeeps DEF ApplySchedule
<1>6. CASE EnqueueDue
  <2>1. auto' \in AutoRow
    <3>1. (IF auto.cron THEN autoClock + 1 ELSE 0) \in 0..MaxAutoTime + 1 BY AutoLimits DEF AutoTables
    <3> QED BY <1>0, <1>6, <3>1, RowType DEF EnqueueDue
  <2>2. auto.next \in EventKeys \cup Nat BY <1>0 DEF AutoRow
  <2>3. PICK state \in {"pending", "skipped"} : InsertDelivery("schedule", auto.next, state)
    BY <1>6 DEF EnqueueDue
  <2> QED BY <1>6, <2>1, <2>2, <2>3, InsertKeeps DEF EnqueueDue
<1>7. CASE \E k \in EventKeys : Webhook(k) \/ Trigger(k)
  <2>1. PICK k \in EventKeys : Webhook(k) \/ Trigger(k) BY <1>7
  <2>2. PICK source \in {"webhook", "manual"} : InsertDelivery(source, k, "pending")
    BY <2>1 DEF Webhook, Trigger, AcceptDelivery
  <2>3. auto' \in AutoRow
        /\ UNCHANGED <<triggered, sched, preview, member, autoClock, starts, doubted>>
    BY <1>0, <2>1 DEF Webhook, Trigger
  <2> QED BY <2>2, <2>3, InsertKeeps
<1>8. CASE RevokeMember \/ AutoTick
  <2>1. UNCHANGED <<auto, deliveries, triggered, sched, preview, starts, doubted>>
    BY <1>8 DEF RevokeMember, AutoTick
  <2>2. member' \in BOOLEAN /\ autoClock' \in 1..MaxAutoTime
    <3>1. CASE RevokeMember BY <3>1 DEF RevokeMember, AutoTables
    <3>2. CASE AutoTick BY <3>2, AutoLimits DEF AutoTick, AutoTables
    <3> QED BY <1>8, <3>1, <3>2
  <2>3. AutoTables' BY <2>1, <2>2 DEF AutoTables
  <2>4. DeliveriesInOrder' /\ AtHand' /\ OneClaimer' /\ OnlyTaken' /\ SerialTasks'
    BY <2>1 DEF DeliveriesInOrder, AtHand, OneClaimer, OnlyTaken, SerialTasks, Recorded, Taken, Dropped, Is
  <2> QED BY <2>3, <2>4
<1>9. CASE \E d \in DeliveryIds : TaskAdvances(d)
  <2>1. PICK d \in DeliveryIds : TaskAdvances(d) BY <1>9
  <2>2. UNCHANGED <<auto, deliveries, sched, preview, member, autoClock, starts, doubted>>
    BY <2>1 DEF TaskAdvances
  <2>3. PICK t \in {"commands", "ended"} : triggered' = [triggered EXCEPT ![d] = t]
    BY <2>1 DEF TaskAdvances
  <2>4. triggered[d] # "none" BY <2>1 DEF TaskAdvances
  <2>5. AutoTables' BY <2>2, <2>3 DEF AutoTables
  <2>6. \A e \in DeliveryIds : /\ triggered'[e] # "none" <=> triggered[e] # "none"
                               /\ triggered'[e] = "running" => triggered[e] = "running"
    BY <2>3, <2>4 DEF AutoTables
  <2>7. DeliveriesInOrder' BY <2>2 DEF DeliveriesInOrder, Recorded, Is
  <2>8. AtHand' /\ OneClaimer' BY <2>2, <2>6 DEF AtHand, OneClaimer, Taken
  <2>9. OnlyTaken' BY <2>2, <2>6 DEF OnlyTaken, Taken, Is
  <2>10. SerialTasks' BY <2>2, <2>6 DEF SerialTasks, Taken, Dropped, Is
  <2> QED BY <2>5, <2>7, <2>8, <2>9, <2>10
<1> QED BY <1>1, <1>2, <1>3, <1>4, <1>5, <1>6, <1>7, <1>8, <1>9

LEMMA AutoInvStep == AutoInv /\ [AutoNext]_autoVars => AutoInv'
<1> SUFFICES ASSUME AutoInv, [AutoNext]_autoVars PROVE AutoInv' OBVIOUS
<1>1. CASE UNCHANGED autoVars
  BY <1>1 DEF autoVars, AutoInv, AutoTables, DeliveriesInOrder, AtHand, OneClaimer, OnlyTaken, SerialTasks, Recorded,
     Taken, Dropped, Is
<1>2. CASE AutoNext BY <1>2, OthersKeep, DeliveryKeeps, SchedulerKeeps DEF AutoNext
<1> QED BY <1>1, <1>2

LEMMA AutoInvariant == AutoSpec => []AutoInv
BY AutoInitially, AutoInvStep, PTL DEF AutoSpec

LEMMA InvStartsOnce == AutoInv => StartsOnce
<1> SUFFICES ASSUME AutoInv PROVE StartsOnce OBVIOUS
<1> USE DEF AutoInv
<1>1. ASSUME NEW d \in DeliveryIds
      PROVE  /\ starts[d] <= 1
             /\ deliveries[d].state \in {"cancelled", "skipped", "failed", "pending"} => starts[d] = 0
             /\ Is(d, "accepted") => triggered[d] # "none"
  <2>1. starts[d] \in Nat BY DEF AutoTables
  <2> QED BY <2>1 DEF OnlyTaken, Taken
<1>2. ASSUME NEW d \in DeliveryIds, NEW e \in DeliveryIds, d < e,
             triggered[d] = "running", triggered[e] = "running"
      PROVE  d \in doubted
  <2>1. Taken(d) /\ Taken(e) BY <1>2 DEF OnlyTaken
  <2>2. ~Dropped(d) BY <2>1 DEF Taken, Dropped
  <2> QED BY <1>2, <2>1, <2>2 DEF SerialTasks
<1> QED BY <1>1, <1>2 DEF StartsOnce

LEMMA AutoTyped == AutoInv => AutoTypeOK
BY DEF AutoInv, AutoTables, AutoTypeOK, AutoRow, DeliveryRow, DeliveryState, SchedRow

\* Rows, schedulers and tasks stay in their domains.
THEOREM AutoTypes == AutoSpec => []AutoTypeOK
BY AutoTyped, AutoInvariant, PTL

\* However many replicas dispatch, lose their locks and die, and whatever owners save, delete and
\* trigger meanwhile: a delivery starts at most one task, a dropped one none, and two tasks run
\* together only behind an unknown receipt.
THEOREM OneStart == AutoSpec => []StartsOnce
BY AutoInvariant, InvStartsOnce, PTL
-----------------------------------------------------------------------------
(* The deliveries are claimed work *)

Reported(d) == DeliveryReport(deliveries[d].state)
ClaimStep == DeliveryClaims!Next \/ UNCHANGED <<DeliveryReports, TasksAccepted>>

\* A step of one delivery whose task stays as it is.
LEMMA DeliveryMoves ==
    ASSUME AutoInv, NEW d \in DeliveryIds, NEW r, TasksAccepted' = TasksAccepted,
           DeliveryReports' = [DeliveryReports EXCEPT ![d] = r],
           \/ r = Reported(d)
           \/ Reported(d) = "open" /\ r = "claimed"
           \/ Reported(d) \in {"open", "claimed"} /\ r = "doubt"
           \/ Reported(d) \in {"claimed", "doubt"} /\ r = "made" /\ triggered[d] # "none"
           \/ Reported(d) = "open" /\ r = "dropped"
    PROVE  ClaimStep
<1>1. /\ DeliveryReports \in [DeliveryIds -> {DeliveryReports[e] : e \in DeliveryIds}]
      /\ DeliveryReports[d] = Reported(d)
  BY DEF DeliveryReports, Reported
<1>2. d \in TasksAccepted <=> triggered[d] # "none" BY DEF TasksAccepted
<1>3. CASE r = Reported(d) BY <1>1, <1>3 DEF ClaimStep
<1>4. CASE r = "claimed" /\ Reported(d) = "open"
  BY <1>1, <1>4 DEF DeliveryClaims!Claim, ClaimStep, DeliveryClaims!Next
<1>5. CASE r = "doubt" /\ Reported(d) \in {"open", "claimed"}
  BY <1>1, <1>5 DEF DeliveryClaims!Doubt, ClaimStep, DeliveryClaims!Next
<1>6. CASE r = "made" /\ Reported(d) \in {"claimed", "doubt"} /\ triggered[d] # "none"
  BY <1>1, <1>2, <1>6 DEF DeliveryClaims!Confirm, ClaimStep, DeliveryClaims!Next
<1>7. CASE r = "dropped" /\ Reported(d) = "open"
  <2>1. DeliveryReports' = [w \in DeliveryIds |-> IF w \in {d} THEN "dropped" ELSE DeliveryReports[w]]
    BY <1>1, <1>7
  <2>2. DeliveryClaims!Drop({d}) BY <1>1, <1>7, <2>1 DEF DeliveryClaims!Drop
  <2> QED BY <2>2 DEF ClaimStep, DeliveryClaims!Next
<1> QED BY <1>3, <1>4, <1>5, <1>6, <1>7

\* A row under a new state.
LEMMA StateMoves ==
    ASSUME AutoInv, NEW d \in DeliveryIds, NEW state,
           deliveries' = [deliveries EXCEPT ![d].state = state]
    PROVE  DeliveryReports' = [DeliveryReports EXCEPT ![d] = DeliveryReport(state)]
BY DEF DeliveryReports, AutoInv, AutoTables, DeliveryRow

\* Cancelling what waits drops it.
LEMMA CancelDrops ==
    ASSUME AutoInv, NEW S \in SUBSET Pending, deliveries' = Cancelled(S), triggered' = triggered
    PROVE  ClaimStep
<1>1. S \subseteq DeliveryIds /\ \A d \in S : DeliveryReports[d] = "open"
  BY DEF Pending, Is, DeliveryReports, DeliveryReport
<1>2. DeliveryReports' = [w \in DeliveryIds |-> IF w \in S THEN "dropped" ELSE DeliveryReports[w]]
  BY DEF Cancelled, DeliveryReports, DeliveryReport, AutoInv, AutoTables, DeliveryRow
<1>3. DeliveryClaims!Drop(S) BY <1>1, <1>2 DEF DeliveryClaims!Drop, TasksAccepted
<1> QED BY <1>1, <1>3 DEF ClaimStep, DeliveryClaims!Next

\* A new delivery waits, or is dropped at once.
LEMMA InsertDrops ==
    ASSUME AutoInv, NEW source, NEW key, NEW state \in {"pending", "skipped"},
           InsertDelivery(source, key, state), triggered' = triggered
    PROVE  ClaimStep
<1>1. PICK n \in 0..MaxDeliveries : Recorded = 1..n BY DEF AutoInv, DeliveriesInOrder
<1>2. Cardinality(Recorded) = n BY <1>1, FS_Interval, AutoLimits
<1>3. /\ n + 1 \in DeliveryIds
      /\ deliveries' = [deliveries EXCEPT ![n + 1] = [state |-> state, source |-> source, key |-> key]]
  BY <1>2 DEF InsertDelivery
<1>4. Is(n + 1, "none") BY <1>1, <1>3, AutoLimits DEF Recorded
<1>5. Reported(n + 1) = "open" BY <1>4 DEF Reported, DeliveryReport, Is
<1>6. DeliveryReports' = [DeliveryReports EXCEPT ![n + 1] = DeliveryReport(state)]
  BY <1>3 DEF DeliveryReports, AutoInv, AutoTables
<1>7. DeliveryReport(state) \in {"open", "dropped"} BY DEF DeliveryReport
<1> QED BY <1>3, <1>5, <1>6, <1>7, DeliveryMoves DEF TasksAccepted

\* Dispatch claims, rejects or cancels what waits, and only looks up the rest.
LEMMA DispatchDrops ==
    ASSUME AutoInv, NEW r \in Schedulers, NEW d \in DeliveryIds, Dispatch(r, d)
    PROVE  ClaimStep
<1>1. triggered' = triggered /\ TasksAccepted' = TasksAccepted BY DEF Dispatch, TasksAccepted
<1>2. CASE BeginLookup(r, d) BY <1>1, <1>2 DEF BeginLookup, ClaimStep, DeliveryReports
<1>3. CASE CancelPending(r, d)
  <2>1. {d} \in SUBSET Pending BY <1>3 DEF CancelPending, Claimable, Pending
  <2> QED BY <1>1, <1>3, <2>1, CancelDrops DEF CancelPending
<1>4. CASE RejectPending(r, d) \/ Claim(r, d)
  <2>1. PICK state \in {"failed", "dispatching"} : deliveries' = [deliveries EXCEPT ![d].state = state]
    BY <1>4 DEF RejectPending, Claim
  <2>2. Reported(d) = "open" BY <1>4 DEF RejectPending, Claim, Ready, Claimable, Is, Reported, DeliveryReport
  <2>3. DeliveryReport(state) \in {"dropped", "claimed"} BY DEF DeliveryReport
  <2> QED BY <1>1, <2>1, <2>2, <2>3, StateMoves, DeliveryMoves
<1> QED BY <1>2, <1>3, <1>4 DEF Dispatch

\* Whoever has a delivery at hand starts, reports or doubts it.
LEMMA SchedulerClaims ==
    ASSUME AutoInv, NEW r \in Schedulers, SchedulerStep(r)
    PROVE  ClaimStep
<1>1. CASE UNCHANGED <<deliveries, triggered>>
  BY <1>1 DEF ClaimStep, DeliveryReports, TasksAccepted
<1>2. CASE CallStartTask(r) \/ StartTaskFails(r) \/ LookUpReceipt(r)
  BY <1>1, <1>2 DEF CallStartTask, StartTaskFails, LookUpReceipt
<1>3. PICK d : d = sched[r].d OBVIOUS
<1>4. sched[r].at # "idle" => d \in DeliveryIds /\ Taken(d) BY <1>3 DEF AutoInv, AtHand
<1>5. CASE StartTriggeredTask(r)
  <2>1. d \in DeliveryIds /\ Taken(d) BY <1>4, <1>5 DEF StartTriggeredTask
  <2>2. CASE triggered[d] = "none"
    <3>1. /\ triggered' = [triggered EXCEPT ![d] = "running"] /\ deliveries' = deliveries
      BY <1>3, <1>5, <2>2 DEF StartTriggeredTask
    <3>2. DeliveryReports' = DeliveryReports /\ TasksAccepted' = TasksAccepted \cup {d} /\ d \notin TasksAccepted
      BY <2>1, <2>2, <3>1 DEF DeliveryReports, TasksAccepted, AutoInv, AutoTables
    <3>3. DeliveryReports[d] \in {"claimed", "doubt"}
      BY <2>1, <2>2 DEF AutoInv, OnlyTaken, Taken, Is, DeliveryReports, DeliveryReport
    <3>4. DeliveryClaims!Happen(d) BY <3>2, <3>3 DEF DeliveryClaims!Happen
    <3> QED BY <2>1, <3>4 DEF ClaimStep, DeliveryClaims!Next
  <2>3. CASE triggered[d] # "none"
    <3>1. UNCHANGED <<deliveries, triggered>>
      BY <1>3, <1>5, <2>1, <2>3 DEF StartTriggeredTask, AutoInv, AutoTables
    <3> QED BY <1>1, <3>1
  <2> QED BY <2>2, <2>3
<1>6. CASE AcceptReceipt(r)
  <2>1. d \in DeliveryIds /\ triggered[d] # "none" /\ Taken(d) /\ TasksAccepted' = TasksAccepted
    BY <1>3, <1>6 DEF AcceptReceipt, AutoInv, AtHand, TasksAccepted
  <2>2. PICK state : /\ deliveries' = [deliveries EXCEPT ![d].state = state]
                     /\ state = IF deliveries[d].state \in {"dispatching", "unknown"}
                                THEN "accepted" ELSE deliveries[d].state
    BY <1>3, <1>6 DEF AcceptReceipt
  <2>3. DeliveryReport(state) = "made" /\ Reported(d) \in {"claimed", "doubt", "made"}
    BY <2>1, <2>2 DEF Taken, DeliveryReport, Reported
  <2> QED BY <2>1, <2>2, <2>3, StateMoves, DeliveryMoves
<1>7. CASE MarkUnknown(r)
  <2>1. d \in DeliveryIds /\ TasksAccepted' = TasksAccepted
    BY <1>4, <1>7 DEF MarkUnknown, TasksAccepted
  <2>2. PICK state : /\ deliveries' = [deliveries EXCEPT ![d].state = state]
                     /\ state = IF Is(d, "dispatching") THEN "unknown" ELSE deliveries[d].state
    BY <1>3, <1>7 DEF MarkUnknown, Is
  <2>3. DeliveryReport(state) = Reported(d) \/ (Reported(d) = "claimed" /\ DeliveryReport(state) = "doubt")
    BY <2>2 DEF Is, DeliveryReport, Reported
  <2>4. DeliveryReports' = [DeliveryReports EXCEPT ![d] = DeliveryReport(state)] BY <2>1, <2>2, StateMoves
  <2>5. CASE DeliveryReport(state) = Reported(d) BY <2>1, <2>4, <2>5, DeliveryMoves
  <2>6. CASE DeliveryReport(state) = "doubt" /\ Reported(d) = "claimed" BY <2>1, <2>4, <2>6, DeliveryMoves
  <2> QED BY <2>3, <2>5, <2>6
<1> QED BY <1>2, <1>5, <1>6, <1>7 DEF SchedulerStep

\* Owners, the creator's membership, time and the tasks themselves.
LEMMA OthersDrop ==
    ASSUME AutoInv,
           \/ SaveAutomation \/ DeleteAutomation \/ RotateSecret \/ PrepareSchedule \/ ApplySchedule
           \/ EnqueueDue \/ RevokeMember \/ AutoTick
           \/ \E k \in EventKeys : Webhook(k) \/ Trigger(k)
           \/ \E r \in Schedulers : DispatchFails(r) \/ LoseDeliveryLock(r)
           \/ \E d \in DeliveryIds : TaskAdvances(d)
    PROVE  ClaimStep
<1>1. CASE UNCHANGED <<deliveries, triggered>>
  BY <1>1 DEF ClaimStep, DeliveryReports, TasksAccepted
<1>2. CASE SaveAutomation \/ DeleteAutomation \/ ApplySchedule
  <2>1. triggered' = triggered /\ (deliveries' = deliveries \/ deliveries' = Cancelled(Pending))
    BY <1>2 DEF SaveAutomation, DeleteAutomation, ApplySchedule, SaveRow
  <2> QED BY <1>1, <2>1, CancelDrops
<1>3. CASE RotateSecret \/ PrepareSchedule \/ RevokeMember \/ AutoTick
           \/ \E r \in Schedulers : DispatchFails(r) \/ LoseDeliveryLock(r)
  BY <1>1, <1>3 DEF RotateSecret, PrepareSchedule, RevokeMember, AutoTick, DispatchFails, LoseDeliveryLock
<1>4. CASE EnqueueDue \/ \E k \in EventKeys : Webhook(k) \/ Trigger(k)
  <2>1. /\ triggered' = triggered
        /\ \E source, key : \E state \in {"pending", "skipped"} : InsertDelivery(source, key, state)
    BY <1>4 DEF EnqueueDue, Webhook, Trigger, AcceptDelivery
  <2> QED BY <2>1, InsertDrops
<1>5. ASSUME NEW d \in DeliveryIds, TaskAdvances(d) PROVE ClaimStep
  <2>1. DeliveryReports' = DeliveryReports BY <1>5 DEF TaskAdvances, DeliveryReports
  <2>2. TasksAccepted' = TasksAccepted BY <1>5 DEF TaskAdvances, TasksAccepted, AutoInv, AutoTables
  <2> QED BY <2>1, <2>2 DEF ClaimStep
<1> QED BY <1>2, <1>3, <1>4, <1>5

(* Deliveries are claimed work: one that was cancelled, skipped or rejected has no task later, *)
(* one in doubt is resolved by its task alone, and what was reported stays, whatever           *)
(* scheduler, lookup or late answer comes last.                                                *)
THEOREM DispatchesOnce == AutoSpec => DispatchedOnce
<1>1. AutoInit => DeliveryClaims!Init
  BY DEF AutoInit, DeliveryClaims!Init, DeliveryReports, DeliveryReport, TasksAccepted, NoDelivery
<1>2. AutoInv /\ [AutoNext]_autoVars => [DeliveryClaims!Next]_<<DeliveryReports, TasksAccepted>>
  <2> SUFFICES ASSUME AutoInv, [AutoNext]_autoVars PROVE ClaimStep BY DEF ClaimStep
  <2>1. CASE UNCHANGED autoVars BY <2>1 DEF autoVars, ClaimStep, DeliveryReports, TasksAccepted
  <2>2. CASE AutoNext BY <2>2, OthersDrop, DispatchDrops, SchedulerClaims DEF AutoNext
  <2> QED BY <2>1, <2>2
<1> QED BY <1>1, <1>2, OneStart, AutoInvariant, PTL DEF AutoSpec, DispatchedOnce, DeliveryClaims!Spec

-----------------------------------------------------------------------------
(*****************************************************************************)
(* Together.                                                                 *)
(*****************************************************************************)

(* Every part of the composition behaves as its own specification allows, moving or at rest: what *)
(* is proved of a part alone holds of the composition TLC checks.                                 *)
THEOREM ExecParts == ExecSpec => EventSpec /\ ComputerSpec /\ TaskSpec /\ AutoSpec
<1>1. ExecInit => EventInit /\ ComputerInit /\ TaskInit /\ AutoInit BY DEF ExecInit
<1>2. [ExecNext]_execVars => /\ [EventNext]_eventVars /\ [ComputerNext]_computerVars
                            /\ [TaskNext]_taskVars /\ [AutoNext]_autoVars
  BY DEF ExecNext, execVars
<1> QED BY <1>1, <1>2, PTL DEF ExecSpec, EventSpec, ComputerSpec, TaskSpec, AutoSpec

(* Whichever part moves, and whatever crashes, retries and late writes do to it: every row, *)
(* process and counter stays in its domain.                                                 *)
THEOREM ExecTypes == ExecSpec => []ExecTypeOK
<1>1. EventTypeOK /\ ComputerTypeOK /\ TaskTypeOK /\ AutoTypeOK => ExecTypeOK BY DEF ExecTypeOK
<1> QED BY <1>1, ExecParts, EventTypes, ComputerTypes, TaskTypes, AutoTypes, PTL
=============================================================================
