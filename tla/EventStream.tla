---------------------------- MODULE EventStream ----------------------------
(***************************************************************************)
(* The events of one workspace: their ids, the outbox, the dispatchers of  *)
(* the API replicas, and the streams through which clients follow them.    *)
(*                                                                         *)
(* A transaction appends its event last, under the event lock of the       *)
(* workspace.  One dispatcher at a time publishes a batch through Redis    *)
(* and then deletes it.  A stream subscribes, replays the recent history   *)
(* behind the client's cursor and then forwards what is published.         *)
(*                                                                         *)
(* Source: backend/internal/eventlog/events.go,                            *)
(* backend/internal/conversation/http.go (streamEvents).                   *)
(***************************************************************************)
EXTENDS Integers, Sequences, FiniteSetsExt

CONSTANTS
    Writers,        \* transactions that may be appending at the same time
    Topics,         \* conversations of the workspace
    Dispatchers,    \* API replicas
    Streams,        \* clients, each with one stream
    Workspace,      \* the feed of the whole workspace
    ReplayLimit,    \* 1200 in the code: events of one history replay
    BatchLimit,     \* 100 in the code: events of one flush
    MaxEvents,      \* bound: event ids
    MaxEventFaults  \* bound: failed publications, lost sessions, lost messages, disconnections

ASSUME EventConstants ==
    /\ {ReplayLimit, BatchLimit, MaxEvents} \subseteq Nat \ {0}
    /\ MaxEventFaults \in Nat
    /\ Workspace \notin Topics

VARIABLES
    \* ---- PostgreSQL
    log,            \* run_events: the topic of each committed id
    outbox,         \* run_event_outbox
    lastId,         \* the sequence of run_events
    writing,        \* per writer, the event of its open transaction; NoEvent if none
    flushing,       \* the dispatcher whose session holds lester:event-dispatch, or NoOne
    \* ---- the processes
    flush,          \* per dispatcher, its batch, how much of it is published, and whether
                    \* its session is alive
    stream,         \* per client, the handler of its connection
    \* ---- the clients
    feed,           \* what each client follows
    cursor,         \* the last id it has received (Last-Event-ID)
    got,            \* ids received
    \* ---- history and bound
    passedBy,       \* ids outside the replay window, or lost by Redis on the way
    eventFaults

eventVars == <<log, outbox, lastId, writing, flushing, flush, stream, feed, cursor, got,
               passedBy, eventFaults>>

NoEvent == [id |-> 0, topic |-> Workspace]
NoOne   == "none"
NoFlush == [batch |-> {}, sent |-> {}, alive |-> TRUE]
Closed  == [phase |-> "closed", from |-> 0, sent |-> 0, queue |-> <<>>]

Committed == {i \in 1..MaxEvents : log[i] # Workspace}
Follows(s, topic) == feed[s] \in {Workspace, topic}
Wanted(s) == {i \in Committed : Follows(s, log[i])}

\* The greatest (smallest) N ids of a set.
Newest(S, N) == {i \in S : Cardinality({j \in S : j > i}) < N}
Oldest(S, N) == {i \in S : Cardinality({j \in S : j < i}) < N}

EventTypeOK ==
    /\ log \in [1..MaxEvents -> Topics \cup {Workspace}]
    /\ outbox \subseteq Committed
    /\ lastId \in 0..MaxEvents
    /\ \A w \in Writers : writing[w].id \in 0..lastId
    /\ flushing \in Dispatchers \cup {NoOne}
    /\ \A d \in Dispatchers : flush[d].sent \subseteq flush[d].batch
    /\ feed \in [Streams -> Topics \cup {Workspace}]
    /\ \A s \in Streams : /\ stream[s].phase \in {"closed", "subscribed", "live"}
                          /\ got[s] \subseteq Wanted(s)
                          /\ cursor[s] \in 0..lastId

EventInit ==
    /\ log = [i \in 1..MaxEvents |-> Workspace]
    /\ outbox = {}
    /\ lastId = 0
    /\ writing = [w \in Writers |-> NoEvent]
    /\ flushing = NoOne
    /\ flush = [d \in Dispatchers |-> NoFlush]
    /\ stream = [s \in Streams |-> Closed]
    /\ feed \in [Streams -> Topics \cup {Workspace}]
    /\ cursor = [s \in Streams |-> 0]
    /\ got = [s \in Streams |-> {}]
    /\ passedBy = [s \in Streams |-> {}]
    /\ eventFaults = 0

EventFault == eventFaults < MaxEventFaults /\ eventFaults' = eventFaults + 1

-----------------------------------------------------------------------------
\* The transactions that append.

EventLockFree_Ignored == TRUE \* mutant: ids are drawn without the lock
\* pg_advisory_xact_lock of the workspace, held until the transaction ends.
EventLockFree == \A w \in Writers : writing[w] = NoEvent

\* Append: the last operation of its transaction draws the id.
AppendEvent(w, topic) ==
    /\ EventLockFree
    /\ writing[w] = NoEvent
    /\ lastId < MaxEvents
    /\ lastId' = lastId + 1
    /\ writing' = [writing EXCEPT ![w] = [id |-> lastId + 1, topic |-> topic]]
    /\ UNCHANGED <<log, outbox, flushing, flush, stream, feed, cursor, got, passedBy, eventFaults>>

\* The event and its delivery intent commit together; a rolled back id is never used.
EndAppend(w) ==
    /\ writing[w] # NoEvent
    /\ writing' = [writing EXCEPT ![w] = NoEvent]
    /\ \/ /\ log' = [log EXCEPT ![writing[w].id] = writing[w].topic]
          /\ outbox' = outbox \cup {writing[w].id}
       \/ UNCHANGED <<log, outbox>>
    /\ UNCHANGED <<lastId, flushing, flush, stream, feed, cursor, got, passedBy, eventFaults>>

-----------------------------------------------------------------------------
\* Dispatcher.Flush.

\* The oldest intents, read by the dispatcher that gets the transaction lock.
FlushBegin(d) ==
    /\ flushing = NoOne /\ flush[d] = NoFlush
    /\ outbox # {}
    /\ flushing' = d
    /\ flush' = [flush EXCEPT ![d].batch = Oldest(outbox, BatchLimit)]
    /\ UNCHANGED <<log, outbox, lastId, writing, stream, feed, cursor, got, passedBy, eventFaults>>

\* Redis hands a message to whoever is subscribed now.
Publish(i) ==
    stream' = [s \in Streams |->
                  IF stream[s].phase # "closed" /\ Follows(s, log[i])
                  THEN [stream[s] EXCEPT !.queue = Append(@, i)]
                  ELSE stream[s]]

\* One item of the batch: publish, then DELETE.  Without its session the DELETE fails and
\* the flush ends, with the item published.
PublishNext(d) ==
    \E i \in Oldest(flush[d].batch \ flush[d].sent, 1) :
        /\ Publish(i)
        /\ flush' = [flush EXCEPT ![d] = IF flush[d].alive
                                         THEN [flush[d] EXCEPT !.sent = @ \cup {i}] ELSE NoFlush]
        /\ UNCHANGED <<log, outbox, lastId, writing, flushing, feed, cursor, got, passedBy, eventFaults>>

\* The deletions commit together, after everything is published.
FlushCommit(d) ==
    /\ flushing = d /\ flush[d] # NoFlush /\ flush[d].sent = flush[d].batch
    /\ outbox' = outbox \ flush[d].sent
    /\ flush' = [flush EXCEPT ![d] = NoFlush]
    /\ flushing' = NoOne
    /\ UNCHANGED <<log, lastId, writing, stream, feed, cursor, got, passedBy, eventFaults>>

FlushFails_KeepsLock(d) == \* mutant: the session keeps the lock of a failed flush
    /\ EventFault
    /\ flushing = d
    /\ flush' = [flush EXCEPT ![d] = NoFlush]
    /\ UNCHANGED <<log, outbox, lastId, writing, flushing, stream, feed, cursor, got, passedBy>>
\* A publication or a statement fails, or five seconds are over: rollback.
FlushFails(d) ==
    /\ EventFault
    /\ flushing = d
    /\ flush' = [flush EXCEPT ![d] = NoFlush]
    /\ flushing' = NoOne
    /\ UNCHANGED <<log, outbox, lastId, writing, stream, feed, cursor, got, passedBy>>

\* PostgreSQL ends the session, and the process has yet to notice.
LoseFlushSession(d) ==
    /\ EventFault
    /\ flushing = d /\ flush[d].sent # flush[d].batch
    /\ flushing' = NoOne
    /\ flush' = [flush EXCEPT ![d].alive = FALSE]
    /\ UNCHANGED <<log, outbox, lastId, writing, stream, feed, cursor, got, passedBy>>

-----------------------------------------------------------------------------
\* streamEvents.

Receive(s, ids) ==
    /\ got' = [got EXCEPT ![s] = @ \cup ids]
    /\ cursor' = [cursor EXCEPT ![s] = Max(ids \cup {@})]

\* The subscription is confirmed before the history is read.
Subscribe(s) ==
    /\ stream[s].phase = "closed"
    /\ stream' = [stream EXCEPT ![s] = [Closed EXCEPT !.phase = "subscribed", !.from = cursor[s]]]
    /\ UNCHANGED <<log, outbox, lastId, writing, flushing, flush, feed, cursor, got, passedBy, eventFaults>>

\* The newest events behind the cursor, written in order.
ReadHistory(s) ==
    LET behind == {i \in Wanted(s) : i > stream[s].from}
        replay == Newest(behind, ReplayLimit)
    IN  /\ stream[s].phase = "subscribed"
        /\ stream' = [stream EXCEPT ![s].phase = "live",
                                    ![s].sent = Max(replay \cup {stream[s].from})]
        /\ Receive(s, replay)
        /\ passedBy' = [passedBy EXCEPT ![s] = @ \cup (behind \ replay)]
        /\ UNCHANGED <<log, outbox, lastId, writing, flushing, flush, feed, eventFaults>>

\* Repeats, and what the replay has shown already, are recognized by their ids.
Fresh(s, i) == i > stream[s].sent

\* A live message: forwarded, or skipped because the client has it.
Forward(s) ==
    /\ stream[s].phase = "live" /\ stream[s].queue # <<>>
    /\ LET i == Head(stream[s].queue)
           rest == [stream[s] EXCEPT !.queue = Tail(@)]
       IN  IF Fresh(s, i)
           THEN /\ stream' = [stream EXCEPT ![s] = [rest EXCEPT !.sent = i]]
                /\ Receive(s, {i})
           ELSE /\ stream' = [stream EXCEPT ![s] = rest]
                /\ UNCHANGED <<cursor, got>>
    /\ UNCHANGED <<log, outbox, lastId, writing, flushing, flush, feed, passedBy, eventFaults>>

\* The connection ends; the frames behind some id never arrived.
Disconnect(s) ==
    /\ EventFault
    /\ stream[s].phase # "closed"
    /\ \E last \in {stream[s].from} \cup {i \in got[s] : i > stream[s].from} :
           /\ cursor' = [cursor EXCEPT ![s] = last]
           /\ got' = [got EXCEPT ![s] = {i \in @ : i <= last}]
    /\ stream' = [stream EXCEPT ![s] = Closed]
    /\ UNCHANGED <<log, outbox, lastId, writing, flushing, flush, feed, passedBy>>

\* The Redis connection of a subscription drops a message: it keeps none for a subscriber.
RedisLoses(s) ==
    /\ EventFault
    /\ stream[s].queue # <<>>
    /\ stream' = [stream EXCEPT ![s].queue = Tail(@)]
    /\ passedBy' = [passedBy EXCEPT ![s] = @ \cup ({Head(stream[s].queue)} \ got[s])]
    /\ UNCHANGED <<log, outbox, lastId, writing, flushing, flush, feed, cursor, got>>

-----------------------------------------------------------------------------
DispatcherStep(d) == FlushBegin(d) \/ PublishNext(d) \/ FlushCommit(d)
StreamStep(s) == Subscribe(s) \/ ReadHistory(s) \/ Forward(s)

EventNext ==
    \/ \E w \in Writers : EndAppend(w) \/ \E topic \in Topics : AppendEvent(w, topic)
    \/ \E d \in Dispatchers : DispatcherStep(d) \/ FlushFails(d) \/ LoseFlushSession(d)
    \/ \E s \in Streams : StreamStep(s) \/ Disconnect(s) \/ RedisLoses(s)

EventSpec == EventInit /\ [][EventNext]_eventVars

-----------------------------------------------------------------------------
(* Up to its cursor a client has every event of its feed, except those the replay window left   *)
(* out and those Redis lost: no race of commits, dispatchers that die in a batch, repeats,      *)
(* replays and reconnections makes a hole nobody will fill.  Id order must be commit order, the *)
(* subscription must precede the replay, and an intent may only go when it was published.       *)
NoHoles ==
    \A s \in Streams :
        /\ \A i \in Wanted(s) : i <= cursor[s] => i \in got[s] \cup passedBy[s]
        /\ stream[s].phase = "live" =>
               \A i \in Wanted(s) \ outbox :
                   \/ i \in got[s] \cup passedBy[s]
                   \/ \E k \in 1..Len(stream[s].queue) : stream[s].queue[k] = i

(* The outbox of finitely many events is empty in the end: a flush that fails or dies keeps     *)
(* neither the intents nor the dispatch lock of the others.                                     *)
OutboxDrains == []<>(outbox = {})
=============================================================================
