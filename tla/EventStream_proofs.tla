------------------------- MODULE EventStream_proofs -------------------------
(***************************************************************************)
(* Proofs about EventStream, for any number of writers, dispatchers,       *)
(* clients, events and faults, and for any replay window and batch.        *)
(***************************************************************************)
EXTENDS EventStream, SequenceTheorems, FiniteSetTheorems, NaturalsInduction, TLAPS

Ids == 1..MaxEvents
FlushRow  == [batch : SUBSET Ids, sent : SUBSET Ids, alive : BOOLEAN]
StreamRow == [phase : {"closed", "subscribed", "live"}, from : Nat, sent : Nat, queue : Seq(Ids)]

\* The rows with their domains.
EventTables ==
    /\ log \in [Ids -> Topics \cup {Workspace}]
    /\ outbox \subseteq Committed
    /\ lastId \in 0..MaxEvents
    /\ writing \in [Writers -> [id : Nat, topic : Topics \cup {Workspace}]]
    /\ flushing \in Dispatchers \cup {NoOne}
    /\ flush \in [Dispatchers -> FlushRow]
    /\ stream \in [Streams -> StreamRow]
    /\ feed \in [Streams -> Topics \cup {Workspace}]
    /\ cursor \in [Streams -> Nat]
    /\ got \in [Streams -> SUBSET Ids]
    /\ passedBy \in [Streams -> SUBSET Ids]

\* Id order is commit order: an open transaction has the last id, all committed ones are smaller.
IdsInOrder ==
    /\ \A i \in Committed : i <= lastId
    /\ \A w \in Writers : writing[w] # NoEvent =>
           /\ writing[w].id = lastId /\ lastId > 0 /\ writing[w].topic \in Topics
           /\ lastId \notin Committed
           /\ \A v \in Writers : writing[v] # NoEvent => v = w

\* A batch holds every intent before any of its own.
BatchTrue(d) ==
    /\ flush[d].batch \subseteq Committed /\ flush[d].sent \subseteq flush[d].batch
    /\ \A i \in flush[d].batch, j \in outbox : j < i => j \in flush[d].batch

\* What some dispatcher has handed to Redis, as far as it can be known.
Published(i) == i \notin outbox \/ \E d \in Dispatchers : i \in flush[d].sent
Had(s, i) == i \in got[s] \cup passedBy[s]
Queued(s, i, n) == \E k \in 1..n : stream[s].queue[k] = i

CursorTrue(s) ==
    /\ cursor[s] \in Committed \cup {0} /\ stream[s].from \in Committed \cup {0}
    /\ stream[s].phase # "closed" => stream[s].from <= cursor[s]
    /\ stream[s].phase = "subscribed" => stream[s].from = cursor[s]
    /\ stream[s].phase = "live" => stream[s].sent = cursor[s]
    /\ got[s] \subseteq Wanted(s)
    /\ \A i \in got[s] : i <= cursor[s]
    /\ \A i \in Wanted(s) : i <= cursor[s] => Had(s, i)

\* A live queue holds what was published and not had, each message behind those before it.
QueueTrue(s) ==
    /\ \A k \in 1..Len(stream[s].queue) : stream[s].queue[k] \in Wanted(s)
    /\ stream[s].phase = "live" =>
           /\ \A i \in Wanted(s) : Published(i) => Had(s, i) \/ Queued(s, i, Len(stream[s].queue))
           /\ \A k \in 1..Len(stream[s].queue) : \A j \in Wanted(s) :
                  j < stream[s].queue[k] => Had(s, j) \/ Queued(s, j, k - 1)

EventInv ==
    /\ EventTables
    /\ IdsInOrder
    /\ \A d \in Dispatchers : BatchTrue(d)
    /\ \A s \in Streams : CursorTrue(s) /\ QueueTrue(s)

-----------------------------------------------------------------------------
\* The operators on sets of ids.

LEMMA EventLimits == MaxEvents \in Nat /\ Workspace \notin Topics
BY EventConstants DEF EventConstants

LEMMA FiniteIds == ASSUME NEW S \in SUBSET Ids PROVE IsFiniteSet(S)
<1>1. IsFiniteSet(1..MaxEvents) BY EventLimits, FS_Interval
<1> QED BY <1>1, FS_Subset DEF Ids

LEMMA CommittedIds == Committed \subseteq Ids
BY DEF Committed, Ids

LEMMA GreatestId ==
    ASSUME NEW N \in Nat, NEW S \in SUBSET (0..N), S # {}
    PROVE  Max(S) \in S /\ \A i \in S : i <= Max(S)
<1> DEFINE below == {n \in Nat : \E i \in S : n = N - i}
<1>1. below \subseteq Nat /\ below # {}
  <2>1. PICK i \in S : TRUE OBVIOUS
  <2>2. N - i \in below BY <2>1
  <2> QED BY <2>2
<1>2. \E n \in below : \A m \in below : ~(<<m, n>> \in OpToRel(<, Nat))
  <2> HIDE DEF below
  <2> QED BY <1>1, NatLessThanWellFounded, WFMin
<1>3. PICK n \in below : \A m \in below : ~(m < n) BY <1>2 DEF OpToRel
<1>4. PICK x \in S : n = N - x BY <1>3
<1>5. \A i \in S : x >= i
  <2> SUFFICES ASSUME NEW i \in S PROVE x >= i OBVIOUS
  <2>1. N - i \in below OBVIOUS
  <2>2. ~(N - i < n) BY <1>3, <2>1
  <2> QED BY <1>4, <2>2
<1> QED BY <1>4, <1>5 DEF Max

LEMMA OldestOne ==
    ASSUME NEW S \in SUBSET Ids, NEW i \in Oldest(S, 1)
    PROVE  i \in S /\ \A j \in S : ~(j < i)
<1>1. i \in S /\ Cardinality({j \in S : j < i}) < 1 BY DEF Oldest
<1>2. IsFiniteSet({j \in S : j < i}) BY FiniteIds
<1>3. Cardinality({j \in S : j < i}) \in Nat BY <1>2, FS_CardinalityType
<1>4. {j \in S : j < i} = {} BY <1>1, <1>2, <1>3, FS_EmptySet
<1> QED BY <1>1, <1>4

LEMMA OldestClosed ==
    ASSUME NEW S \in SUBSET Ids, NEW i \in Oldest(S, BatchLimit), NEW j \in S, j < i
    PROVE  j \in Oldest(S, BatchLimit)
<1> DEFINE I == {k \in S : k < i}
<1> DEFINE J == {k \in S : k < j}
<1>1. i \in S /\ Cardinality(I) < BatchLimit BY DEF Oldest
<1>0. \A k \in S : k \in Int BY DEF Ids
<1>2. J \subseteq I BY <1>0, <1>1
<1>3. IsFiniteSet(I) BY FiniteIds
<1>4. Cardinality(J) <= Cardinality(I) /\ IsFiniteSet(J) BY <1>2, <1>3, FS_Subset
<1>5. Cardinality(J) \in Nat /\ Cardinality(I) \in Nat BY <1>3, <1>4, FS_CardinalityType
<1>6. BatchLimit \in Nat BY EventConstants DEF EventConstants
<1>7. Cardinality(J) < BatchLimit BY <1>1, <1>4, <1>5, <1>6
<1> QED BY <1>7 DEF Oldest

LEMMA OldestSubset == ASSUME NEW S, NEW n PROVE Oldest(S, n) \subseteq S
BY DEF Oldest

-----------------------------------------------------------------------------
LEMMA EventInitially == EventInit => EventInv
<1> SUFFICES ASSUME EventInit PROVE EventInv OBVIOUS
<1> USE DEF EventInit
<1>1. Committed = {} BY DEF Committed
<1>2. EventTables
  <2>1. log \in [Ids -> Topics \cup {Workspace}] BY DEF Ids
  <2>2. writing \in [Writers -> [id : Nat, topic : Topics \cup {Workspace}]] BY DEF NoEvent
  <2>3. flush \in [Dispatchers -> FlushRow]
    <3>1. {} \in SUBSET Ids /\ TRUE \in BOOLEAN OBVIOUS
    <3>2. NoFlush \in FlushRow BY <3>1, Zenon DEF NoFlush, FlushRow
    <3> QED BY <3>2
  <2>4. stream \in [Streams -> StreamRow]
    <3>1. Closed \in StreamRow BY EmptySeq DEF Closed, StreamRow
    <3> QED BY <3>1
  <2>5. cursor \in [Streams -> Nat] /\ got \in [Streams -> SUBSET Ids] /\ passedBy \in [Streams -> SUBSET Ids]
    OBVIOUS
  <2> QED BY <1>1, <2>1, <2>2, <2>3, <2>4, <2>5, EventLimits DEF EventTables
<1>3. IdsInOrder BY <1>1 DEF IdsInOrder
<1>4. \A d \in Dispatchers : BatchTrue(d) BY DEF BatchTrue, NoFlush
<1>5. \A s \in Streams : CursorTrue(s) BY <1>1 DEF CursorTrue, Closed, Wanted
<1>6. \A s \in Streams : QueueTrue(s)
  <2>1. Len(<<>>) = 0 OBVIOUS
  <2> QED BY <2>1 DEF QueueTrue, Closed
<1> QED BY <1>2, <1>3, <1>4, <1>5, <1>6 DEF EventInv

-----------------------------------------------------------------------------
\* What steps leave alone.

\* A stream that does not move, while nothing more is known to be published.
LEMMA StreamKept ==
    ASSUME NEW s \in Streams, CursorTrue(s), QueueTrue(s),
           stream'[s] = stream[s], cursor'[s] = cursor[s], got'[s] = got[s], passedBy'[s] = passedBy[s],
           UNCHANGED <<log, feed>>,
           \A i \in Committed : Published(i)' => Published(i)
    PROVE  CursorTrue(s)' /\ QueueTrue(s)'
<1>1. Committed' = Committed BY DEF Committed
<1>2. Wanted(s)' = Wanted(s) BY <1>1 DEF Wanted, Follows
<1>3. CursorTrue(s)' BY <1>1, <1>2 DEF CursorTrue, Had
<1>4. \A i \in Wanted(s) : Had(s, i)' = Had(s, i) BY DEF Had
<1>5. \A i, n : Queued(s, i, n)' = Queued(s, i, n) BY DEF Queued
<1>6. QueueTrue(s)' BY <1>2, <1>4, <1>5 DEF QueueTrue, Wanted
<1> QED BY <1>3, <1>6

LEMMA DispatchersKept ==
    ASSUME \A d \in Dispatchers : BatchTrue(d), UNCHANGED <<log, outbox, flush>>
    PROVE  \A d \in Dispatchers : BatchTrue(d)'
BY DEF BatchTrue, Committed

LEMMA WritersKept ==
    ASSUME IdsInOrder, UNCHANGED <<log, lastId, writing>>
    PROVE  IdsInOrder'
BY DEF IdsInOrder, Committed

-----------------------------------------------------------------------------
\* Transactions.

LEMMA AppendKeeps ==
    ASSUME EventInv, NEW w \in Writers, NEW topic \in Topics, AppendEvent(w, topic)
    PROVE  EventInv'
<1> USE DEF EventInv
<1>1. UNCHANGED <<log, outbox, flushing, flush, stream, feed, cursor, got, passedBy>> BY DEF AppendEvent
<1>2. Committed' = Committed BY <1>1 DEF Committed
<1>3. /\ lastId' = lastId + 1 /\ lastId \in Nat /\ lastId' \in 0..MaxEvents
      /\ \A v \in Writers : writing[v] = NoEvent
      /\ writing' = [writing EXCEPT ![w] = [id |-> lastId + 1, topic |-> topic]]
  BY EventLimits DEF AppendEvent, EventLockFree, EventTables
<1>4. EventTables'
  <2>1. [id |-> lastId + 1, topic |-> topic] \in [id : Nat, topic : Topics \cup {Workspace}] BY <1>3
  <2>2. writing' \in [Writers -> [id : Nat, topic : Topics \cup {Workspace}]] BY <1>3, <2>1 DEF EventTables
  <2> QED BY <1>1, <1>2, <1>3, <2>2 DEF EventTables
<1>5. IdsInOrder'
  <2>1. \A i \in Committed : i <= lastId /\ i \in Nat BY CommittedIds DEF IdsInOrder, Ids
  <2>2. lastId' \notin Committed /\ \A i \in Committed : i <= lastId' BY <1>3, <2>1
  <2>3. \A v \in Writers : v # w => writing'[v] = NoEvent BY <1>3 DEF EventTables
  <2>4. writing'[w].id = lastId' /\ writing'[w].topic = topic BY <1>3 DEF EventTables
  <2> QED BY <1>2, <1>3, <2>2, <2>3, <2>4 DEF IdsInOrder
<1>6. \A d \in Dispatchers : BatchTrue(d)' BY <1>1, DispatchersKept
<1>7. \A s \in Streams : CursorTrue(s)' /\ QueueTrue(s)' BY <1>1, StreamKept DEF Published
<1> QED BY <1>4, <1>5, <1>6, <1>7

LEMMA EndKeeps ==
    ASSUME EventInv, NEW w \in Writers, EndAppend(w)
    PROVE  EventInv'
<1> USE DEF EventInv
<1>1. UNCHANGED <<lastId, flushing, flush, stream, feed, cursor, got, passedBy>> BY DEF EndAppend
<1>2. /\ writing[w].id = lastId /\ lastId > 0 /\ writing[w].topic \in Topics /\ lastId \notin Committed
      /\ writing' = [writing EXCEPT ![w] = NoEvent] /\ lastId \in Ids
      /\ \A v \in Writers : writing'[v] = NoEvent
  BY EventLimits DEF EndAppend, IdsInOrder, EventTables, Ids
<1>3. writing' \in [Writers -> [id : Nat, topic : Topics \cup {Workspace}]]
  BY <1>2 DEF EventTables, NoEvent
<1>4. CASE UNCHANGED <<log, outbox>>
  <2>1. Committed' = Committed BY <1>4 DEF Committed
  <2>2. EventTables' BY <1>1, <1>3, <1>4, <2>1 DEF EventTables
  <2>3. IdsInOrder' BY <1>1, <1>2, <2>1 DEF IdsInOrder
  <2>4. \A d \in Dispatchers : BatchTrue(d)' BY <1>1, <1>4, DispatchersKept
  <2>5. \A s \in Streams : CursorTrue(s)' /\ QueueTrue(s)' BY <1>1, <1>4, StreamKept DEF Published
  <2> QED BY <2>2, <2>3, <2>4, <2>5
<1>5. CASE /\ log' = [log EXCEPT ![writing[w].id] = writing[w].topic]
           /\ outbox' = outbox \cup {writing[w].id}
  <2>1. /\ log' \in [Ids -> Topics \cup {Workspace}] /\ log'[lastId] # Workspace
        /\ \A i \in Ids : i # lastId => log'[i] = log[i]
    BY <1>2, <1>5, EventLimits DEF EventTables
  <2>2. Committed' = Committed \cup {lastId} BY <1>2, <2>1 DEF Committed, Ids
  <2>3. outbox' = outbox \cup {lastId} BY <1>2, <1>5
  <2>4. EventTables' BY <1>1, <1>3, <2>1, <2>2, <2>3 DEF EventTables
  <2>5. \A i \in Committed : i < lastId /\ i \in Nat
    BY <1>2, CommittedIds DEF IdsInOrder, Ids
  <2>6. IdsInOrder'
    <3>1. \A i \in Committed' : i <= lastId' BY <1>1, <1>2, <2>2, <2>5 DEF Ids
    <3> QED BY <1>2, <3>1 DEF IdsInOrder
  <2>7. ASSUME NEW d \in Dispatchers PROVE BatchTrue(d)'
    <3>1. BatchTrue(d) OBVIOUS
    <3>2. ASSUME NEW i \in flush[d].batch, NEW j \in outbox', j < i PROVE j \in flush[d].batch
      BY <2>3, <2>5, <3>1, <3>2 DEF BatchTrue, EventTables
    <3> QED BY <1>1, <2>2, <3>1, <3>2 DEF BatchTrue
  <2>8. ASSUME NEW s \in Streams PROVE CursorTrue(s)' /\ QueueTrue(s)'
    <3>1. Wanted(s) \subseteq Wanted(s)' /\ Wanted(s)' \subseteq Wanted(s) \cup {lastId}
      BY <1>1, <2>1, <2>2, <2>5 DEF Wanted, Follows, Committed, Ids
    <3>2. CursorTrue(s) /\ QueueTrue(s) OBVIOUS
    <3>3. cursor[s] < lastId BY <1>2, <2>5, <3>2 DEF CursorTrue
    <3>4. \A i : Had(s, i)' = Had(s, i) BY <1>1 DEF Had
    <3>5. \A i, n : Queued(s, i, n)' = Queued(s, i, n) BY <1>1 DEF Queued
    <3>6. CursorTrue(s)'
      <4>1. \A i \in Wanted(s)' : i <= cursor'[s] => Had(s, i)'
        BY <1>1, <1>2, <3>1, <3>2, <3>3, <3>4 DEF CursorTrue, EventTables, Ids
      <4> QED BY <1>1, <2>2, <3>1, <3>2, <4>1 DEF CursorTrue
    <3>7. \A i \in Committed : Published(i)' => Published(i) BY <1>1, <2>3 DEF Published
    <3>8. QueueTrue(s)'
      <4>1. \A k \in 1..Len(stream[s].queue) : stream[s].queue[k] \in Wanted(s) BY <3>2 DEF QueueTrue
      <4>2. ASSUME stream[s].phase = "live", NEW i \in Wanted(s)', Published(i)'
            PROVE  Had(s, i) \/ Queued(s, i, Len(stream[s].queue))
        <5>0. i # lastId BY <1>1, <1>2, <2>3, <4>2 DEF Published, BatchTrue
        <5>1. i \in Wanted(s) BY <3>1, <4>2, <5>0
        <5>2. Published(i) BY <3>7, <4>2, <5>1 DEF Wanted
        <5> QED BY <3>2, <4>2, <5>1, <5>2 DEF QueueTrue
      <4>3. ASSUME stream[s].phase = "live", NEW k \in 1..Len(stream[s].queue), NEW j \in Wanted(s)',
                   j < stream[s].queue[k]
            PROVE  Had(s, j) \/ Queued(s, j, k - 1)
        <5>1. stream[s].queue[k] < lastId BY <2>5, <4>1, <4>3 DEF Wanted
        <5>2. j # lastId BY <1>2, <4>1, <4>3, <5>1 DEF Wanted, Committed, Ids
        <5> QED BY <3>1, <3>2, <4>3, <5>2 DEF QueueTrue
      <4> QED BY <1>1, <3>1, <3>4, <3>5, <4>1, <4>2, <4>3 DEF QueueTrue
    <3> QED BY <3>6, <3>8
  <2> QED BY <2>4, <2>6, <2>7, <2>8
<1> QED BY <1>4, <1>5 DEF EndAppend

-----------------------------------------------------------------------------
\* Dispatchers.

\* A step of one dispatcher that publishes nothing and takes back nothing but its own marks.
LEMMA FlushKeeps ==
    ASSUME EventInv, NEW d \in Dispatchers, NEW row \in FlushRow, flush' = [flush EXCEPT ![d] = row],
           row.batch \subseteq Committed, row.sent \subseteq row.batch,
           \A i \in row.batch, j \in outbox : j < i => j \in row.batch,
           row.sent \subseteq flush[d].sent,
           outbox' = outbox \/ outbox' = outbox \ flush[d].sent,
           flushing' \in Dispatchers \cup {NoOne},
           UNCHANGED <<log, lastId, writing, stream, feed, cursor, got, passedBy>>
    PROVE  EventInv'
<1> USE DEF EventInv
<1>1. Committed' = Committed BY DEF Committed
<1>2. /\ flush' \in [Dispatchers -> FlushRow] /\ flush'[d] = row
      /\ \A e \in Dispatchers \ {d} : flush'[e] = flush[e]
  BY DEF EventTables
<1>3. EventTables' BY <1>1, <1>2 DEF EventTables
<1>4. IdsInOrder' BY WritersKept
<1>5. ASSUME NEW e \in Dispatchers PROVE BatchTrue(e)'
  <2>1. BatchTrue(e) OBVIOUS
  <2> QED BY <1>1, <1>2, <2>1 DEF BatchTrue
<1>6. ASSUME NEW i \in Committed, Published(i)' PROVE Published(i)
  <2>1. CASE i \notin outbox' BY <2>1 DEF Published
  <2>2. ASSUME NEW e \in Dispatchers, i \in flush'[e].sent PROVE Published(i)
    BY <1>2, <2>2 DEF Published
  <2> QED BY <1>6, <2>1, <2>2 DEF Published
<1>7. \A s \in Streams : CursorTrue(s)' /\ QueueTrue(s)' BY <1>6, StreamKept
<1> QED BY <1>3, <1>4, <1>5, <1>7

LEMMA NoFlushRow == NoFlush \in FlushRow /\ NoFlush.batch = {} /\ NoFlush.sent = {}
<1>1. {} \in SUBSET Ids /\ TRUE \in BOOLEAN OBVIOUS
<1>2. NoFlush \in FlushRow BY <1>1, Zenon DEF NoFlush, FlushRow
<1> QED BY <1>2 DEF NoFlush

LEMMA DispatchKeeps ==
    ASSUME EventInv, NEW d \in Dispatchers,
           FlushBegin(d) \/ FlushCommit(d) \/ FlushFails(d) \/ LoseFlushSession(d)
    PROVE  EventInv'
<1> USE DEF EventInv
<1>1. UNCHANGED <<log, lastId, writing, stream, feed, cursor, got, passedBy>>
  BY DEF FlushBegin, FlushCommit, FlushFails, LoseFlushSession
<1>2. CASE FlushBegin(d)
  <2> DEFINE batch == Oldest(outbox, BatchLimit)
  <2>1. outbox \in SUBSET Ids BY CommittedIds DEF EventTables
  <2>2. /\ batch \subseteq outbox /\ batch \in SUBSET Ids
        /\ \A i \in batch, j \in outbox : j < i => j \in batch
    BY <2>1, OldestSubset, OldestClosed
  <2> HIDE DEF batch
  <2>3. PICK row \in FlushRow : row = [NoFlush EXCEPT !.batch = batch]
    BY <2>2, NoFlushRow DEF FlushRow
  <2>4. row.batch = batch /\ row.sent = {} BY <2>3, NoFlushRow DEF FlushRow
  <2>5. flush' = [flush EXCEPT ![d] = row] BY <1>2, <2>3 DEF FlushBegin, EventTables, batch
  <2>6. outbox' = outbox /\ flushing' = d BY <1>2 DEF FlushBegin
  <2>7. batch \subseteq Committed BY <2>2 DEF EventTables
  <2> QED BY <1>1, <2>2, <2>4, <2>5, <2>6, <2>7, FlushKeeps
<1>3. CASE FlushCommit(d) \/ FlushFails(d)
  <2>1. flush' = [flush EXCEPT ![d] = NoFlush] /\ flushing' = NoOne
    BY <1>3 DEF FlushCommit, FlushFails
  <2>2. outbox' = outbox \/ outbox' = outbox \ flush[d].sent BY <1>3 DEF FlushCommit, FlushFails
  <2> QED BY <1>1, <2>1, <2>2, NoFlushRow, FlushKeeps
<1>4. CASE LoseFlushSession(d)
  <2>1. PICK old \in FlushRow : old = flush[d] BY DEF EventTables
  <2>2. PICK row \in FlushRow : row = [old EXCEPT !.alive = FALSE] BY DEF FlushRow
  <2>3. flush' = [flush EXCEPT ![d] = row] BY <1>4, <2>1, <2>2 DEF LoseFlushSession, EventTables
  <2>4. row.batch = flush[d].batch /\ row.sent = flush[d].sent BY <2>1, <2>2 DEF FlushRow
  <2>5. outbox' = outbox /\ flushing' = NoOne BY <1>4 DEF LoseFlushSession
  <2>6. BatchTrue(d) OBVIOUS
  <2> QED BY <1>1, <2>3, <2>4, <2>5, <2>6, FlushKeeps DEF BatchTrue
<1> QED BY <1>2, <1>3, <1>4

\* A message at the end of a queue.
LEMMA QueueAppended ==
    ASSUME NEW q \in Seq(Ids), NEW i \in Ids
    PROVE  /\ Append(q, i) \in Seq(Ids) /\ Len(Append(q, i)) = Len(q) + 1 /\ Len(q) \in Nat
           /\ Append(q, i)[Len(q) + 1] = i
           /\ \A k \in 1..Len(q) : Append(q, i)[k] = q[k]
OBVIOUS

LEMMA PublishKeeps ==
    ASSUME EventInv, NEW d \in Dispatchers, PublishNext(d)
    PROVE  EventInv'
<1> USE DEF EventInv
<1>1. PICK i \in Oldest(flush[d].batch \ flush[d].sent, 1) :
          /\ Publish(i)
          /\ flush' = [flush EXCEPT ![d] = IF flush[d].alive
                                          THEN [flush[d] EXCEPT !.sent = @ \cup {i}] ELSE NoFlush]
          /\ UNCHANGED <<log, outbox, lastId, writing, flushing, feed, cursor, got, passedBy>>
  BY DEF PublishNext
<1>2. BatchTrue(d) OBVIOUS
<1>3. flush[d].batch \ flush[d].sent \in SUBSET Ids BY <1>2, CommittedIds DEF BatchTrue
<1>4. /\ i \in flush[d].batch /\ i \notin flush[d].sent /\ i \in Committed /\ i \in Ids
      /\ \A j \in flush[d].batch : j < i => j \in flush[d].sent
  BY <1>2, <1>3, OldestOne, CommittedIds DEF BatchTrue
<1>5. \A j \in Committed : j < i => Published(j)
  BY <1>2, <1>4 DEF BatchTrue, Published
<1>6. Committed' = Committed BY <1>1 DEF Committed
<1>7. PICK row \in FlushRow : /\ flush' = [flush EXCEPT ![d] = row]
                              /\ row = NoFlush \/ (row.batch = flush[d].batch /\ row.sent = flush[d].sent \cup {i})
  <2>1. PICK old \in FlushRow : old = flush[d] BY DEF EventTables
  <2>2. CASE old.alive
    <3>1. PICK row \in FlushRow : row = [old EXCEPT !.sent = old.sent \cup {i}] BY <1>4 DEF FlushRow
    <3>2. flush' = [flush EXCEPT ![d] = row] BY <1>1, <2>1, <2>2, <3>1 DEF EventTables
    <3> QED BY <2>1, <3>1, <3>2 DEF FlushRow
  <2>3. CASE ~old.alive BY <1>1, <2>1, <2>3, NoFlushRow DEF EventTables
  <2> QED BY <2>2, <2>3
<1>8. /\ flush' \in [Dispatchers -> FlushRow] /\ flush'[d] = row
      /\ \A e \in Dispatchers \ {d} : flush'[e] = flush[e]
  BY <1>7 DEF EventTables
<1>9. ASSUME NEW s \in Streams
      PROVE  \/ stream'[s] = stream[s]
             \/ /\ stream'[s] = [stream[s] EXCEPT !.queue = Append(stream[s].queue, i)]
                /\ i \in Wanted(s)
  BY <1>1, <1>4, <1>9 DEF Publish, Wanted
<1>10. \A s \in Streams : i \in Wanted(s) /\ stream[s].phase # "closed" =>
           stream'[s] = [stream[s] EXCEPT !.queue = Append(stream[s].queue, i)]
  BY <1>1 DEF Publish, Wanted
<1>11. \A s \in Streams : /\ stream[s] \in StreamRow /\ stream[s].queue \in Seq(Ids)
                          /\ stream'[s] \in StreamRow
                          /\ stream'[s].phase = stream[s].phase /\ stream'[s].from = stream[s].from
                          /\ stream'[s].sent = stream[s].sent
  <2> TAKE s \in Streams
  <2>1. PICK old \in StreamRow : old = stream[s] BY DEF EventTables
  <2>2. old.queue \in Seq(Ids) BY DEF StreamRow
  <2>3. PICK q \in Seq(Ids) : q = Append(old.queue, i) BY <1>4, <2>2, QueueAppended
  <2>4. [old EXCEPT !.queue = q] \in StreamRow BY DEF StreamRow
  <2> QED BY <1>9, <2>1, <2>2, <2>3, <2>4 DEF StreamRow
<1>12. stream' \in [Streams -> StreamRow]
  <2>1. stream' = [s \in Streams |-> stream'[s]] BY <1>1 DEF Publish
  <2> QED BY <1>11, <2>1
<1>13. EventTables' BY <1>1, <1>6, <1>8, <1>12 DEF EventTables
<1>14. IdsInOrder' BY <1>1, WritersKept
<1>15. ASSUME NEW e \in Dispatchers PROVE BatchTrue(e)'
  <2>1. BatchTrue(e) OBVIOUS
  <2> QED BY <1>1, <1>4, <1>6, <1>7, <1>8, <2>1, NoFlushRow DEF BatchTrue
<1>16. ASSUME NEW j \in Committed, Published(j)' PROVE Published(j) \/ j = i
  <2>1. CASE j \notin outbox' BY <1>1, <2>1 DEF Published
  <2>2. ASSUME NEW e \in Dispatchers, j \in flush'[e].sent PROVE Published(j) \/ j = i
    BY <1>7, <1>8, <2>2, NoFlushRow DEF Published
  <2> QED BY <1>16, <2>1, <2>2 DEF Published
<1>17. ASSUME NEW s \in Streams PROVE CursorTrue(s)' /\ QueueTrue(s)'
  <2>0. CursorTrue(s) /\ QueueTrue(s) OBVIOUS
  <2>1. Wanted(s)' = Wanted(s) BY <1>1, <1>6 DEF Wanted, Follows
  <2>2. \A j : Had(s, j)' = Had(s, j) BY <1>1 DEF Had
  <2>3. CursorTrue(s)' BY <1>1, <1>6, <1>11, <2>0, <2>1, <2>2 DEF CursorTrue
  <2>4. CASE stream'[s] = stream[s]
    <3>1. \A j, n : Queued(s, j, n)' = Queued(s, j, n) BY <2>4 DEF Queued
    <3>2. ASSUME stream[s].phase = "live", NEW j \in Wanted(s), Published(j)'
          PROVE  Had(s, j) \/ Queued(s, j, Len(stream[s].queue))
      <4>1. CASE Published(j) BY <2>0, <3>2, <4>1 DEF QueueTrue
      <4>2. CASE j = i
        <5>1. stream'[s] = [stream[s] EXCEPT !.queue = Append(stream[s].queue, i)] BY <1>10, <3>2, <4>2
        <5>2. stream'[s].queue = Append(stream[s].queue, i) BY <1>11, <5>1 DEF StreamRow
        <5>3. Len(Append(stream[s].queue, i)) = Len(stream[s].queue) + 1 /\ Len(stream[s].queue) \in Nat
          BY <1>4, <1>11, QueueAppended
        <5> QED BY <2>4, <5>2, <5>3
      <4> QED BY <1>16, <3>2, <4>1, <4>2 DEF Wanted
    <3>3. QueueTrue(s)' BY <2>0, <2>1, <2>2, <2>4, <3>1, <3>2 DEF QueueTrue
    <3> QED BY <2>3, <3>3
  <2>5. CASE /\ stream'[s] = [stream[s] EXCEPT !.queue = Append(stream[s].queue, i)]
             /\ i \in Wanted(s)
    <3>1. PICK q \in Seq(Ids) : q = stream[s].queue BY <1>11
    <3>2. stream'[s].queue = Append(q, i) BY <1>11, <2>5, <3>1 DEF StreamRow
    <3>3. /\ Len(Append(q, i)) = Len(q) + 1 /\ Len(q) \in Nat /\ Append(q, i)[Len(q) + 1] = i
          /\ \A k \in 1..Len(q) : Append(q, i)[k] = q[k]
      BY <1>4, QueueAppended
    <3>4. \A j, n : n \in 0..Len(q) /\ Queued(s, j, n) => Queued(s, j, n)'
      BY <3>1, <3>2, <3>3 DEF Queued
    <3>5. Queued(s, i, Len(q) + 1)' BY <3>2, <3>3 DEF Queued
    <3>6. \A j : Queued(s, j, Len(q)) => Queued(s, j, Len(q) + 1)'
      BY <3>1, <3>2, <3>3 DEF Queued
    <3>7. ASSUME stream[s].phase = "live", NEW j \in Wanted(s), Published(j)'
          PROVE  Had(s, j) \/ Queued(s, j, Len(q) + 1)'
      <4>1. Published(j) \/ j = i BY <1>16, <3>7 DEF Wanted
      <4> QED BY <2>0, <3>1, <3>5, <3>6, <3>7, <4>1 DEF QueueTrue
    <3>8. ASSUME stream[s].phase = "live", NEW k \in 1..(Len(q) + 1), NEW j \in Wanted(s), j < Append(q, i)[k]
          PROVE  Had(s, j) \/ Queued(s, j, k - 1)'
      <4>1. CASE k = Len(q) + 1
        <5>1. Published(j) BY <1>5, <3>3, <3>8, <4>1 DEF Wanted
        <5>2. Had(s, j) \/ Queued(s, j, Len(q)) BY <2>0, <3>1, <3>8, <5>1 DEF QueueTrue
        <5>3. k - 1 = Len(q) /\ Len(q) \in 0..Len(q) BY <3>3, <4>1
        <5> QED BY <3>4, <5>2, <5>3
      <4>2. CASE k # Len(q) + 1
        <5>1. k \in 1..Len(q) /\ k - 1 \in 0..Len(q) BY <3>3, <3>8, <4>2
        <5>2. Had(s, j) \/ Queued(s, j, k - 1) BY <2>0, <3>1, <3>3, <3>8, <5>1 DEF QueueTrue
        <5> QED BY <3>4, <5>1, <5>2
      <4> QED BY <4>1, <4>2
    <3>9. \A k \in 1..(Len(q) + 1) : Append(q, i)[k] \in Wanted(s)
      BY <2>0, <2>5, <3>1, <3>3 DEF QueueTrue
    <3>10. QueueTrue(s)' BY <1>11, <2>1, <2>2, <3>2, <3>3, <3>7, <3>8, <3>9 DEF QueueTrue
    <3> QED BY <2>3, <3>10
  <2> QED BY <1>9, <2>4, <2>5
<1> QED BY <1>13, <1>14, <1>15, <1>17

-----------------------------------------------------------------------------
\* Streams.

\* A step of one stream keeps the rest.
LEMMA OneStreamMoves ==
    ASSUME EventInv, NEW s \in Streams, NEW row \in StreamRow, stream' = [stream EXCEPT ![s] = row],
           NEW c \in Nat, cursor' = [cursor EXCEPT ![s] = c],
           NEW g \in SUBSET Ids, got' = [got EXCEPT ![s] = g],
           NEW p \in SUBSET Ids, passedBy' = [passedBy EXCEPT ![s] = p],
           UNCHANGED <<log, outbox, lastId, writing, flushing, flush, feed>>
    PROVE  /\ stream'[s] = row /\ cursor'[s] = c /\ got'[s] = g /\ passedBy'[s] = p
           /\ CursorTrue(s)' /\ QueueTrue(s)' => EventInv'
<1> USE DEF EventInv
<1>1. /\ stream' \in [Streams -> StreamRow] /\ stream'[s] = row
      /\ cursor' \in [Streams -> Nat] /\ cursor'[s] = c
      /\ got' \in [Streams -> SUBSET Ids] /\ got'[s] = g
      /\ passedBy' \in [Streams -> SUBSET Ids] /\ passedBy'[s] = p
      /\ \A t \in Streams \ {s} : /\ stream'[t] = stream[t] /\ cursor'[t] = cursor[t]
                                 /\ got'[t] = got[t] /\ passedBy'[t] = passedBy[t]
  BY DEF EventTables
<1>2. Committed' = Committed BY DEF Committed
<1>3. EventTables' BY <1>1, <1>2 DEF EventTables
<1>4. IdsInOrder' /\ \A d \in Dispatchers : BatchTrue(d)' BY WritersKept, DispatchersKept
<1>5. \A t \in Streams \ {s} : CursorTrue(t)' /\ QueueTrue(t)' BY <1>1, StreamKept DEF Published
<1>6. CursorTrue(s)' /\ QueueTrue(s)' => EventInv'
  <2> HAVE CursorTrue(s)' /\ QueueTrue(s)'
  <2> QED BY <1>3, <1>4, <1>5
<1>7. stream'[s] = row /\ cursor'[s] = c /\ got'[s] = g /\ passedBy'[s] = p BY <1>1
<1> QED BY <1>6, <1>7

\* What a step of a stream does not change.
LEMMA SameHistory ==
    ASSUME UNCHANGED <<log, outbox, flush, feed>>, NEW s \in Streams
    PROVE  /\ Committed' = Committed /\ Wanted(s)' = Wanted(s)
           /\ \A i : Published(i)' = Published(i)
BY DEF Committed, Wanted, Follows, Published

LEMMA RowFacts ==
    ASSUME EventInv, NEW s \in Streams
    PROVE  /\ stream[s] \in StreamRow /\ cursor[s] \in Nat /\ cursor[s] \in 0..MaxEvents
           /\ got[s] \in SUBSET Ids /\ passedBy[s] \in SUBSET Ids
           /\ CursorTrue(s) /\ QueueTrue(s) /\ Wanted(s) \subseteq Ids
           /\ Wanted(s) \subseteq Committed
<1>1. EventTables /\ CursorTrue(s) /\ QueueTrue(s) BY DEF EventInv
<1>2. cursor[s] \in Committed \cup {0} BY <1>1 DEF CursorTrue
<1>3. cursor[s] \in 0..MaxEvents
  <2>1. CASE cursor[s] \in Committed
    <3>1. cursor[s] \in Ids BY <2>1, CommittedIds
    <3> QED BY <3>1, EventLimits DEF Ids
  <2>2. CASE cursor[s] = 0 BY <2>2, EventLimits
  <2> QED BY <1>2, <2>1, <2>2
<1>4. Wanted(s) \subseteq Committed BY DEF Wanted
<1> QED BY <1>1, <1>3, <1>4, CommittedIds DEF EventTables

LEMMA SubscribeKeeps ==
    ASSUME EventInv, NEW s \in Streams, Subscribe(s)
    PROVE  EventInv'
<1>1. UNCHANGED <<log, outbox, lastId, writing, flushing, flush, feed, cursor, got, passedBy>>
  BY DEF Subscribe
<1>2. PICK c \in Nat, g \in SUBSET Ids, p \in SUBSET Ids :
          c = cursor[s] /\ g = got[s] /\ p = passedBy[s]
  BY RowFacts
<1>3. Closed \in StreamRow /\ Closed.queue = <<>> BY EmptySeq DEF Closed, StreamRow
<1>4. PICK row \in StreamRow : row = [Closed EXCEPT !.phase = "subscribed", !.from = c]
  BY <1>3 DEF StreamRow
<1>5. row.phase = "subscribed" /\ row.from = c /\ Len(row.queue) = 0
  BY <1>3, <1>4 DEF StreamRow
<1>6. stream' = [stream EXCEPT ![s] = row] BY <1>2, <1>4 DEF Subscribe
<1>7. /\ cursor' = [cursor EXCEPT ![s] = c] /\ got' = [got EXCEPT ![s] = g]
      /\ passedBy' = [passedBy EXCEPT ![s] = p]
  BY <1>1, <1>2 DEF EventInv, EventTables
<1>8. /\ stream'[s] = row /\ cursor'[s] = c /\ got'[s] = g /\ passedBy'[s] = p
      /\ CursorTrue(s)' /\ QueueTrue(s)' => EventInv'
  BY <1>1, <1>6, <1>7, OneStreamMoves
<1>9. Committed' = Committed /\ Wanted(s)' = Wanted(s) BY <1>1, SameHistory
<1>10. CursorTrue(s)' BY <1>2, <1>5, <1>8, <1>9, RowFacts DEF CursorTrue, Had
<1>11. QueueTrue(s)' BY <1>5, <1>8 DEF QueueTrue
<1> QED BY <1>8, <1>10, <1>11

LEMMA HistoryKeeps ==
    ASSUME EventInv, NEW s \in Streams, ReadHistory(s)
    PROVE  EventInv'
<1>1. UNCHANGED <<log, outbox, lastId, writing, flushing, flush, feed>> BY DEF ReadHistory
<1>2. PICK old \in StreamRow, c \in Nat : old = stream[s] /\ c = cursor[s] BY RowFacts
<1>3. old.phase = "subscribed" /\ old.from = c /\ CursorTrue(s) /\ QueueTrue(s)
  BY <1>2, RowFacts DEF ReadHistory, CursorTrue
<1>4. PICK behind : behind = {i \in Wanted(s) : i > old.from} OBVIOUS
<1>5. PICK replay : replay = Newest(behind, ReplayLimit) OBVIOUS
<1>6. PICK last : last = Max(replay \cup {c}) OBVIOUS
<1>7. replay \subseteq behind /\ behind \subseteq Wanted(s) /\ Wanted(s) \subseteq Ids
  BY <1>4, <1>5, RowFacts DEF Newest
<1>8. /\ last \in replay \cup {c} /\ last \in Nat /\ c <= last
      /\ \A i \in replay : i <= last
  <2>1. replay \cup {c} \in SUBSET (0..MaxEvents) BY <1>2, <1>7, RowFacts, EventLimits DEF Ids
  <2>2. last \in replay \cup {c} /\ \A i \in replay \cup {c} : i <= last
    BY <1>6, <2>1, EventLimits, GreatestId
  <2> QED BY <2>1, <2>2
<1>9. /\ stream' = [stream EXCEPT ![s] = [old EXCEPT !.phase = "live", !.sent = last]]
      /\ got' = [got EXCEPT ![s] = got[s] \cup replay] /\ cursor' = [cursor EXCEPT ![s] = last]
      /\ passedBy' = [passedBy EXCEPT ![s] = passedBy[s] \cup (behind \ replay)]
  <2>1. old.from = c BY <1>3
  <2>2. /\ stream' = [stream EXCEPT ![s].phase = "live", ![s].sent = last]
        /\ got' = [got EXCEPT ![s] = got[s] \cup replay] /\ cursor' = [cursor EXCEPT ![s] = last]
        /\ passedBy' = [passedBy EXCEPT ![s] = passedBy[s] \cup (behind \ replay)]
    BY <1>2, <1>4, <1>5, <1>6, <2>1 DEF ReadHistory, Receive
  <2> QED BY <1>2, <2>2 DEF EventInv, EventTables
<1>10. PICK g \in SUBSET Ids, p \in SUBSET Ids :
           g = got[s] \cup replay /\ p = passedBy[s] \cup (behind \ replay)
  BY <1>7, RowFacts
<1>11. PICK row \in StreamRow : row = [old EXCEPT !.phase = "live", !.sent = last] BY <1>8 DEF StreamRow
<1>12. row.phase = "live" /\ row.from = old.from /\ row.sent = last /\ row.queue = old.queue
  BY <1>11 DEF StreamRow
<1>13. /\ stream'[s] = row /\ cursor'[s] = last /\ got'[s] = g /\ passedBy'[s] = p
       /\ CursorTrue(s)' /\ QueueTrue(s)' => EventInv'
  <2>1. stream' = [stream EXCEPT ![s] = row] BY <1>9, <1>11
  <2>2. got' = [got EXCEPT ![s] = g] /\ passedBy' = [passedBy EXCEPT ![s] = p] BY <1>9, <1>10
  <2> QED BY <1>1, <1>8, <1>9, <2>1, <2>2, OneStreamMoves
<1>14. Committed' = Committed /\ Wanted(s)' = Wanted(s) BY <1>1, SameHistory
\* Everything committed has been had, or passed by.
<1>15. \A i \in Wanted(s) : i \in g \cup p
  <2> SUFFICES ASSUME NEW i \in Wanted(s) PROVE i \in g \cup p OBVIOUS
  <2>1. CASE i > old.from BY <1>4, <1>10, <2>1
  <2>2. CASE ~(i > old.from)
    <3>1. i \in Nat /\ i <= c BY <1>3, <1>7, <2>2 DEF Ids
    <3> QED BY <1>2, <1>3, <1>10, <3>1 DEF CursorTrue, Had
  <2> QED BY <2>1, <2>2
<1>16. \A i \in Wanted(s) : Had(s, i)' BY <1>13, <1>15 DEF Had
<1>17. \A i \in g : i <= last
  <2> SUFFICES ASSUME NEW i \in g PROVE i <= last OBVIOUS
  <2>1. CASE i \in replay BY <1>8, <2>1
  <2>2. CASE i \in got[s]
    <3>1. i <= c /\ i \in Nat BY <1>2, <1>3, <1>10, <2>2 DEF CursorTrue, Ids
    <3> QED BY <1>8, <3>1
  <2> QED BY <1>10, <2>1, <2>2
<1>18. last \in Committed \cup {0} /\ g \subseteq Wanted(s)
  BY <1>2, <1>3, <1>7, <1>8, <1>10, RowFacts DEF CursorTrue
<1>19. CursorTrue(s)'
  BY <1>2, <1>3, <1>8, <1>12, <1>13, <1>14, <1>16, <1>17, <1>18 DEF CursorTrue
<1>20. QueueTrue(s)' BY <1>2, <1>3, <1>12, <1>13, <1>14, <1>16 DEF QueueTrue
<1> QED BY <1>13, <1>19, <1>20

\* The head of a queue goes, had or shown to the client.
LEMMA HeadGone ==
    ASSUME NEW s \in Streams, stream[s] \in StreamRow, QueueTrue(s), stream[s].queue # <<>>,
           UNCHANGED <<log, outbox, flush, feed>>,
           stream'[s].queue = Tail(stream[s].queue), stream'[s].phase = stream[s].phase,
           \A i : Had(s, i) => Had(s, i)',
           NEW h, h = Head(stream[s].queue), stream[s].phase = "live" => Had(s, h)'
    PROVE  QueueTrue(s)'
<1>1. PICK q \in Seq(Ids) : q = stream[s].queue BY DEF StreamRow
<1>2. /\ Len(q) \in Nat /\ Len(Tail(q)) = Len(q) - 1 /\ Head(q) = q[1]
      /\ \A k \in 1..Len(Tail(q)) : Tail(q)[k] = q[k + 1]
  BY <1>1
<1>3. Wanted(s)' = Wanted(s) /\ \A i : Published(i)' = Published(i) BY SameHistory
<1>4. ASSUME stream[s].phase = "live", NEW j, NEW n \in 1..Len(q), Queued(s, j, n)
      PROVE  Had(s, j)' \/ Queued(s, j, n - 1)'
  <2>1. PICK k \in 1..n : q[k] = j BY <1>1, <1>4 DEF Queued
  <2>2. CASE k = 1
    <3>1. j = h BY <1>1, <1>2, <2>1, <2>2
    <3>2. Had(s, h)' BY <1>4
    <3> QED BY <3>1, <3>2
  <2>3. CASE k # 1
    <3>1. k - 1 \in 1..(n - 1) /\ k - 1 \in 1..Len(Tail(q)) /\ (k - 1) + 1 = k BY <1>2, <1>4, <2>1, <2>3
    <3>2. Tail(q)[k - 1] = j BY <1>2, <2>1, <3>1
    <3> QED BY <1>1, <3>1, <3>2 DEF Queued
  <2> QED BY <2>2, <2>3
<1>5. \A k \in 1..Len(Tail(q)) : Tail(q)[k] \in Wanted(s)
  BY <1>1, <1>2 DEF QueueTrue
<1>6. ASSUME stream[s].phase = "live", NEW i \in Wanted(s), Published(i)
      PROVE  Had(s, i)' \/ Queued(s, i, Len(Tail(q)))'
  <2>1. Had(s, i) \/ Queued(s, i, Len(q)) BY <1>1, <1>6 DEF QueueTrue
  <2>2. Len(q) \in 1..Len(q) \/ ~Queued(s, i, Len(q)) BY <1>2 DEF Queued
  <2>3. PICK n : n = Len(q) - 1 /\ n = Len(Tail(q)) BY <1>2
  <2>4. Had(s, i)' \/ Queued(s, i, n)' BY <1>4, <1>6, <2>1, <2>2, <2>3
  <2>5. Tail(q)' = Tail(q) OBVIOUS
  <2> QED BY <2>3, <2>4, <2>5
<1>7. ASSUME stream[s].phase = "live", NEW k \in 1..Len(Tail(q)), NEW j \in Wanted(s), j < Tail(q)[k]
      PROVE  Had(s, j)' \/ Queued(s, j, k - 1)'
  <2>1. k + 1 \in 1..Len(q) /\ k \in 1..Len(q) /\ (k + 1) - 1 = k /\ j < q[k + 1] BY <1>2, <1>7
  <2>2. Had(s, j) \/ Queued(s, j, k) BY <1>1, <1>7, <2>1 DEF QueueTrue
  <2> QED BY <1>4, <1>7, <2>1, <2>2
<1> QED BY <1>1, <1>3, <1>5, <1>6, <1>7 DEF QueueTrue

LEMMA ForwardKeeps ==
    ASSUME EventInv, NEW s \in Streams, Forward(s)
    PROVE  EventInv'
<1>1. UNCHANGED <<log, outbox, lastId, writing, flushing, flush, feed, passedBy>> BY DEF Forward
<1>2. PICK old \in StreamRow, c \in Nat, g \in SUBSET Ids, p \in SUBSET Ids :
          old = stream[s] /\ c = cursor[s] /\ g = got[s] /\ p = passedBy[s]
  BY RowFacts
<1>3. PICK q \in Seq(Ids) : q = old.queue BY DEF StreamRow
<1>4. /\ CursorTrue(s) /\ QueueTrue(s) /\ old.phase = "live" /\ old.sent = c /\ old.from \in Nat
      /\ q # <<>> /\ old.from <= c /\ c \in Committed \cup {0} /\ old.from \in Committed \cup {0}
  BY <1>2, <1>3, RowFacts DEF Forward, CursorTrue, StreamRow
<1>5. /\ Len(q) \in Nat /\ 1 \in 1..Len(q) /\ Head(q) = q[1] /\ Tail(q) \in Seq(Ids) /\ 1 - 1 = 0
  BY <1>4
<1>6. PICK i : i = Head(q) OBVIOUS
<1>7. i \in Wanted(s) /\ i \in Ids /\ i \in Nat /\ i \in Committed
  BY <1>2, <1>3, <1>4, <1>5, <1>6, RowFacts DEF QueueTrue, Ids
\* Nothing wanted and smaller is missing.
<1>8. \A j \in Wanted(s) : j < i => Had(s, j)
  <2>1. \A j \in Wanted(s) : j < q[1] => Had(s, j) \/ Queued(s, j, 1 - 1)
    BY <1>2, <1>3, <1>4, <1>5 DEF QueueTrue
  <2>2. \A j : ~Queued(s, j, 0) BY DEF Queued
  <2> QED BY <1>5, <1>6, <2>1, <2>2
<1>9. Committed' = Committed /\ Wanted(s)' = Wanted(s) BY <1>1, SameHistory
<1>10. passedBy' = [passedBy EXCEPT ![s] = p] BY <1>1, <1>2 DEF EventInv, EventTables
<1>11. CASE Fresh(s, i)
  <2>1. c < i BY <1>2, <1>4, <1>7, <1>11 DEF Fresh
  <2>2. Max({i} \cup {c}) = i
    <3>1. {i} \cup {c} \in SUBSET (0..MaxEvents) BY <1>2, <1>7, RowFacts, EventLimits DEF Ids
    <3>2. PICK m : m = Max({i} \cup {c}) OBVIOUS
    <3>3. m \in {i} \cup {c} /\ \A k \in {i} \cup {c} : k <= m
      BY <3>1, <3>2, EventLimits, GreatestId
    <3>4. (m = i \/ m = c) /\ i <= m BY <3>3
    <3>5. m = i BY <1>7, <2>1, <3>4
    <3> QED BY <3>2, <3>5
  <2>3. PICK new \in SUBSET Ids : new = g \cup {i} BY <1>7
  <2>4. /\ stream' = [stream EXCEPT ![s] = [[old EXCEPT !.queue = Tail(old.queue)] EXCEPT !.sent = i]]
        /\ got' = [got EXCEPT ![s] = got[s] \cup {i}]
        /\ cursor' = [cursor EXCEPT ![s] = Max({i} \cup {cursor[s]})]
    BY <1>2, <1>3, <1>6, <1>11 DEF Forward, Receive
  <2>5. PICK row \in StreamRow : row = [[old EXCEPT !.queue = Tail(old.queue)] EXCEPT !.sent = i]
    BY <1>3, <1>5, <1>7 DEF StreamRow
  <2>6. row.phase = "live" /\ row.from = old.from /\ row.sent = i /\ row.queue = Tail(q)
    BY <1>3, <1>4, <2>5 DEF StreamRow
  <2>7. /\ stream' = [stream EXCEPT ![s] = row] /\ got' = [got EXCEPT ![s] = new]
        /\ cursor' = [cursor EXCEPT ![s] = i]
    BY <1>2, <2>2, <2>3, <2>4, <2>5
  <2>8. /\ stream'[s] = row /\ cursor'[s] = i /\ got'[s] = new /\ passedBy'[s] = p
        /\ CursorTrue(s)' /\ QueueTrue(s)' => EventInv'
    BY <1>1, <1>7, <1>10, <2>7, OneStreamMoves
  <2>9. \A j : Had(s, j) => Had(s, j)' BY <1>2, <2>3, <2>8 DEF Had
  <2>10. Had(s, i)' BY <2>3, <2>8 DEF Had
  <2>11. QueueTrue(s)'
    BY <1>1, <1>2, <1>3, <1>4, <1>6, <2>6, <2>8, <2>9, <2>10, HeadGone
  <2>12. \A j \in Wanted(s) : j <= i => Had(s, j)'
    <3> SUFFICES ASSUME NEW j \in Wanted(s), j <= i PROVE Had(s, j)' OBVIOUS
    <3>1. j \in Nat BY RowFacts DEF Ids
    <3> QED BY <1>7, <1>8, <2>9, <2>10, <3>1
  <2>13. \A j \in new : j <= i
    <3> SUFFICES ASSUME NEW j \in new PROVE j <= i OBVIOUS
    <3>1. j \in Nat BY <2>3 DEF Ids
    <3>2. j = i \/ j <= c BY <1>2, <1>4, <2>3 DEF CursorTrue
    <3> QED BY <1>7, <2>1, <3>1, <3>2
  <2>14. new \subseteq Wanted(s) BY <1>2, <1>4, <1>7, <2>3 DEF CursorTrue
  <2>15. old.from <= i BY <1>4, <1>7, <2>1
  <2>16. CursorTrue(s)'
    BY <1>4, <1>7, <1>9, <2>6, <2>8, <2>12, <2>13, <2>14, <2>15 DEF CursorTrue
  <2> QED BY <2>8, <2>11, <2>16
<1>12. CASE ~Fresh(s, i)
  <2>1. i <= c BY <1>2, <1>4, <1>7, <1>12 DEF Fresh
  <2>2. stream' = [stream EXCEPT ![s] = [old EXCEPT !.queue = Tail(old.queue)]]
        /\ UNCHANGED <<cursor, got>>
    BY <1>2, <1>3, <1>6, <1>12 DEF Forward
  <2>3. PICK row \in StreamRow : row = [old EXCEPT !.queue = Tail(old.queue)]
    BY <1>3, <1>5 DEF StreamRow
  <2>4. row.phase = "live" /\ row.from = old.from /\ row.sent = old.sent /\ row.queue = Tail(q)
    BY <1>3, <1>4, <2>3 DEF StreamRow
  <2>5. /\ stream' = [stream EXCEPT ![s] = row] /\ got' = [got EXCEPT ![s] = g]
        /\ cursor' = [cursor EXCEPT ![s] = c]
    BY <1>2, <2>2, <2>3 DEF EventInv, EventTables
  <2>6. /\ stream'[s] = row /\ cursor'[s] = c /\ got'[s] = g /\ passedBy'[s] = p
        /\ CursorTrue(s)' /\ QueueTrue(s)' => EventInv'
    BY <1>1, <1>10, <2>5, OneStreamMoves
  <2>7. \A j : Had(s, j)' = Had(s, j) BY <1>2, <2>6 DEF Had
  <2>8. Had(s, i)' BY <1>2, <1>4, <1>7, <2>1, <2>7 DEF CursorTrue
  <2>9. QueueTrue(s)'
    BY <1>1, <1>2, <1>3, <1>4, <1>6, <2>4, <2>6, <2>7, <2>8, HeadGone
  <2>10. CursorTrue(s)' BY <1>2, <1>4, <1>9, <2>4, <2>6, <2>7 DEF CursorTrue
  <2> QED BY <2>6, <2>9, <2>10
<1> QED BY <1>11, <1>12

LEMMA DisconnectKeeps ==
    ASSUME EventInv, NEW s \in Streams, Disconnect(s)
    PROVE  EventInv'
<1>1. UNCHANGED <<log, outbox, lastId, writing, flushing, flush, feed, passedBy>> BY DEF Disconnect
<1>2. PICK old \in StreamRow, c \in Nat, g \in SUBSET Ids, p \in SUBSET Ids :
          old = stream[s] /\ c = cursor[s] /\ g = got[s] /\ p = passedBy[s]
  BY RowFacts
<1>3. /\ CursorTrue(s) /\ old.from \in Nat /\ old.from <= c /\ old.from \in Committed \cup {0}
      /\ g \subseteq Wanted(s) /\ \A i \in g : i <= c
  BY <1>2, RowFacts DEF Disconnect, CursorTrue, StreamRow
<1>4. PICK last \in {old.from} \cup {i \in g : i > old.from} :
          /\ cursor' = [cursor EXCEPT ![s] = last]
          /\ got' = [got EXCEPT ![s] = {i \in got[s] : i <= last}]
  BY <1>2 DEF Disconnect
<1>5. last \in Nat /\ last <= c /\ last \in Committed \cup {0}
  BY <1>2, <1>3, <1>4, RowFacts DEF Ids
<1>6. PICK new \in SUBSET Ids : new = {i \in g : i <= last} BY <1>2
<1>7. PICK row \in StreamRow : row = Closed BY EmptySeq DEF Closed, StreamRow
<1>8. row.phase = "closed" /\ row.from = 0 /\ Len(row.queue) = 0 BY <1>7 DEF Closed
<1>9. /\ stream' = [stream EXCEPT ![s] = row] /\ got' = [got EXCEPT ![s] = new]
      /\ passedBy' = [passedBy EXCEPT ![s] = p]
  BY <1>1, <1>2, <1>4, <1>6, <1>7 DEF Disconnect, EventInv, EventTables
<1>10. /\ stream'[s] = row /\ cursor'[s] = last /\ got'[s] = new /\ passedBy'[s] = p
       /\ CursorTrue(s)' /\ QueueTrue(s)' => EventInv'
  BY <1>1, <1>4, <1>5, <1>9, OneStreamMoves
<1>11. Committed' = Committed /\ Wanted(s)' = Wanted(s) BY <1>1, SameHistory
<1>12. \A i \in Wanted(s) : i <= last => Had(s, i)'
  <2> SUFFICES ASSUME NEW i \in Wanted(s), i <= last PROVE i \in new \cup p BY <1>10 DEF Had
  <2>1. i \in Nat BY RowFacts DEF Ids
  <2>2. i <= c BY <1>5, <2>1
  <2>3. i \in g \cup p BY <1>2, <1>3, <2>2 DEF CursorTrue, Had
  <2> QED BY <1>6, <2>3
<1>13. CursorTrue(s)' BY <1>3, <1>5, <1>6, <1>8, <1>10, <1>11, <1>12 DEF CursorTrue
<1>14. QueueTrue(s)' BY <1>8, <1>10 DEF QueueTrue
<1> QED BY <1>10, <1>13, <1>14

LEMMA RedisLosesKeeps ==
    ASSUME EventInv, NEW s \in Streams, RedisLoses(s)
    PROVE  EventInv'
<1>1. UNCHANGED <<log, outbox, lastId, writing, flushing, flush, feed, cursor, got>> BY DEF RedisLoses
<1>2. PICK old \in StreamRow, c \in Nat, g \in SUBSET Ids, p \in SUBSET Ids :
          old = stream[s] /\ c = cursor[s] /\ g = got[s] /\ p = passedBy[s]
  BY RowFacts
<1>3. PICK q \in Seq(Ids) : q = old.queue BY DEF StreamRow
<1>4. CursorTrue(s) /\ QueueTrue(s) /\ q # <<>> BY <1>2, <1>3, RowFacts DEF RedisLoses
<1>5. PICK h : h = Head(q) OBVIOUS
<1>6. h \in Ids /\ Tail(q) \in Seq(Ids) BY <1>4, <1>5
<1>7. PICK new \in SUBSET Ids : new = p \cup ({h} \ g) BY <1>2, <1>6
<1>8. PICK row \in StreamRow : row = [old EXCEPT !.queue = Tail(q)] BY <1>6 DEF StreamRow
<1>9. /\ row.phase = old.phase /\ row.from = old.from /\ row.sent = old.sent /\ row.queue = Tail(q)
  BY <1>8 DEF StreamRow
<1>10. /\ stream' = [stream EXCEPT ![s] = row] /\ passedBy' = [passedBy EXCEPT ![s] = new]
       /\ cursor' = [cursor EXCEPT ![s] = c] /\ got' = [got EXCEPT ![s] = g]
  <2>1. /\ stream' = [stream EXCEPT ![s] = [old EXCEPT !.queue = Tail(q)]]
        /\ passedBy' = [passedBy EXCEPT ![s] = p \cup ({h} \ g)]
    BY <1>2, <1>3, <1>5 DEF RedisLoses, EventInv, EventTables
  <2> QED BY <1>1, <1>2, <1>7, <1>8, <2>1 DEF EventInv, EventTables
<1>11. /\ stream'[s] = row /\ cursor'[s] = c /\ got'[s] = g /\ passedBy'[s] = new
       /\ CursorTrue(s)' /\ QueueTrue(s)' => EventInv'
  BY <1>1, <1>10, OneStreamMoves
<1>12. Committed' = Committed /\ Wanted(s)' = Wanted(s) BY <1>1, SameHistory
<1>13. \A j : Had(s, j) => Had(s, j)' BY <1>2, <1>7, <1>11 DEF Had
<1>14. Had(s, h)' BY <1>7, <1>11 DEF Had
<1>15. QueueTrue(s)'
  BY <1>1, <1>2, <1>3, <1>4, <1>5, <1>9, <1>11, <1>13, <1>14, HeadGone
<1>16. CursorTrue(s)' BY <1>2, <1>4, <1>9, <1>11, <1>12, <1>13 DEF CursorTrue
<1> QED BY <1>11, <1>15, <1>16

-----------------------------------------------------------------------------
LEMMA EventStep == EventInv /\ [EventNext]_eventVars => EventInv'
<1> SUFFICES ASSUME EventInv, [EventNext]_eventVars PROVE EventInv' OBVIOUS
<1>1. ASSUME NEW w \in Writers, EndAppend(w) \/ \E topic \in Topics : AppendEvent(w, topic)
      PROVE  EventInv'
  BY <1>1, EndKeeps, AppendKeeps
<1>2. ASSUME NEW d \in Dispatchers, DispatcherStep(d) \/ FlushFails(d) \/ LoseFlushSession(d)
      PROVE  EventInv'
  BY <1>2, DispatchKeeps, PublishKeeps DEF DispatcherStep
<1>3. ASSUME NEW s \in Streams, StreamStep(s) \/ Disconnect(s) \/ RedisLoses(s) PROVE EventInv'
  BY <1>3, SubscribeKeeps, HistoryKeeps, ForwardKeeps, DisconnectKeeps, RedisLosesKeeps DEF StreamStep
<1>4. CASE UNCHANGED eventVars
  <2>1. UNCHANGED <<log, outbox, lastId, writing, flushing, flush, stream, feed, cursor, got, passedBy>>
    BY <1>4 DEF eventVars
  <2>2. IdsInOrder' /\ \A d \in Dispatchers : BatchTrue(d)'
    BY <2>1, WritersKept, DispatchersKept DEF EventInv
  <2>3. \A s \in Streams : CursorTrue(s)' /\ QueueTrue(s)' BY <2>1, StreamKept DEF EventInv, Published
  <2>4. EventTables' BY <2>1 DEF EventInv, EventTables, Committed
  <2> QED BY <2>2, <2>3, <2>4 DEF EventInv
<1> QED BY <1>1, <1>2, <1>3, <1>4 DEF EventNext

LEMMA EventInvariant == EventSpec => []EventInv
BY EventInitially, EventStep, PTL DEF EventSpec

LEMMA EventTyped == EventInv => EventTypeOK
<1> SUFFICES ASSUME EventInv PROVE EventTypeOK OBVIOUS
<1>1. EventTables /\ IdsInOrder BY DEF EventInv
<1>2. \A i \in Committed : i \in 0..lastId
  BY <1>1, CommittedIds, EventLimits DEF EventTables, IdsInOrder, Ids
<1>3. 0 \in 0..lastId /\ lastId \in 0..lastId BY <1>1, EventLimits DEF EventTables
<1>4. \A w \in Writers : writing[w].id \in 0..lastId
  <2> SUFFICES ASSUME NEW w \in Writers PROVE writing[w].id \in 0..lastId OBVIOUS
  <2>1. CASE writing[w] = NoEvent BY <1>3, <2>1 DEF NoEvent
  <2>2. CASE writing[w] # NoEvent BY <1>1, <1>3, <2>2 DEF IdsInOrder
  <2> QED BY <2>1, <2>2
<1>5. \A d \in Dispatchers : flush[d].sent \subseteq flush[d].batch BY DEF EventInv, BatchTrue
<1>6. \A s \in Streams : /\ stream[s].phase \in {"closed", "subscribed", "live"}
                         /\ got[s] \subseteq Wanted(s)
                         /\ cursor[s] \in 0..lastId
  BY <1>1, <1>2, <1>3, RowFacts DEF EventInv, CursorTrue, StreamRow
<1> QED BY <1>1, <1>4, <1>5, <1>6 DEF EventTypeOK, EventTables, Ids

(* The tables of the feed hold what their columns may hold: an intent is of a committed event, a *)
(* batch publishes its own items, and a client only has events of its feed, up to its cursor.    *)
THEOREM EventTypes == EventSpec => []EventTypeOK
BY EventTyped, EventInvariant, PTL

(* Up to its cursor a client has every event of its feed, but for those outside the replay window *)
(* and those Redis lost; and what the outbox holds no more is with every live client or waits in  *)
(* the queue of its stream.                                                                       *)
THEOREM NothingMissing == EventSpec => []NoHoles
<1>1. ASSUME EventInv PROVE NoHoles
  <2> SUFFICES ASSUME NEW s \in Streams
               PROVE  /\ \A i \in Wanted(s) : i <= cursor[s] => i \in got[s] \cup passedBy[s]
                      /\ stream[s].phase = "live" =>
                             \A i \in Wanted(s) \ outbox :
                                 \/ i \in got[s] \cup passedBy[s]
                                 \/ \E k \in 1..Len(stream[s].queue) : stream[s].queue[k] = i
    BY DEF NoHoles
  <2>1. CursorTrue(s) /\ QueueTrue(s) BY <1>1 DEF EventInv
  <2>2. \A i \in Wanted(s) : i <= cursor[s] => i \in got[s] \cup passedBy[s]
    BY <2>1 DEF CursorTrue, Had
  <2>3. ASSUME stream[s].phase = "live", NEW i \in Wanted(s) \ outbox
        PROVE  \/ i \in got[s] \cup passedBy[s]
               \/ \E k \in 1..Len(stream[s].queue) : stream[s].queue[k] = i
    BY <2>1, <2>3 DEF QueueTrue, Published, Had, Queued
  <2> QED BY <2>2, <2>3
<1> QED BY <1>1, EventInvariant, PTL
=============================================================================
