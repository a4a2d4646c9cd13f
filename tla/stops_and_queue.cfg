\* Stops, adjustments and queued inputs across three runs, without faults.
CONSTANTS
    p1 = p1
    p2 = p2
    c1 = c1
    s1 = s1
    s2 = s2
    n1 = n1
    n2 = n2
    NoId = NoId
    Free = Free
    Replicas = {p1}
    MaxRuns = 3
    Calls = {c1}
    SendIds = {s1, s2}
    InputIds = {n1, n2}
    MaxPending = 2
    Cancellable = {1, 2}
    FaultKinds = {}
    MaxFaults = 0
SPECIFICATION Spec
INVARIANTS
    TranscriptSettled
    QueueHonest
\* Runs and ids are finite, so a behaviour may simply be over.
CHECK_DEADLOCK FALSE
