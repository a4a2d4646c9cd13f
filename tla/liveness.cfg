\* What must happen when users stop runs, in spite of two faults.
CONSTANTS
    p1 = p1
    p2 = p2
    c1 = c1
    s1 = s1
    s2 = s2
    n1 = n1
    n2 = n2
    NoId = NoId
    Free = Free
    Replicas = {p1}
    MaxRuns = 2
    Calls = {c1}
    SendIds = {s1}
    InputIds = {n1}
    MaxPending = 1
    Cancellable = {1, 2}
    FaultKinds = {"crash", "session", "shutdown", "cleanup", "abort"}
    MaxFaults = 2
SPECIFICATION FairSpec
PROPERTIES
    StopTakesEffect
    RunsEnd
    QueueMoves
\* Runs and ids are finite, so a behaviour may simply be over.
CHECK_DEADLOCK FALSE
