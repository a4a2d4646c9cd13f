\* The id of a held input is sent as a message.
CONSTANTS
    p1 = p1
    p2 = p2
    c1 = c1
    s1 = s1
    s2 = s2
    n1 = n1
    n2 = n2
    NoId = NoId
    Free = Free
    Replicas = {p1}
    MaxRuns = 3
    Calls = {c1}
    SendIds = {s1, n1}
    InputIds = {n1}
    MaxPending = 1
    Cancellable = {1}
    FaultKinds = {}
    MaxFaults = 0
SPECIFICATION FairSpec
PROPERTIES
    QueueMoves
\* Runs and ids are finite, so a behaviour may simply be over.
CHECK_DEADLOCK FALSE
