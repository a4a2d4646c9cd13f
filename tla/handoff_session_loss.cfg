\* The session of a handler drops before its run is inserted.
CONSTANTS
    p1 = p1
    p2 = p2
    c1 = c1
    s1 = s1
    s2 = s2
    n1 = n1
    n2 = n2
    NoId = NoId
    Free = Free
    Replicas = {p1, p2}
    MaxRuns = 2
    Calls = {c1}
    SendIds = {s1, s2}
    InputIds = {n1}
    MaxPending = 1
    Cancellable = {}
    FaultKinds = {"handoff"}
    MaxFaults = 1
SPECIFICATION Spec
INVARIANTS
    AtMostOneRunning
\* Runs and ids are finite, so a behaviour may simply be over.
CHECK_DEADLOCK FALSE
