\* Any one fault, stops, and an id used for a message and for an input.
CONSTANTS
    p1 = p1
    p2 = p2
    c1 = c1
    s1 = s1
    s2 = s2
    n1 = n1
    n2 = n2
    NoId = NoId
    Free = Free
    Replicas = {p1, p2}
    MaxRuns = 2
    Calls = {c1}
    SendIds = {s1, n1}
    InputIds = {n1}
    MaxPending = 1
    Cancellable = {1, 2}
    FaultKinds = {"crash", "session", "handoff", "shutdown", "cleanup", "abort"}
    MaxFaults = 1
SPECIFICATION Spec
SYMMETRY Symmetric
INVARIANTS
    TypeOK
    EndedRunsSettled
    OneRunPerSubmission
PROPERTIES
    EndedRunsFrozen
    StopIsFinal
\* Runs and ids are finite, so a behaviour may simply be over.
CHECK_DEADLOCK FALSE
