\* A Computer that is put to sleep.
CONSTANTS
    a = a
    b = b
    ta = ta
    k1 = k1
    Workspace = Workspace
    Writers = {a, b}
    Topics = {ta}
    Dispatchers = {a, b}
    Streams = {a}
    ReplayLimit = 2
    BatchLimit = 2
    MaxEvents = 3
    MaxEventFaults = 1
    ApiReplicas = {a, b}
    Monitors = {a}
    MaxMachines = 2
    MaxComputerFaults = 1
    Observers = {a, b}
    Stoppers = {b}
    MaxTaskFaults = 1
    Schedulers = {a, b}
    EventKeys = {k1}
    PendingLimit = 2
    MaxDeliveries = 2
    MaxAutoTime = 2
    MaxAutoOps = 1
    MaxAutoFaults = 1
SPECIFICATION ExecSpec
PROPERTIES
    NoSuspensionInUse
\* The environment may rest, and ids, times and faults are bounded.
CHECK_DEADLOCK FALSE
