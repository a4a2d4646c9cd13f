\* Two actors of everything that may run twice, and one fault.
CONSTANTS
    a = a
    b = b
    Helpers = {a, b}
    Rollbacks = {"r1", "r2"}
    MaxFileOps = 2
    MaxFileFaults = 1
    Turns = {a, b}
    MaxMemoryOps = 1
    MaxPersonalFaults = 1
    Tabs = {a, b}
    Renewing = {b}
    Mailer = TRUE
    HandoffLimit = 1
    MaxFamilies = 2
    MaxRotations = 2
    MaxRevocations = 1
    MaxRequests = 4
    MaxSessionFaults = 1
    Readers = {a, b}
    MaxGrants = 4
    MaxFlows = 2
    MaxAppFaults = 2
    Publishers = {a, b}
    MaxCodeGrants = 2
    MaxTaskRuns = 2
    MaxHubFaults = 2
SPECIFICATION AccessSpec
INVARIANTS
    AccessTypeOK
    ReceiptsTrue
    RevocationWins
    TabsKeepSession
    GrantsTrue
    PublishedOnce
PROPERTIES
    DelegatedOnce
    NoLostUpdate
    CurrentMemory
\* The environment may rest, and requests, grants and faults are bounded.
CHECK_DEADLOCK FALSE
