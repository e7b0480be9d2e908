SPECIFICATION Spec
CONSTANTS
    PDUs = {p1}
    EDUs = {e1}
    Expirable = {e1}
    Queues = {q1}
    NoQueue = NoQueue
    MaxPDUsPerTransaction = 1
    MaxEDUsPerTransaction = 1
    MaxPDUsInMemory = 9
    MaxEDUsInMemory = 9
    FailuresUntilAssumedOffline = 2
    FailuresUntilBlacklist = 99
    HasRelays = FALSE
    Outcomes = {"direct"}
    ApiOps = {"success", "failure"}
    DBOutcomes = {TRUE}
    Prompt = FALSE
    MaxFailures = 2
    MaxSpawned = 2
    MaxApiCalls = 2
    MaxRestarts = 1
SYMMETRY Symmetry
INVARIANT NothingStranded
CHECK_DEADLOCK FALSE
