SPECIFICATION Spec
CONSTANTS
    PDUs = {p1}
    EDUs = {}
    Expirable = {}
    Queues = {q1, q2}
    NoQueue = NoQueue
    MaxPDUsPerTransaction = 1
    MaxEDUsPerTransaction = 1
    MaxPDUsInMemory = 2
    MaxEDUsInMemory = 2
    FailuresUntilAssumedOffline = 1
    FailuresUntilBlacklist = 2
    HasRelays = TRUE
    Outcomes = {"direct", "relay", "error", "lost"}
    ApiOps = {"alive", "failure"}
    DBOutcomes = {TRUE, FALSE}
    Prompt = FALSE
    MaxFailures = 2
    MaxSpawned = 1
    MaxApiCalls = 2
    MaxRestarts = 0
SYMMETRY Symmetry
INVARIANT TypeOK
INVARIANT NoLoss
CHECK_DEADLOCK FALSE
