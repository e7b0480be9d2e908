SPECIFICATION FairSpec
CONSTANTS
    PDUs = {p1, p2}
    EDUs = {}
    Expirable = {}
    Queues = {q1}
    NoQueue = NoQueue
    MaxPDUsPerTransaction = 1
    MaxEDUsPerTransaction = 1
    MaxPDUsInMemory = 2
    MaxEDUsInMemory = 9
    FailuresUntilAssumedOffline = 2
    FailuresUntilBlacklist = 99
    HasRelays = FALSE
    Outcomes = {"direct", "error", "lost"}
    ApiOps = {}
    DBOutcomes = {TRUE}
    Prompt = TRUE
    MaxFailures = 2
    MaxSpawned = 2
    MaxApiCalls = 0
    MaxRestarts = 1
INVARIANT MemoryBounded
INVARIANT BatchIsPrefix
INVARIANT BackingOffHasTimer
PROPERTY Reliable
PROPERTY Delivery
CHECK_DEADLOCK FALSE
