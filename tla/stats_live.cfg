SPECIFICATION FairSpec
CONSTANTS
    Callers = {c1, c2}
    Timers = {t1, t2}
    NoTimer = NoTimer
    Methods = {"failure", "alive"}
    FailuresUntilAssumedOffline = 1
    FailuresUntilBlacklist = 2
    DBOutcomes = {TRUE}
INVARIANT BlacklistDurable
INVARIANT OfflineDurable
PROPERTY BlacklistSurvivesRestart
PROPERTY BackoffEnds
