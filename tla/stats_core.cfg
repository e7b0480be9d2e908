SPECIFICATION Spec
CONSTANTS
    Callers = {c1, c2}
    Timers = {t1, t2}
    NoTimer = NoTimer
    Methods = {"failure", "direct", "relay", "alive"}
    FailuresUntilAssumedOffline = 1
    FailuresUntilBlacklist = 2
    DBOutcomes = {TRUE, FALSE}
SYMMETRY Symmetry
INVARIANT TypeOK
INVARIANT TrackedIsLive
INVARIANT BackoffHasOwner
