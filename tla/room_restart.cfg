SPECIFICATION FairSpec
CONSTANTS
    Events <- MCEvents
    Root = "root"
    Prev <- MCPrev
    Inputs <- MCOneInput
    Faults = {}
    MaxMessages = 1
    MaxRestarts = 1
PROPERTY Reprocessed
CHECK_DEADLOCK FALSE
