SPECIFICATION FairSpec
CONSTANTS
    Events <- MCEvents
    Root = "root"
    Prev <- MCPrev
    Inputs <- MCInputs
    Faults = {"consumer", "subscribe", "commit"}
    MaxMessages = 2
    MaxRestarts = 1
INVARIANT TypeOK
INVARIANT OneChain
INVARIANT RoomConsistent
INVARIANT AckedIsHandled
PROPERTY ActiveRoomDrains
CHECK_DEADLOCK FALSE
