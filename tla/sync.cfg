CONSTANTS
    Clients = {c1}
    Kinds <- MCKinds
    MaxItems = 2
    MaxFaults = 2
    MaxGarbage = 1
    UintSize = 3
    ReadErrors = FALSE
SPECIFICATION FairSpec
INVARIANTS TypeOK NothingSkipped NoLostWakeUp
PROPERTY Delivered
