CONSTANTS
    PDUs = {p1}
    EDUs = {e1}
    Bad = {p1}
    MaxPDUsPerTransaction = 2
    MaxEDUsPerTransaction = 2
    MaxRequests = 3
    MaxFaults = 1
SPECIFICATION FairSpec
INVARIANTS TypeOK OneHandler NothingDropped
PROPERTY Answered
CHECK_DEADLOCK FALSE
