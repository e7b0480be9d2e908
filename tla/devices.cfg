CONSTANTS
    Users = {u1, u2}
    Devices = {d1, d2}
    Servers = {s1}
    ServerOf <- MCServerOf
    ChanCap = 3
    MaxChanges = 2
    MaxEvents = 1
SPECIFICATION FairSpec
INVARIANTS TypeOK StaleIsTended GapsAreNoticed
PROPERTY StaleRefreshed
CHECK_DEADLOCK FALSE
