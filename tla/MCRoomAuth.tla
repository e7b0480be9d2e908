----------------------------- MODULE MCRoomAuth ------------------------------
EXTENDS RoomAuth, TLC
CONSTANTS a, b, c
MCUsers == {a, b, c}
MCDomain == [u \in MCUsers |-> IF u = a THEN "s1" ELSE "s2"]
MCVersion == [knock |-> TRUE, restricted |-> TRUE, notifications |-> TRUE, redaction |-> FALSE]
MCSymmetry == Permutations({b, c})
=============================================================================
