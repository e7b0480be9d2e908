------------------------ MODULE MCDeviceListUpdater ------------------------
(***************************************************************************)
(* Two users of one server, so that a poke for one serves the other.       *)
(***************************************************************************)
EXTENDS DeviceListUpdater

MCServerOf == [u \in Users |-> CHOOSE s \in Servers : TRUE]
=============================================================================
