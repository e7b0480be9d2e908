--------------------------- MODULE MCSyncNotifier ---------------------------
(***************************************************************************)
(* Kinds are strings, which a configuration gives through this module.     *)
(***************************************************************************)
EXTENDS SyncNotifier

MCKinds == {"pdu", "receipt"}
=============================================================================
