---------------------------- MODULE MCBridgeRecords ----------------------------
(* The instance of BridgeRecords that TLC checks. *)
EXTENDS BridgeRecords
=============================================================================
