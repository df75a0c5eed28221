---------------------------- MODULE MCSyncFanout ----------------------------
(* Values of SyncFanout's constants for TLC. *)
EXTENDS SyncFanout

=============================================================================
