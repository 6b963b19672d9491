--------------------------- MODULE MCSyncMigration --------------------------
(* An instance of SyncMigration for TLC: tables over fixed bounds.         *)
EXTENDS SyncMigration

AllFaults == {"write", "read", "commit", "checkpoint", "publish", "interrupt", "crash"}
=============================================================================
