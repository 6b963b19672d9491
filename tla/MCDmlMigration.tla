--------------------------- MODULE MCDmlMigration ---------------------------
(* Instances of DmlMigration for TLC.                                      *)
EXTENDS DmlMigration

Two(a, b)   == [t \in Tables |-> IF t = 1 THEN a ELSE b]

Rows32      == Two(3, 2)
Rows31      == Two(3, 1)
Rows21      == Two(2, 1)
Batches22   == Two(2, 2)
Batches11   == Two(1, 1)
Batches12   == Two(1, 2)

(* Everything but Ctrl+C.                                                  *)
Contained   == AllFaults \ {"interrupt"}
=============================================================================
