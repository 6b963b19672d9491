--------------------------- MODULE MCFullMigration --------------------------
(* Instances of FullMigration for TLC.                                     *)
EXTENDS FullMigration

SomePolicies == {"skip", "append", "sync", "truncate_reload", "overwrite"}
SomeCommands == {"apply-ddl", "resume", "full"}

(* A child named before its parent and one named after it; in the first   *)
(* graph the parent references the target-only table, which then stays.    *)
ChildFirst  == (1 :> {2}) @@ (2 :> {3}) @@ (3 :> {})
ParentFirst == (1 :> {}) @@ (2 :> {1}) @@ (3 :> {2})
BothGraphs == {ChildFirst, ParentFirst}

All(tables) == [tables |-> tables, all |-> tables = Source]

AllAndOne == {All(Source), [tables |-> {1}, all |-> FALSE]}

Reviewed == [protection |-> TRUE, production |-> TRUE, allow |-> TRUE, requireDryRun |-> TRUE]
ReviewedOnly == {Reviewed}
=============================================================================
