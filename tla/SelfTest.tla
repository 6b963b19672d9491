------------------------------ MODULE SelfTest ------------------------------
(***************************************************************************)
(* self-test run (selftest/runner.py): containers are started, a source    *)
(* is seeded, migrated and compared, and the containers are removed.  Runs *)
(* follow one another on the same Docker project: what a kept, a killed or *)
(* an uncleaned run left is there when the next one starts.                *)
(* Both shipped scenarios use existing_table_policy skip and add foreign   *)
(* keys; one table has as many rows as the operator asks for, none at all  *)
(* if that is 0, and one (audit_events) has no primary key.                *)
(***************************************************************************)
EXTENDS Naturals

CONSTANTS
  TestTables,       \* the tables of the scenario
  Unkeyed,          \* those without a primary key
  Growing,          \* those with large_rows rows
  FixedRows,        \* the rows of each other table
  Sizes,            \* large_rows the operator may ask for
  MaxSelfTests,     \* bound: runs
  MaxTestFaults     \* bound: faults of Docker, of the databases, and kills

ASSUME SelfTestAssumption ==
  /\ Unkeyed \subseteq TestTables /\ Growing \subseteq TestTables
  /\ FixedRows \in Nat /\ Sizes \subseteq Nat
  /\ MaxSelfTests \in Nat /\ MaxTestFaults \in Nat

VARIABLES
  volumes,    \* what the target holds, NoContainers if there is none
  test,       \* the run: where it is, its options and what it has found out
  outcome,    \* of the last run: "success", "error", an "escaped" exception, "killed"
  litter,     \* history: why there may be containers
  selfTests, testFaults

selfTestVars == <<volumes, test, outcome, litter, selfTests, testFaults>>

NotThere     == [there |-> FALSE, rows |-> 0]
NoContainers == [up |-> FALSE, tables |-> [t \in TestTables |-> NotThere], keys |-> FALSE]
NoTest       == [at |-> "idle", size |-> 0, keep |-> FALSE, completed |-> {},
                 copied |-> [t \in TestTables |-> 0], matched |-> FALSE, verdict |-> "none"]

There(t) == volumes.tables[t].there

SeededRows(t) == IF t \in Growing THEN test.size ELSE FixedRows

TestFault == testFaults < MaxTestFaults /\ testFaults' = testFaults + 1

At(place) == test.at = place
To(place) == test' = [test EXCEPT !.at = place]

(* The finally clause follows every end of the try.                        *)
EndTry(verdict) == test' = [test EXCEPT !.at = "cleanup", !.verdict = verdict]

(* Non-zero exit codes are SelfTestErrors; a TimeoutExpired is not caught. *)
CommandFails == TestFault /\ \E verdict \in {"error", "escaped"} : EndTry(verdict)

-----------------------------------------------------------------------------
(* A missing Docker, a bad scenario and a bad option end the run before    *)
(* there is anything to clean up; what is left of earlier runs stays.      *)
StartSelfTest ==
  /\ At("idle") /\ selfTests < MaxSelfTests
  /\ selfTests' = selfTests + 1
  /\ \/ /\ \E size \in Sizes, keep \in BOOLEAN :
             test' = [NoTest EXCEPT !.at = "config", !.size = size, !.keep = keep]
        /\ UNCHANGED <<outcome, testFaults>>
     \/ TestFault /\ outcome' \in {"error", "escaped"} /\ UNCHANGED test
  /\ UNCHANGED <<volumes, litter>>

ComposeConfig ==
  /\ At("config")
  /\ \/ To("clean") /\ UNCHANGED testFaults
     \/ CommandFails
  /\ UNCHANGED <<volumes, outcome, litter, selfTests>>

(* down -v, whose exit code nobody looks at.                               *)
CleanBefore ==
  /\ At("clean")
  /\ \/ volumes' = NoContainers /\ To("up") /\ UNCHANGED testFaults
     \/ TestFault /\ To("up") /\ UNCHANGED volumes
     \/ TestFault /\ EndTry("escaped") /\ volumes' \in {volumes, NoContainers}
  /\ UNCHANGED <<outcome, litter, selfTests>>

(* Containers that are already there are kept with their volumes.          *)
ComposeUp ==
  /\ At("up")
  /\ \/ volumes' = [volumes EXCEPT !.up = TRUE] /\ To("seed") /\ UNCHANGED testFaults
     \/ CommandFails /\ volumes' \in {volumes, [volumes EXCEPT !.up = TRUE]}
  /\ UNCHANGED <<outcome, litter, selfTests>>

(* The schema script drops the source tables first: a source that is       *)
(* seeded has the rows of this run and no others.                          *)
SeedSource ==
  /\ At("seed")
  /\ \/ To("ddl") /\ UNCHANGED testFaults
     \/ CommandFails
  /\ UNCHANGED <<volumes, outcome, litter, selfTests>>

(* The source is scanned, the checkpoint database removed, the dry-run     *)
(* report written; existing tables are skipped, and the result of a        *)
(* CREATE TABLE is not looked at.                                          *)
CreateTargets ==
  /\ At("ddl")
  /\ \/ \E failing \in SUBSET {t \in TestTables : ~There(t)} :
          /\ IF failing = {} THEN UNCHANGED testFaults ELSE TestFault
          /\ volumes' = [volumes EXCEPT !.tables = [t \in TestTables |->
               [there |-> There(t) \/ t \notin failing, rows |-> @[t].rows]]]
          /\ To("copy")
     \/ CommandFails /\ UNCHANGED volumes
  /\ UNCHANGED <<outcome, litter, selfTests>>

(* The rows that are there have the keys of those that are copied first,   *)
(* and fail the first batch; without a key they are doubled.               *)
CanBeCopied(t) ==
  There(t) /\ (t \in Unkeyed \/ volumes.tables[t].rows = 0 \/ SeededRows(t) = 0)

Copyable == {t \in TestTables : CanBeCopied(t)}

Copies ==
  {copied \in [TestTables -> 0 .. test.size + FixedRows] :
     \A t \in TestTables : copied[t] <= IF CanBeCopied(t) THEN SeededRows(t) ELSE 0}

Filled(copied) ==
  volumes' = [volumes EXCEPT !.tables = [t \in TestTables |->
               [there |-> @[t].there, rows |-> @[t].rows + copied[t]]]]

(* A table that fails keeps the batches that are committed; what stops     *)
(* migrate_tables altogether leaves the tables wherever they are.          *)
CopyTables ==
  /\ At("copy")
  /\ \E copied \in Copies :
       /\ Filled(copied)
       /\ \/ \E completed \in SUBSET {t \in Copyable : copied[t] = SeededRows(t)} :
               /\ IF completed = Copyable THEN UNCHANGED testFaults ELSE TestFault
               /\ test' = [test EXCEPT !.at = "keys", !.completed = completed, !.copied = copied]
          \/ CommandFails
  /\ UNCHANGED <<outcome, litter, selfTests>>

(* A key that cannot be added - it is there, a table is not, or rows have  *)
(* no parent - is a RuntimeError, which is not caught, and those before it *)
(* are added.                                                              *)
AddForeignKeys ==
  /\ At("keys")
  /\ \/ /\ ~volumes.keys /\ \A t \in TestTables : There(t)
        /\ volumes' = [volumes EXCEPT !.keys = TRUE]
        /\ To("indexes") /\ UNCHANGED testFaults
     \/ /\ \/ (volumes.keys \/ test.completed # TestTables) /\ EndTry("escaped") /\ UNCHANGED testFaults
           \/ CommandFails
        /\ volumes' \in {volumes, [volumes EXCEPT !.keys = TRUE]}
  /\ UNCHANGED <<outcome, litter, selfTests>>

(* The results of the indexes are written to a report and not looked at.   *)
CreateTestIndexes ==
  /\ At("indexes")
  /\ \/ To("validate") /\ UNCHANGED testFaults
     \/ CommandFails
  /\ UNCHANGED <<volumes, outcome, litter, selfTests>>

(* The counts are compared; what the samples say is Validation's.          *)
SameCounts == \A t \in TestTables : There(t) /\ volumes.tables[t].rows = SeededRows(t)

ValidateTables ==
  /\ At("validate")
  /\ \/ /\ \E matched \in BOOLEAN :
             (matched => SameCounts) /\ test' = [test EXCEPT !.at = "judge", !.matched = matched]
        /\ UNCHANGED testFaults
     \/ CommandFails
  /\ UNCHANGED <<volumes, outcome, litter, selfTests>>

(* Mutant: a matching target is enough.                                    *)
JudgeByValidation ==
  /\ At("judge")
  /\ EndTry(IF test.matched THEN "success" ELSE "error")
  /\ UNCHANGED <<volumes, outcome, litter, selfTests, testFaults>>

Judge ==
  /\ At("judge")
  /\ EndTry(IF test.completed = TestTables /\ test.matched THEN "success" ELSE "error")
  /\ UNCHANGED <<volumes, outcome, litter, selfTests, testFaults>>

(* down -v once more, unless the containers are to be kept.                *)
CleanUp ==
  /\ At("cleanup")
  /\ test' = NoTest
  /\ \/ /\ test.keep /\ outcome' = test.verdict
        /\ litter' = litter \cup {"kept"} /\ UNCHANGED <<volumes, testFaults>>
     \/ /\ ~test.keep /\ outcome' = test.verdict
        /\ volumes' = NoContainers /\ litter' = {} /\ UNCHANGED testFaults
     \/ /\ ~test.keep /\ TestFault /\ outcome' \in {test.verdict, "escaped"}
        /\ volumes' \in {volumes, NoContainers} /\ litter' = litter \cup {"down failed"}
  /\ UNCHANGED selfTests

KillSelfTest ==
  /\ ~At("idle")
  /\ TestFault
  /\ test' = NoTest /\ outcome' = "killed"
  /\ litter' = litter \cup {"killed"}
  /\ UNCHANGED <<volumes, selfTests>>

SelfTestInit ==
  /\ volumes = NoContainers /\ test = NoTest
  /\ outcome = "none" /\ litter = {}
  /\ selfTests = 0 /\ testFaults = 0

SelfTestNext ==
  \/ StartSelfTest \/ ComposeConfig \/ CleanBefore \/ ComposeUp \/ SeedSource \/ CreateTargets
  \/ CopyTables \/ AddForeignKeys \/ CreateTestIndexes \/ ValidateTables \/ Judge \/ CleanUp
  \/ KillSelfTest

SelfTestSpec == SelfTestInit /\ [][SelfTestNext]_selfTestVars

-----------------------------------------------------------------------------
(* A run that is about to report success has itself copied every row that  *)
(* the target holds, as many as it seeded, and added the foreign keys: the *)
(* remains of earlier runs never count, neither those of a keyed table,    *)
(* which are the same rows, nor those of a table without a key, which are  *)
(* doubled by a copy that reports the table completed.                     *)
SuccessIsEarned ==
  test.verdict = "success" =>
    /\ \A t \in TestTables : There(t) /\ volumes.tables[t].rows = test.copied[t]
                            /\ test.copied[t] = SeededRows(t)
    /\ volumes.keys

(* Between runs there are containers only if a run was killed or asked to  *)
(* keep them, or the last command to remove them failed.                   *)
NothingIsLeft == At("idle") /\ litter = {} => volumes = NoContainers

SelfTestKeepsItsWord == SuccessIsEarned /\ NothingIsLeft
=============================================================================
