--------------------------- MODULE SyncMigration ---------------------------
(***************************************************************************)
(* The sync policy of core/dml_migration.py for one table: upsert the rows *)
(* that differ, note the key of every row that was read in a temporary     *)
(* table of the connection, and at the end delete the target rows whose    *)
(* key was not noted.                                                      *)
(*                                                                         *)
(* Keys are 1 .. KeyCount in read order; a table maps each key to the      *)
(* version of its row, Absent if it has none.  A keyset cursor is the last *)
(* key read.  The source changes between runs, not during one, and nobody  *)
(* else writes the target.                                                 *)
(***************************************************************************)
EXTENDS Naturals, FiniteSets

CONSTANTS
  KeyCount,        \* the keys of the table are 1 .. KeyCount
  Versions,        \* the versions a row can have
  Absent,          \* no row
  BatchSize,       \* batch_size, or large_row_batch_size
  CommitInterval,  \* migration.commit_interval, counted in changed rows
  Modes,           \* the commands the operator uses
  Faults,          \* the kinds of fault the environment produces
  MaxFaults,       \* bound: faults over the whole behaviour
  MaxChanges       \* bound: changes of the source over the whole behaviour

Keys == 1 .. KeyCount

ASSUME SyncAssumption ==
  /\ KeyCount \in Nat
  /\ Absent \notin Versions
  /\ BatchSize \in Nat \ {0}
  /\ CommitInterval \in Nat \ {0}
  /\ Modes \subseteq {"migrate", "resume", "retry"}
  /\ Faults \subseteq {"write", "read", "commit", "checkpoint", "publish",
                       "interrupt", "crash"}
  /\ MaxFaults \in Nat
  /\ MaxChanges \in Nat

VARIABLES
  source,       \* the source table
  target,       \* the committed target table
  view,         \* the target table as the writing connection sees it
  seen,         \* the keys in the connection's temporary table
  ckpt,         \* the latest checkpoint of the table
  running,      \* a command is in progress
  pc,           \* where the worker of the table is
  result,       \* the status of the table's TableMigrationResult
  base,         \* start_cursor of the first pending batch
  latest,       \* latest_cursor
  saved,        \* up to where _save_committed_batches has got
  uncommitted,  \* uncommitted_rows: changed rows since the last commit
  tail,         \* the read loop, and with it the try block, is behind
  faults,       \* the faults so far
  changes       \* the changes of the source so far

tables  == <<source, target, view, seen>>
cursors == <<base, latest, saved, uncommitted, tail>>
vars    == <<tables, cursors, ckpt, running, pc, result, faults, changes>>

-----------------------------------------------------------------------------
NoCheckpoint == [status |-> "none", cursor |-> 0]

Record(status, cursor) == ckpt' = [status |-> status, cursor |-> cursor]

Fault(kind) ==
  /\ kind \in Faults
  /\ faults < MaxFaults
  /\ faults' = faults + 1

Goto(label) == pc' = label /\ UNCHANGED result

Leave(status) == pc' = "done" /\ result' = status

(* Leaving takes a last event, which may fail to be written.               *)
Return(status) ==
  \/ Leave(status) /\ UNCHANGED faults
  \/ Leave("raised") /\ Fault("publish")

(* Behind the read loop nothing catches an exception.                      *)
Escape(handler) == IF tail THEN Leave("raised") ELSE Goto(handler)

(* A streaming read from cursor c: the rows behind c, the last key of its  *)
(* first batch, and the rows of the batch that ends there.                 *)
KeysAfter(c) == {k \in Keys : k > c /\ source[k] # Absent}

BatchTo(c, end) == {k \in KeysAfter(c) : k <= end}

BatchEnds(c) ==
  {k \in KeysAfter(c) :
     \/ Cardinality(BatchTo(c, k)) = BatchSize
     \/ Cardinality(BatchTo(c, k)) < BatchSize /\ KeysAfter(k) = {}}

-----------------------------------------------------------------------------
(* What the operator and the rest of the world do.                         *)

SourceChanges ==
  /\ ~running
  /\ changes < MaxChanges
  /\ changes' = changes + 1
  /\ \E k \in Keys, v \in Versions \cup {Absent} : source' = [source EXCEPT ![k] = v]
  /\ UNCHANGED <<target, view, seen, cursors, ckpt, running, pc, result, faults>>

(* The preflight lets a sync table run whatever it recorded before, and    *)
(* the plans of resume and retry-failed apply to it as to any other.       *)
Selected(m) ==
  CASE m = "migrate" -> TRUE
    [] m = "resume"  -> ckpt.status # "table_completed"
    [] m = "retry"   -> ckpt.status = "failed"

(* Mutant: migrate-data goes on from the latest checkpoint.                *)
StartCursorOfCheckpoint(m) == ckpt.cursor

StartCursor(m) == IF m = "migrate" THEN 0 ELSE ckpt.cursor

StartRun(m) ==
  /\ ~running
  /\ m \in Modes
  /\ Selected(m)
  /\ running' = TRUE
  /\ pc' = "begin"
  /\ result' = "none"
  /\ base' = StartCursor(m)
  /\ latest' = base'
  /\ saved' = base'
  /\ uncommitted' = 0
  /\ tail' = FALSE
  /\ UNCHANGED <<tables, ckpt, faults, changes>>

(* The connections are closed: the temporary table and what is not         *)
(* committed are gone.                                                     *)
Idle ==
  /\ running' = FALSE
  /\ pc' = "done"
  /\ view' = target
  /\ seen' = {}
  /\ base' = 0
  /\ latest' = 0
  /\ saved' = 0
  /\ uncommitted' = 0
  /\ tail' = FALSE
  /\ UNCHANGED <<source, target, ckpt, changes>>

EndRun == running /\ pc = "done" /\ Idle /\ UNCHANGED <<result, faults>>

Crash == running /\ Fault("crash") /\ Idle /\ result' = "none"

(* With one worker the tables share a connection: the next table's commit  *)
(* commits what this one left open, unless it raised and ended the run.    *)
OtherTableCommits ==
  /\ running
  /\ pc = "done"
  /\ result # "raised"
  /\ target' = view
  /\ UNCHANGED <<source, view, seen, cursors, ckpt, running, pc, result, faults, changes>>

-----------------------------------------------------------------------------
(* The worker.                                                             *)

BeginSyncKeys ==
  /\ pc = "begin"
  /\ seen' = {}
  /\ Goto("loop")
  /\ UNCHANGED <<source, target, view, cursors, ckpt, running, faults, changes>>

(* Or DML_STARTED, before the try block, cannot be published.              *)
BeginSyncKeysFails ==
  /\ pc = "begin"
  /\ \/ Fault("write") /\ Goto("except")
     \/ Fault("publish") /\ Leave("raised")
  /\ UNCHANGED <<tables, cursors, ckpt, running, changes>>

(* _classify_sync_rows asks a connection of its own, which sees committed  *)
(* rows only.                                                              *)
Changed(rows) == {k \in rows : target[k] # source[k]}

Upserted(rows) == [k \in Keys |-> IF k \in rows THEN source[k] ELSE view[k]]

(* Mutant: only the keys of changed rows are noted.                        *)
SyncBatchNotingChanged ==
  /\ pc = "loop"
  /\ \E end \in BatchEnds(latest) :
       LET rows == BatchTo(latest, end) IN
         /\ view' = Upserted(Changed(rows))
         /\ seen' = seen \cup Changed(rows)
         /\ uncommitted' = uncommitted + Cardinality(Changed(rows))
         /\ latest' = end
  /\ Goto(IF uncommitted' >= CommitInterval THEN "commit" ELSE "loop")
  /\ UNCHANGED <<source, target, base, saved, tail, ckpt, running, faults, changes>>

SyncBatch ==
  /\ pc = "loop"
  /\ \E end \in BatchEnds(latest) :
       LET rows == BatchTo(latest, end) IN
         /\ view' = Upserted(Changed(rows))
         /\ seen' = seen \cup rows
         /\ uncommitted' = uncommitted + Cardinality(Changed(rows))
         /\ latest' = end
  /\ Goto(IF uncommitted' >= CommitInterval THEN "commit" ELSE "loop")
  /\ UNCHANGED <<source, target, base, saved, tail, ckpt, running, faults, changes>>

(* The comparison, the upsert or the noting fails: a MySQL transaction     *)
(* keeps what was done of it, a PostgreSQL one is lost.                    *)
SyncBatchFails ==
  /\ pc = "loop"
  /\ Fault("write")
  /\ \E end \in BatchEnds(latest) :
       \/ \E done \in SUBSET Changed(BatchTo(latest, end)) : view' = Upserted(done)
       \/ view' = target
  /\ Goto("writeFailed")
  /\ UNCHANGED <<source, target, seen, cursors, ckpt, running, changes>>

SaveFailure ==
  /\ pc = "writeFailed"
  /\ \/ /\ Record("failed", latest)
        /\ \/ Leave("failed") /\ UNCHANGED faults
           \/ Goto("except") /\ Fault("publish")
     \/ UNCHANGED ckpt /\ Goto("except") /\ Fault("checkpoint")
  /\ UNCHANGED <<tables, cursors, running, changes>>

ReadFails ==
  /\ pc = "loop"
  /\ Fault("read")
  /\ Goto("except")
  /\ UNCHANGED <<tables, cursors, ckpt, running, changes>>

(* Pending batches without a changed row are not committed, and not        *)
(* recorded either.                                                        *)
EndOfRows ==
  /\ pc = "loop"
  /\ KeysAfter(latest) = {}
  /\ tail' = TRUE
  /\ Goto(IF uncommitted > 0 THEN "commit" ELSE "sweep")
  /\ UNCHANGED <<tables, base, latest, saved, uncommitted, ckpt, running, faults, changes>>

(* Mutant: the commit before the checkpoints is forgotten.                 *)
CommitNothing ==
  /\ pc = "commit"
  /\ saved' = base
  /\ Goto("saving")
  /\ UNCHANGED <<tables, base, latest, uncommitted, tail, ckpt, running, faults, changes>>

Commit ==
  /\ pc = "commit"
  /\ target' = view
  /\ saved' = base
  /\ Goto("saving")
  /\ UNCHANGED <<source, view, seen, base, latest, uncommitted, tail, ckpt, running,
                 faults, changes>>

CommitFails ==
  /\ pc = "commit"
  /\ Fault("commit")
  /\ target' \in {target, view}
  /\ view' = target'
  /\ Escape("except")
  /\ UNCHANGED <<source, seen, cursors, ckpt, running, changes>>

(* Mutant: uncommitted_rows is not set back.                               *)
SaveBatchKeepingCount ==
  /\ pc = "saving"
  /\ \E end \in BatchEnds(saved) : Record("completed", end) /\ saved' = end
  /\ UNCHANGED uncommitted
  /\ IF saved' < latest
     THEN UNCHANGED <<base, pc, result>>
     ELSE base' = latest /\ Goto(IF tail THEN "sweep" ELSE "loop")
  /\ UNCHANGED <<tables, latest, tail, running, faults, changes>>

(* The checkpoints of the pending batches, one after the other.            *)
SaveBatch ==
  /\ pc = "saving"
  /\ \E end \in BatchEnds(saved) : Record("completed", end) /\ saved' = end
  /\ IF saved' < latest
     THEN UNCHANGED <<base, uncommitted, pc, result>>
     ELSE /\ base' = latest
          /\ uncommitted' = 0
          /\ Goto(IF tail THEN "sweep" ELSE "loop")
  /\ UNCHANGED <<tables, latest, tail, running, faults, changes>>

SaveBatchFails ==
  /\ pc = "saving"
  /\ \E end \in BatchEnds(saved) :
       \/ /\ Fault("checkpoint")
          /\ Record("checkpoint_failed_after_commit", end) \/ UNCHANGED ckpt
       \/ Fault("publish") /\ Record("completed", end)
  /\ Escape("except")
  /\ UNCHANGED <<tables, cursors, running, changes>>

-----------------------------------------------------------------------------
(* Behind the loop: delete, commit, drop the temporary table, complete.    *)

DeleteRows ==
  /\ pc = "sweep"
  /\ view' = [k \in Keys |-> IF k \in seen THEN view[k] ELSE Absent]
  /\ Goto("sweepCommit")
  /\ UNCHANGED <<source, target, seen, cursors, ckpt, running, faults, changes>>

CommitDelete ==
  /\ pc = "sweepCommit"
  /\ target' = view
  /\ Goto("endSync")
  /\ UNCHANGED <<source, view, seen, cursors, ckpt, running, faults, changes>>

EndSyncKeys ==
  /\ pc = "endSync"
  /\ seen' = {}
  /\ Goto("complete")
  /\ UNCHANGED <<source, target, view, cursors, ckpt, running, faults, changes>>

TailFails ==
  /\ \/ pc \in {"sweep", "endSync"} /\ Fault("write") /\ UNCHANGED <<target, view>>
     \/ /\ pc = "sweepCommit"
        /\ Fault("commit")
        /\ target' \in {target, view}
        /\ view' = target'
     \/ pc = "complete" /\ Fault("checkpoint") /\ UNCHANGED <<target, view>>
  /\ Leave("raised")
  /\ UNCHANGED <<source, seen, cursors, ckpt, running, changes>>

CompleteTable ==
  /\ pc = "complete"
  /\ Record("table_completed", latest)
  /\ Return("completed")
  /\ UNCHANGED <<tables, cursors, running, changes>>

-----------------------------------------------------------------------------
(* The handlers of the read loop.                                          *)

HandleError ==
  /\ pc = "except"
  /\ \/ /\ IF base < latest THEN Record("failed", base) ELSE UNCHANGED ckpt
        /\ Return("failed")
     \/ base < latest /\ UNCHANGED ckpt /\ Leave("raised") /\ Fault("checkpoint")
  /\ UNCHANGED <<tables, cursors, running, changes>>

SaveCancelled ==
  /\ pc = "interrupted"
  /\ \/ Record("cancelled", latest) /\ Return("cancelled")
     \/ UNCHANGED ckpt /\ Leave("raised") /\ Fault("checkpoint")
  /\ UNCHANGED <<tables, cursors, running, changes>>

(* Ctrl+C or the cancel button; Ctrl+C can cut an upsert short, or a commit *)
(* before or after the server has done it.                                 *)
Interrupt ==
  /\ pc \notin {"done", "except", "interrupted"}
  /\ Fault("interrupt")
  /\ Escape("interrupted")
  /\ \/ UNCHANGED <<target, view>>
     \/ /\ pc = "loop"
        /\ \E end \in BatchEnds(latest) :
             \E done \in SUBSET Changed(BatchTo(latest, end)) : view' = Upserted(done)
        /\ UNCHANGED target
     \/ pc \in {"commit", "sweepCommit"} /\ target' = view /\ UNCHANGED view
  /\ UNCHANGED <<source, seen, cursors, ckpt, running, changes>>

-----------------------------------------------------------------------------
Rows == [Keys -> Versions \cup {Absent}]

(* Sync meets a target that may hold anything.                             *)
Init ==
  /\ source \in Rows
  /\ target \in Rows
  /\ view = target
  /\ seen = {}
  /\ ckpt = NoCheckpoint
  /\ running = FALSE
  /\ pc = "done"
  /\ result = "none"
  /\ base = 0
  /\ latest = 0
  /\ saved = 0
  /\ uncommitted = 0
  /\ tail = FALSE
  /\ faults = 0
  /\ changes = 0

Work ==
  \/ BeginSyncKeys \/ SyncBatch \/ SaveFailure \/ EndOfRows \/ Commit \/ SaveBatch
  \/ DeleteRows \/ CommitDelete \/ EndSyncKeys \/ CompleteTable
  \/ HandleError \/ SaveCancelled

Trouble ==
  \/ BeginSyncKeysFails \/ SyncBatchFails \/ ReadFails \/ CommitFails
  \/ SaveBatchFails \/ TailFails \/ Interrupt \/ Crash

Next ==
  \/ \E m \in Modes : StartRun(m)
  \/ Work
  \/ Trouble
  \/ EndRun
  \/ OtherTableCommits
  \/ SourceChanges

Spec == Init /\ [][Next]_vars

(* The worker runs on, the command ends, and the operator repeats          *)
(* migrate-data.                                                           *)
RepeatingSpec ==
  Spec /\ WF_vars(Work) /\ WF_vars(EndRun) /\ WF_vars(StartRun("migrate"))

-----------------------------------------------------------------------------
(* Properties.                                                             *)

(* The type invariant: tables, keys, cursors and places of their kinds;    *)
(* uncommitted_rows counts rows that are pending, and each at most once.   *)
TypeOK ==
  /\ source \in Rows /\ target \in Rows /\ view \in Rows
  /\ seen \subseteq Keys
  /\ ckpt.status \in {"none", "completed", "failed", "cancelled",
                      "checkpoint_failed_after_commit", "table_completed"}
  /\ ckpt.cursor \in 0 .. KeyCount
  /\ running \in BOOLEAN
  /\ pc \in {"begin", "loop", "writeFailed", "commit", "saving", "sweep",
             "sweepCommit", "endSync", "complete", "except", "interrupted", "done"}
  /\ result \in {"none", "completed", "failed", "cancelled", "raised"}
  /\ base \in 0 .. KeyCount /\ latest \in base .. KeyCount
  /\ saved \in 0 .. KeyCount
  /\ uncommitted \in 0 .. latest - base
  /\ tail \in BOOLEAN
  /\ faults \in 0 .. MaxFaults
  /\ changes \in 0 .. MaxChanges

(* A sync run that reports its table completed has made the target equal   *)
(* to the source, whatever the earlier runs left in it (the upserts, the   *)
(* noted keys and the delete of _migrate_one_table_with_target together).  *)
CompletedSyncMirrors == running /\ result = "completed" => target = source

(* A batch is recorded as completed only when the target has its rows and  *)
(* all those before it as the source has them: the unchanged ones were     *)
(* compared with committed rows, the changed ones are committed together   *)
(* with everything pending (_save_committed_batches after target.commit).  *)
SavedBatchesAreMirrored ==
  [][ckpt' # ckpt /\ ckpt'.status = "completed" =>
       \A k \in 1 .. ckpt'.cursor : source[k] # Absent => target[k] = source[k]]_vars

(* Sync removes from the target only rows the source does not have         *)
(* (delete_rows_not_in_sync_keys).                                         *)
DeletesOnlyMissing ==
  [][\A k \in Keys : target'[k] = Absent /\ target[k] # Absent => source[k] = Absent]_vars

(* No mixed rows: the target holds, for each key, what it held before the  *)
(* run or what the source has, even when a run stops half way.             *)
EveryRowIsOldOrNew ==
  [][\A k \in Keys : target'[k] \in {target[k], source[k]}]_vars

(* An operator who repeats migrate-data gets the target equal to the       *)
(* source once the faults and the changes are over, from any target.       *)
RepeatedSyncMirrors == <>[](target = source)
=============================================================================
