---------------------------- MODULE DmlMigration ----------------------------
(***************************************************************************)
(* The checkpointed row copy of core/dml_migration.py: migrate-data,       *)
(* resume and retry-failed runs of one job against one target database and *)
(* one SQLite checkpoint file, for every policy except sync.               *)
(*                                                                         *)
(* A table is the sequence 1 .. RowCount[t] of its rows in read order, and *)
(* a cursor is the number of rows before it: with a source that does not   *)
(* change during the job and a key that follows the read order, a keyset   *)
(* cursor and an offset cursor both denote that number.  Batches start at  *)
(* the run's cursor and are BatchSize[t] rows long except the last, so the *)
(* pending batches of a worker are given by their two ends, base and       *)
(* latest.                                                                 *)
(***************************************************************************)
EXTENDS Naturals, FiniteSets

CONSTANTS
  TableCount,          \* the job's tables are 1 .. TableCount, in plan order
  RowCount,            \* RowCount[t]: the number of source rows of table t
  Keyed,               \* the tables whose target rejects a second copy of a row
  Unresolved,          \* the tables whose column plan cannot be resolved
  BatchSize,           \* BatchSize[t]: batch_size, or large_row_batch_size
  CommitInterval,      \* migration.commit_interval
  ParallelTableCount,  \* migration.parallel_table_count
  CheckpointResume,    \* migration.checkpoint_resume
  Policy,              \* migration.existing_table_policy
  TargetDbms,          \* "mysql" or "postgresql"
  Modes,               \* the commands the operator uses
  Faults,              \* the kinds of fault the environment produces
  MaxFaults,           \* bound: faults over the whole behaviour
  MaxRestarts          \* bound: migrate-data runs over the whole behaviour

Tables   == 1 .. TableCount
AllModes == {"migrate", "resume", "retry"}

(* interrupt is Ctrl+C, which can strike anywhere; cancel is the cancel    *)
(* button, which acts only when the worker publishes its next event.       *)
AllFaults == {"write", "read", "commit", "checkpoint", "publish", "crash",
              "interrupt", "cancel"}

ASSUME ConstantsAssumption ==
  /\ TableCount \in Nat
  /\ RowCount \in [Tables -> Nat]
  /\ Keyed \subseteq Tables
  /\ Unresolved \subseteq Tables
  /\ BatchSize \in [Tables -> Nat \ {0}]
  /\ CommitInterval \in Nat \ {0}
  /\ ParallelTableCount \in Nat \ {0}
  /\ CheckpointResume \in BOOLEAN
  /\ Policy \in {"skip", "append", "truncate_reload", "overwrite"}
  /\ TargetDbms \in {"mysql", "postgresql"}
  /\ Modes \subseteq AllModes
  /\ Faults \subseteq AllFaults
  /\ MaxFaults \in Nat
  /\ MaxRestarts \in Nat

VARIABLES
  copies,   \* copies[t][r]: the committed copies of row r in target table t
  ckpt,     \* ckpt[t]: the latest checkpoint row of table t
  running,  \* a command is in progress
  cancel,   \* cancel_requested of the running command's publisher
  pc,       \* pc[t]: where the worker of table t is
  result,   \* result[t]: the status of the TableMigrationResult of table t
  from,     \* from[t]: effective_start_cursor
  base,     \* base[t]: where the first pending batch starts
  latest,   \* latest[t]: latest_cursor
  saved,    \* saved[t]: up to where _save_committed_batches has got
  tail,     \* tail[t]: the read loop, and with it the try block, is behind
  open,     \* open[t]: the rows of t in its connection's open transaction
  broken,   \* broken[t]: the connection t writes through takes no more writes
  faults,   \* the faults so far
  restarts  \* the migrate-data runs so far

target  == <<copies, open, broken>>
cursors == <<from, base, latest, saved, tail>>
bounds  == <<faults, restarts>>
vars    == <<target, cursors, bounds, ckpt, running, cancel, pc, result>>

-----------------------------------------------------------------------------
(* Checkpoints: only the latest row of a table is ever read back.          *)

Checkpoint(status, cursor, rows) ==
  [status |-> status, cursor |-> cursor, rows |-> rows]

NoCheckpoint == Checkpoint("none", 0, 0)

Statuses == {"none", "completed", "failed", "cancelled",
             "checkpoint_failed_after_commit", "table_completed"}

Record(t, status, cursor, rows) ==
  ckpt' = [ckpt EXCEPT ![t] = Checkpoint(status, cursor, rows)]

Completed(t) == ckpt[t].status = "table_completed"

-----------------------------------------------------------------------------
(* The target.  With one worker all tables go through one connection and   *)
(* so through one transaction; otherwise each worker has its own.          *)

Shared == ParallelTableCount = 1

(* Mutant: the workers of a pool are handed the one adapter.               *)
PeersOfOneAdapter(t) == Tables

Peers(t) == IF Shared THEN Tables ELSE {t}

Rows(t) == 1 .. RowCount[t]

(* The rows of the target table: the i-th copy of a source row is <<r, i>>. *)
TargetRows(t) == UNION {{r} \X (1 .. copies[t][r]) : r \in Rows(t)}

TargetRowCount(t) == Cardinality(TargetRows(t))

(* COMMIT makes whatever is open on the connection permanent, the rows of  *)
(* the other tables that share it included.                                *)
CommitOpen(t) ==
  /\ copies' = [u \in Tables |-> [r \in Rows(u) |->
                  IF u \in Peers(t) /\ r \in open[u] THEN copies[u][r] + 1
                                                     ELSE copies[u][r]]]
  /\ open' = [u \in Tables |-> IF u \in Peers(t) THEN {} ELSE open[u]]

LoseOpen(t) ==
  /\ open' = [u \in Tables |-> IF u \in Peers(t) THEN {} ELSE open[u]]
  /\ UNCHANGED copies

(* The transaction is aborted, or the connection is gone: what was open is *)
(* lost, and nothing replaces or rolls back the connection.                *)
Break(t) == broken' = [u \in Tables |-> broken[u] \/ u \in Peers(t)]

-----------------------------------------------------------------------------
Fault(kind) ==
  /\ kind \in Faults
  /\ faults < MaxFaults
  /\ faults' = faults + 1
  /\ UNCHANGED restarts

Goto(t, label) ==
  /\ pc' = [pc EXCEPT ![t] = label]
  /\ UNCHANGED result

(* _migrate_one_table returns or raises; a worker's own connection is      *)
(* closed on the way out, which drops what is still open on it.            *)
Leave(t, status) ==
  /\ pc' = [pc EXCEPT ![t] = "done"]
  /\ result' = [result EXCEPT ![t] = status]

CloseOwn(t) ==
  /\ open' = IF Shared THEN open ELSE [open EXCEPT ![t] = {}]
  /\ UNCHANGED <<copies, broken>>

Return(t, status) == Leave(t, status) /\ CloseOwn(t)

(* Returning takes a last event: a pressed cancel button makes it raise,   *)
(* and so does an event log that cannot be written.                        *)
PublishAndReturn(t, status) ==
  \/ Return(t, IF cancel THEN "raised" ELSE status) /\ UNCHANGED bounds
  \/ Return(t, "raised") /\ Fault("publish")

(* An exception in the read loop reaches the function's handlers, a later  *)
(* one leaves migrate_tables.                                              *)
Escape(t, handler) ==
  IF tail[t] THEN Leave(t, "raised") ELSE Goto(t, handler)

EscapeAndClose(t, handler) ==
  IF tail[t] THEN Return(t, "raised")
             ELSE Goto(t, handler) /\ UNCHANGED target

Active(t) == pc[t] \notin {"waiting", "done"}

(* Mutant: an offset advanced by the limit and not by the rows read.       *)
BatchEndByLimit(t, cursor) == cursor + BatchSize[t]

BatchEnd(t, cursor) ==
  IF cursor + BatchSize[t] < RowCount[t] THEN cursor + BatchSize[t]
                                         ELSE RowCount[t]

Between(a, b) == (a + 1) .. b

-----------------------------------------------------------------------------
(* Starting and ending a run.                                              *)

(* Mutant: the resume plan forgets the cancelled tables.                   *)
SelectedButCancelled(t, m) ==
  CASE m = "migrate" -> TRUE
    [] m = "resume"  -> ckpt[t].status \notin {"table_completed", "cancelled"}
    [] m = "retry"   -> ckpt[t].status = "failed"

Selected(t, m) ==
  CASE m = "migrate" -> TRUE
    [] m = "resume"  -> ~Completed(t)
    [] m = "retry"   -> ckpt[t].status = "failed"

(* Mutant: migrate-data does not look for completed tables.                *)
PreflightWithoutCompleted(t, m) ==
  CASE t \in Unresolved -> "blocked"
    [] t \notin Unresolved /\ Policy = "append" /\ ckpt[t] # NoCheckpoint -> "skipped"
    [] OTHER -> "none"

(* Mutant: a target that holds just the recorded rows is taken for stale.  *)
PreflightAtMost(t, m) ==
  CASE t \in Unresolved -> "blocked"
    [] t \notin Unresolved /\ Policy = "append" /\ ckpt[t] # NoCheckpoint -> "skipped"
    [] OTHER ->
         IF m # "migrate" \/ ~Completed(t) \/ ~CheckpointResume \/ TargetRowCount(t) = 0
         THEN "none"
         ELSE IF TargetRowCount(t) <= ckpt[t].rows THEN "blocked" ELSE "skipped"

(* What _preflight_table_result answers; "none" lets the table run.        *)
Preflight(t, m) ==
  CASE t \in Unresolved -> "blocked"
    [] t \notin Unresolved /\ Policy = "append" /\ ckpt[t] # NoCheckpoint -> "skipped"
    [] OTHER ->
         IF m # "migrate" \/ ~Completed(t) \/ ~CheckpointResume \/ TargetRowCount(t) = 0
         THEN "none"
         ELSE IF TargetRowCount(t) < ckpt[t].rows THEN "blocked" ELSE "skipped"

Runs(t, m) == Selected(t, m) /\ Preflight(t, m) = "none"

StartCursor(t, m) == IF Runs(t, m) /\ m # "migrate" THEN ckpt[t].cursor ELSE 0

StartRun(m) ==
  /\ ~running
  /\ m \in Modes
  /\ running' = TRUE
  /\ IF m = "migrate" THEN restarts < MaxRestarts /\ restarts' = restarts + 1
                      ELSE UNCHANGED restarts
  /\ pc' = [t \in Tables |-> IF Runs(t, m) THEN "waiting" ELSE "done"]
  /\ result' = [t \in Tables |-> IF Selected(t, m) THEN Preflight(t, m) ELSE "none"]
  /\ from' = [t \in Tables |-> StartCursor(t, m)]
  /\ base' = from'
  /\ latest' = from'
  /\ saved' = from'
  /\ tail' = [t \in Tables |-> FALSE]
  /\ UNCHANGED <<target, ckpt, cancel, faults>>

(* With one worker an exception ends the loop over the tables; the thread  *)
(* pool works through its queue whatever its other futures raised.         *)
Aborted == Shared /\ \E t \in Tables : result[t] = "raised"

Idle ==
  /\ running' = FALSE
  /\ cancel' = FALSE
  /\ open' = [t \in Tables |-> {}]
  /\ broken' = [t \in Tables |-> FALSE]
  /\ pc' = [t \in Tables |-> "done"]
  /\ from' = [t \in Tables |-> 0]
  /\ base' = from'
  /\ latest' = from'
  /\ saved' = from'
  /\ tail' = [t \in Tables |-> FALSE]
  /\ UNCHANGED <<copies, ckpt, restarts>>

(* The command runtime closes the connections: what is open is lost.       *)
EndRun ==
  /\ running
  /\ \A t \in Tables : ~Active(t)
  /\ Aborted \/ \A t \in Tables : pc[t] = "done"
  /\ Idle
  /\ UNCHANGED <<faults, result>>

Crash ==
  /\ running
  /\ Fault("crash")
  /\ Idle
  /\ result' = [t \in Tables |-> "none"]

RequestCancel ==
  /\ running
  /\ ~cancel
  /\ Fault("cancel")
  /\ cancel' = TRUE
  /\ UNCHANGED <<target, cursors, ckpt, running, pc, result>>

StartTable(t) ==
  /\ running
  /\ pc[t] = "waiting"
  /\ \A u \in Tables : u < t => pc[u] # "waiting"
  /\ Cardinality({u \in Tables : Active(u)}) < ParallelTableCount
  /\ ~Aborted
  /\ \/ cancel /\ Return(t, "raised") /\ UNCHANGED bounds
     \/ ~cancel /\ Goto(t, "loop") /\ UNCHANGED <<target, bounds>>
     \/ Fault("publish") /\ Return(t, "raised")
  /\ UNCHANGED <<cursors, ckpt, running, cancel>>

-----------------------------------------------------------------------------
(* The read loop: one iteration reads a batch and writes it.               *)

Reading(t) == pc[t] = "loop" /\ latest[t] < RowCount[t]

Batch(t) == Between(latest[t], BatchEnd(t, latest[t]))

Fresh(t, rows) == t \in Keyed => \A r \in rows : copies[t][r] = 0

Uncommitted(t) == latest[t] - base[t]

(* Mutant: the batch's next cursor is not taken over.                      *)
WriteBatchWithoutCursor(t) ==
  /\ Reading(t)
  /\ ~broken[t]
  /\ Fresh(t, Batch(t))
  /\ open' = [open EXCEPT ![t] = @ \cup Batch(t)]
  /\ Goto(t, "loop")
  /\ UNCHANGED <<cursors, bounds, ckpt, running, cancel, copies, broken>>

WriteBatch(t) ==
  /\ Reading(t)
  /\ ~broken[t]
  /\ Fresh(t, Batch(t))
  /\ open' = [open EXCEPT ![t] = @ \cup Batch(t)]
  /\ latest' = [latest EXCEPT ![t] = BatchEnd(t, @)]
  /\ Goto(t, IF latest'[t] - base[t] >= CommitInterval THEN "commit" ELSE "loop")
  /\ UNCHANGED <<bounds, ckpt, running, cancel, copies, broken, from, base, saved, tail>>

(* A failing statement leaves its effect up to the failure in a MySQL      *)
(* transaction (executemany sends a large batch in several statements) and *)
(* aborts a PostgreSQL one.                                                *)
PartialWrite(t) ==
  /\ TargetDbms = "mysql"
  /\ ~broken[t]
  /\ \E k \in latest[t] .. BatchEnd(t, latest[t]) - 1 :
       /\ Fresh(t, Between(latest[t], k))
       /\ open' = [open EXCEPT ![t] = @ \cup Between(latest[t], k)]
  /\ UNCHANGED <<copies, broken>>

BreakingWrite(t) == LoseOpen(t) /\ Break(t)

WriteFails(t) ==
  /\ Reading(t)
  /\ \/ Fault("write") /\ (PartialWrite(t) \/ BreakingWrite(t))
     \/ /\ broken[t] \/ ~Fresh(t, Batch(t))
        /\ UNCHANGED bounds
        /\ \/ PartialWrite(t)
           \/ (broken[t] \/ TargetDbms = "postgresql") /\ BreakingWrite(t)
  /\ Goto(t, "writeFailed")
  /\ UNCHANGED <<cursors, ckpt, running, cancel>>

(* Mutant: the failed batch's next cursor is recorded, not its start.      *)
SaveFailureAfterBatch(t) ==
  /\ pc[t] = "writeFailed"
  /\ Record(t, "failed", BatchEnd(t, latest[t]), 0)
  /\ Return(t, "failed")
  /\ UNCHANGED <<cursors, bounds, running, cancel>>

(* The batch that failed is recorded at its own start, whatever is pending *)
(* before it.                                                              *)
SaveFailure(t) ==
  /\ pc[t] = "writeFailed"
  /\ Record(t, "failed", latest[t], 0)
  /\ \/ cancel /\ Goto(t, "interrupted") /\ UNCHANGED <<target, bounds>>
     \/ ~cancel /\ Return(t, "failed") /\ UNCHANGED bounds
     \/ Fault("publish") /\ Goto(t, "except") /\ UNCHANGED target
  /\ UNCHANGED <<cursors, running, cancel>>

SaveFailureFails(t) ==
  /\ pc[t] = "writeFailed"
  /\ Fault("checkpoint")
  /\ Goto(t, "except")
  /\ UNCHANGED <<target, cursors, ckpt, running, cancel>>

ReadFails(t) ==
  /\ pc[t] = "loop"
  /\ Fault("read")
  /\ Goto(t, "except")
  /\ UNCHANGED <<target, cursors, ckpt, running, cancel>>

(* Mutant: nothing commits what is pending when the rows run out.          *)
EndOfRowsWithoutCommit(t) ==
  /\ pc[t] = "loop"
  /\ latest[t] = RowCount[t]
  /\ tail' = [tail EXCEPT ![t] = TRUE]
  /\ Goto(t, "complete")
  /\ UNCHANGED <<target, bounds, ckpt, running, cancel, from, base, latest, saved>>

EndOfRows(t) ==
  /\ pc[t] = "loop"
  /\ latest[t] = RowCount[t]
  /\ tail' = [tail EXCEPT ![t] = TRUE]
  /\ Goto(t, IF Uncommitted(t) > 0 THEN "commit" ELSE "complete")
  /\ UNCHANGED <<target, bounds, ckpt, running, cancel, from, base, latest, saved>>

-----------------------------------------------------------------------------
(* Commit, then one checkpoint and its events per pending batch.           *)

Commit(t) ==
  /\ pc[t] = "commit"
  /\ ~broken[t]
  /\ CommitOpen(t)
  /\ saved' = [saved EXCEPT ![t] = base[t]]
  /\ Goto(t, "saving")
  /\ UNCHANGED <<bounds, ckpt, running, cancel, broken, from, base, latest, tail>>

(* The call fails with the connection: the commit may have been done.      *)
CommitFails(t) ==
  /\ pc[t] = "commit"
  /\ \/ Fault("commit") /\ (CommitOpen(t) \/ LoseOpen(t))
     \/ broken[t] /\ LoseOpen(t) /\ UNCHANGED bounds
  /\ Break(t)
  /\ Escape(t, "except")
  /\ UNCHANGED <<cursors, ckpt, running, cancel>>

SavedNext(t) == BatchEnd(t, saved[t])

RecordSaved(t, status) ==
  Record(t, status, SavedNext(t), SavedNext(t) - saved[t])

SaveBatch(t) ==
  /\ pc[t] = "saving"
  /\ RecordSaved(t, "completed")
  /\ saved' = [saved EXCEPT ![t] = SavedNext(t)]
  /\ \/ /\ cancel
        /\ EscapeAndClose(t, "interrupted")
        /\ UNCHANGED base
     \/ /\ ~cancel
        /\ SavedNext(t) < latest[t]
        /\ UNCHANGED <<pc, result, target, base>>
     \/ /\ ~cancel
        /\ SavedNext(t) = latest[t]
        /\ base' = [base EXCEPT ![t] = latest[t]]
        /\ Goto(t, IF tail[t] THEN "complete" ELSE "loop")
        /\ UNCHANGED target
  /\ UNCHANGED <<bounds, running, cancel, from, latest, tail>>

(* The event after a saved checkpoint cannot be written to the event log.  *)
PublishFails(t) ==
  /\ pc[t] = "saving"
  /\ Fault("publish")
  /\ RecordSaved(t, "completed")
  /\ EscapeAndClose(t, "except")
  /\ UNCHANGED <<cursors, running, cancel>>

SaveBatchFails(t) ==
  /\ pc[t] = "saving"
  /\ Fault("checkpoint")
  /\ RecordSaved(t, "checkpoint_failed_after_commit") \/ UNCHANGED ckpt
  /\ EscapeAndClose(t, IF cancel THEN "interrupted" ELSE "except")
  /\ UNCHANGED <<cursors, running, cancel>>

-----------------------------------------------------------------------------
(* The two handlers of the read loop.                                      *)

(* Mutant: the last pending batch's next cursor instead of the first one's *)
(* start.                                                                  *)
HandleErrorAtLatest(t) ==
  /\ pc[t] = "except"
  /\ IF base[t] < latest[t] THEN Record(t, "failed", latest[t], 0) ELSE UNCHANGED ckpt
  /\ PublishAndReturn(t, "failed")
  /\ UNCHANGED <<cursors, running, cancel>>

(* Mutant: an error sends the table back to its first row.                 *)
HandleErrorAtZero(t) ==
  /\ pc[t] = "except"
  /\ IF base[t] < latest[t] THEN Record(t, "failed", 0, 0) ELSE UNCHANGED ckpt
  /\ PublishAndReturn(t, "failed")
  /\ UNCHANGED <<cursors, running, cancel>>

(* except Exception: back to the first pending batch, if there is one.     *)
HandleError(t) ==
  /\ pc[t] = "except"
  /\ IF base[t] < latest[t] THEN Record(t, "failed", base[t], 0) ELSE UNCHANGED ckpt
  /\ PublishAndReturn(t, "failed")
  /\ UNCHANGED <<cursors, running, cancel>>

(* except KeyboardInterrupt: stop at latest_cursor.                        *)
SaveCancelled(t) ==
  /\ pc[t] = "interrupted"
  /\ Record(t, "cancelled", latest[t], 0)
  /\ PublishAndReturn(t, "cancelled")
  /\ UNCHANGED <<cursors, running, cancel>>

HandlerFails(t) ==
  /\ pc[t] = "interrupted" \/ (pc[t] = "except" /\ base[t] < latest[t])
  /\ Fault("checkpoint")
  /\ Return(t, "raised")
  /\ UNCHANGED <<cursors, ckpt, running, cancel>>

(* Ctrl+C reaches the worker only when it runs in the main thread.  It can *)
(* come between two calls or two statements of a batch, right after a      *)
(* write or a commit that is done, or while a reply is waited for: that    *)
(* closes a MySQL connection and cancels a statement of PostgreSQL.  In    *)
(* one of the two handlers nothing catches it any more.                    *)
InterruptedWrite(t) ==
  \/ PartialWrite(t)
  \/ ~broken[t] /\ Fresh(t, Batch(t)) /\ open' = [open EXCEPT ![t] = @ \cup Batch(t)]
                /\ UNCHANGED <<copies, broken>>
  \/ BreakingWrite(t)

InterruptedCommit(t) ==
  \/ ~broken[t] /\ CommitOpen(t) /\ (UNCHANGED broken \/ Break(t))
  \/ LoseOpen(t) /\ Break(t)

Interrupt(t) ==
  /\ Shared
  /\ Active(t)
  /\ Fault("interrupt")
  /\ \/ UNCHANGED target
     \/ Reading(t) /\ InterruptedWrite(t)
     \/ pc[t] = "commit" /\ InterruptedCommit(t)
  /\ IF pc[t] \in {"except", "interrupted"} THEN Leave(t, "raised")
                                            ELSE Escape(t, "interrupted")
  /\ UNCHANGED <<cursors, ckpt, running, cancel>>

-----------------------------------------------------------------------------
CompleteTable(t) ==
  /\ pc[t] = "complete"
  /\ Record(t, "table_completed", latest[t], latest[t] - from[t])
  /\ PublishAndReturn(t, "completed")
  /\ UNCHANGED <<cursors, running, cancel>>

CompleteTableFails(t) ==
  /\ pc[t] = "complete"
  /\ Fault("checkpoint")
  /\ Return(t, "raised")
  /\ UNCHANGED <<cursors, ckpt, running, cancel>>

-----------------------------------------------------------------------------
Init ==
  /\ copies = [t \in Tables |-> [r \in Rows(t) |-> 0]]
  /\ ckpt = [t \in Tables |-> NoCheckpoint]
  /\ running = FALSE
  /\ cancel = FALSE
  /\ pc = [t \in Tables |-> "done"]
  /\ result = [t \in Tables |-> "none"]
  /\ from = [t \in Tables |-> 0]
  /\ base = from
  /\ latest = from
  /\ saved = from
  /\ tail = [t \in Tables |-> FALSE]
  /\ open = [t \in Tables |-> {}]
  /\ broken = [t \in Tables |-> FALSE]
  /\ faults = 0
  /\ restarts = 0

Work(t) ==
  \/ StartTable(t) \/ WriteBatch(t) \/ EndOfRows(t) \/ Commit(t) \/ SaveBatch(t)
  \/ SaveFailure(t) \/ HandleError(t) \/ SaveCancelled(t) \/ CompleteTable(t)

Trouble(t) ==
  \/ WriteFails(t) \/ ReadFails(t) \/ CommitFails(t) \/ PublishFails(t)
  \/ SaveBatchFails(t) \/ SaveFailureFails(t) \/ HandlerFails(t)
  \/ CompleteTableFails(t) \/ Interrupt(t)

Next ==
  \/ \E m \in AllModes : StartRun(m)
  \/ \E t \in Tables : Work(t) \/ Trouble(t)
  \/ EndRun
  \/ RequestCancel
  \/ Crash

Spec == Init /\ [][Next]_vars

(* The interpreter runs each worker on; a write or commit that cannot      *)
(* succeed fails promptly.  Nothing is assumed about faults or about the   *)
(* operator.                                                               *)
WorkerFairness ==
  /\ \A t \in Tables : WF_vars(Work(t) \/ WriteFails(t) \/ CommitFails(t))
  /\ WF_vars(EndRun)

FairSpec == Spec /\ WorkerFairness

(* ... and the operator keeps running resume.                              *)
ResumingSpec == FairSpec /\ WF_vars(StartRun("resume"))

-----------------------------------------------------------------------------
(* Properties.                                                             *)

Labels == {"waiting", "loop", "writeFailed", "commit", "saving", "except",
           "interrupted", "complete", "done"}

Results == {"none", "completed", "failed", "cancelled", "blocked", "skipped",
            "raised"}

TargetOK ==
  /\ DOMAIN copies = Tables
  /\ \A t \in Tables : copies[t] \in [Rows(t) -> Nat]
  /\ open \in [Tables -> SUBSET Nat]
  /\ \A t \in Tables : open[t] \subseteq Rows(t)
  /\ broken \in [Tables -> BOOLEAN]

CheckpointOK ==
  /\ ckpt \in [Tables -> [status : Statuses, cursor : Nat, rows : Nat]]
  /\ \A t \in Tables : ckpt[t].cursor <= RowCount[t]

CursorsOK ==
  /\ from \in [Tables -> Nat]
  /\ base \in [Tables -> Nat]
  /\ latest \in [Tables -> Nat]
  /\ saved \in [Tables -> Nat]
  /\ tail \in [Tables -> BOOLEAN]
  /\ \A t \in Tables : /\ from[t] <= base[t]
                       /\ base[t] <= latest[t]
                       /\ latest[t] <= RowCount[t]
                       /\ saved[t] <= RowCount[t]

ControlOK ==
  /\ running \in BOOLEAN
  /\ cancel \in BOOLEAN
  /\ pc \in [Tables -> Labels]
  /\ result \in [Tables -> Results]
  /\ faults \in Nat
  /\ restarts \in Nat

(* The type invariant: every variable holds a value of its kind, and no    *)
(* cursor of a worker or of a checkpoint leaves its table.                 *)
TypeOK == TargetOK /\ CheckpointOK /\ CursorsOK /\ ControlOK

InTarget(t, rows) == \A r \in rows : copies[t][r] > 0

(* No checkpoint is ahead of the target: whatever order of failures led to *)
(* it, every row that the latest checkpoint of a table lets resume skip    *)
(* has been committed (build_resume_plan trusts this).                     *)
CheckpointNeverAhead ==
  \A t \in Tables : InTarget(t, Between(0, ckpt[t].cursor))

(* A table whose latest checkpoint says table_completed has every row of   *)
(* the source in the target (save_table_completed, and every later run     *)
(* leaves such a table out).                                               *)
CompletedMeansCopied ==
  \A t \in Tables : Completed(t) => InTarget(t, Rows(t))

(* A row is written again only after a fault: fault-free runs of any       *)
(* commands in any order never write a row twice, and each fault accounts  *)
(* for at most one more copy (the preflight and the resume plan together). *)
DuplicatesArePaidFor ==
  \A t \in Tables : \A r \in Rows(t) : copies[t][r] <= 1 + faults

(* When a worker fails between a write and its checkpoint, closing its own *)
(* connection takes back what it had not committed, so rewriting from the  *)
(* recorded cursor never doubles a row.                                    *)
NoDuplicates ==
  \A t \in Tables : \A r \in Rows(t) : copies[t][r] <= 1

(* A resumed run never records less than it started from: none of the      *)
(* success, failure, cancel and after-commit checkpoints it may write goes *)
(* back before effective_start_cursor.                                     *)
ProgressIsKept ==
  [][\A t \in Tables : ckpt'[t] # ckpt[t] => ckpt'[t].cursor >= from[t]]_vars

(* Nothing adds a row to a completed table any more: not a later command,  *)
(* and not the commit of another table on the shared connection.           *)
CompletedIsFinal ==
  [][\A t \in Tables : Completed(t) => copies'[t] = copies[t]]_vars

(* Between runs, repeating migrate-data is harmless for a completed table: *)
(* the preflight skips it and does not take its committed_rows, which      *)
(* counts the last run only, for a mismatch with the target.               *)
CompletedRerunIsSkipped ==
  \A t \in Tables :
    ~running /\ Completed(t) /\ RowCount[t] > 0 /\ t \notin Unresolved =>
      Preflight(t, "migrate") = "skipped"

(* retry-failed runs the tables that failed: a table whose migration       *)
(* returned failed in the last run is one that build_retry_failed_plan     *)
(* selects.                                                                *)
FailedIsRetried ==
  \A t \in Tables : ~running /\ result[t] = "failed" => Selected(t, "retry")

(* What an observer of the target and of the checkpoint file sees.         *)
Copied  == [t \in Tables |-> {r \in Rows(t) : copies[t][r] > 0}]
Claimed == [t \in Tables |-> ckpt[t].cursor]
Done    == [t \in Tables |-> Completed(t)]

Promise == INSTANCE ResumableCopy
             WITH copied <- Copied, claimed <- Claimed, done <- Done

(* The migration implements the promise: its commits are copies, its       *)
(* checkpoints are claims and its table_completed is the promise's finish. *)
KeepsPromise == Promise!Spec

(* Every run ends: migrate_tables returns or raises.                       *)
RunEnds == running ~> ~running

(* An operator who keeps resuming gets every table completed once the      *)
(* faults are over.                                                        *)
ResumeCompletes == <>[](\A t \in Tables : Completed(t))
=============================================================================
