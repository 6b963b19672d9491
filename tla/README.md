# Verification of db-migrator

db-migrator moves the tables of a MySQL or PostgreSQL database into a PostgreSQL or
MySQL one, with checkpoints in SQLite so that an interrupted job can be resumed. This
directory holds TLA+ models of it, the TLC runs that check them on small instances, and
TLAPS proofs of what matters most for instances of any size.

What it says, in short:

- The copy keeps its checkpoints truthful through failing reads, writes, commits,
  checkpoint saves and event logs, through crashes, lost connections and the cancel
  button, **provided that every full batch reaches `commit_interval`** and Ctrl+C does
  not strike. This is checked by TLC and proved for any number of tables, rows and workers.
- Outside that condition rows are lost silently: a table ends `table_completed` with
  rows missing (runs `small_batches`, `ctrl_c`).
- A sync that is always started by `migrate-data` ends with the target equal to the
  source whenever it says `completed` (checked and proved). A sync that is continued by
  `resume` deletes rows it should keep (run `sync_resumes`).
- A read that is resumed by key is whole when the key begins the read order, is unique,
  never NULL, and survives JSON (checked and proved). A unique index in the place of a
  primary key need not be any of this (section 5).
- `retry-failed` misses tables (`retry_misses`), and one failed checkpoint save can make
  a table with a key impossible to resume (`keyed_resume`).
- The full sequence of scan, DDL, copy, foreign keys and indexes destroys nothing on a
  protected target, keeps a truthful audit even where the audit file or a reply fails, and
  leaves its tables filled when it reports success (checked and proved, with the exceptions
  of section 3). It declares none of the foreign keys of the source (section 5).
- The window runs one command at a time, and a command closes what it opened, with two
  exceptions that the model names (checked and proved).
- Column plans, type mapping, validation, schema scans, incremental runs, the write
  confirmations, the table settings and the self-test keep what they promise under the
  conditions of section 3 (checked and proved). One promise of the column plans is not
  kept: columns that are not to be written are (`column_skips`).

## 1. Inventory

Paths are below `src/src/db_migrator/`.

| Component | State | Operations | Properties that make it correct | Model |
|---|---|---|---|---|
| Row copy, `core/dml_migration.py` | per worker: `effective_start_cursor`, `latest_cursor`, `pending_batches`, `uncommitted_rows`; per run: results, pool | `migrate_tables`, `_migrate_one_table`, `_save_committed_batches`, `_preflight_table_result`, `_classify_sync_rows` | no row is skipped, none is doubled without a fault, completed means complete, sync ends equal, every run ends | DmlMigration, SyncMigration |
| Checkpoint store, `core/checkpoint.py` | one SQLite table, of which only the latest row per job and table is read back | five `save_*`, `latest_checkpoint_for_table`, `failed_tables`; `build_resume_plan` and `build_retry_failed_plan` read it | a recorded cursor is never ahead of the target | DmlMigration, SyncMigration |
| Target adapters, `adapters/mysql.py`, `adapters/postgres.py`, `adapters/connection_reuse.py` | one lazily opened writing connection with an open transaction; a reused counting connection; a temporary key table | `write_batch`, `upsert_batch`, sync key calls, `commit`, `close`, `count_rows`, DDL | what a transaction loses or keeps when a statement fails | as the environment of the row copy |
| Source readers, same files, `schema/table_selection.py` | none: each `read_rows` opens a connection | `read_rows` by offset or by key, `read_incremental_rows`, `sample_rows`, `scan_schema` | the order of the rows and the resume predicate agree; a scan shows the schema as it is | KeysetReader, SchemaScan; batches from a cursor in DmlMigration |
| Command service, `application/service.py` | adapters, tunnels and publisher of one command | one method per CLI command | connections end with the command; the full sequence ends with filled tables | FullMigration, CommandSession |
| Events and cancel, `core/events.py`, `gui/main.py` | `cancel_requested`, the event queue | `publish` writes the event log and, in the GUI, raises KeyboardInterrupt | a cancel or a full disk at any event leaves a truthful checkpoint | DmlMigration (RequestCancel, PublishFails), CommandSession |
| DDL execution, `core/ddl_execution.py`, `core/existing_table_policy.py`, `core/overwrite_audit.py`, `core/safety_guard.py` | target tables, audit file | create, drop, truncate per policy | nothing is destroyed without the guard; drops follow foreign keys; the audit is true after a crash | FullMigration |
| Dependency order, `schema/dependency.py` | none | topological order | referenced tables come first, cycles are reported | TableOrder |
| Indexes, foreign keys, `core/indexes.py`, `core/foreign_keys.py` | none | statements one by one | a failure is recorded and the rest goes on | FullMigration |
| Incremental, `core/incremental.py` | the writing connection; the windows are in the configuration | upsert the rows of a watermark window | a completed window is in the target; counted rows are committed rows | Incremental |
| Validation, `core/validation.py` | a reused connection | counts and samples | matched means compared, a faithful copy matches, unless the drivers show it in two forms | Validation |
| Schema model, `schema/column_plan.py`, `schema/type_mapping.py` | none | column plan, type of a new or altered column | a clean plan is carried out; a loss is announced; a created column needs no second change | ColumnPlanning, TypeMapping |
| Tunnels, `connection.py` | two SSH tunnels | enter, exit | what was opened is closed; no detour around a tunnel | CommandSession |
| GUI workers, `gui/main.py` | one thread per command | start, cancel, terminate, completed | a result belongs to the command shown; every operation ends | CommandSession |
| GUI confirmations, `gui/main.py`, `application/safety.py` | what the window has seen of the target | scan, dry run, confirm | what is destroyed was listed and reviewed | WriteGate |
| GUI table settings, `gui/main.py`, `config/` | grid rows, configuration file | edit, save, load | what the grid shows is what the command uses | TableSettings |
| Self-test, `selftest/runner.py` | containers and their volumes | run, keep, kill | success is earned by this run; nothing is left behind | SelfTest |
| Reports, manual export, CLI parsing, registry | none beyond one call | formatting, file output, look-ups | | not modelled, see section 7 |

How they meet. The service builds an execution plan from a fresh scan of source and
target, opens the adapters and calls `migrate_tables`. All tables are preflighted first.
With `parallel_table_count` 1 the tables then go one by one over **one** target connection
and so over one transaction; otherwise a pool gives each table a worker with a connection
of its own, closed when the worker returns. A worker reads a batch, writes it, and when
enough rows are uncommitted it commits and saves one checkpoint per pending batch. Each
save and each outcome publishes an event, and publishing can fail or raise the GUI's
cancel. There is no rollback anywhere: what becomes of a transaction is decided by the
next commit on its connection or by the connection's end.

The hard parts are therefore the orders in which write, commit, checkpoint and event can
fail, the two `except` clauses with different ideas of the cursor, code behind the `try`
block that no handler covers, and commands that trust what the previous ones recorded.
`PROJECT.json` lists each such hazard with its line and the properties that watch it.

## 2. Modules

| Module | What it is |
|---|---|
| `DmlMigration` | the copy of several tables for `skip`, `append`, `truncate_reload` and `overwrite`: commands, workers, transactions, checkpoints, faults |
| `ResumableCopy` | what a checkpointed copy promises: rows only arrive, claims never pass rows, a finished table is complete and left alone |
| `MCDmlMigration` | instances for TLC; the refinement mapping to `ResumableCopy` is in `DmlMigration` (`Promise`) |
| `SyncMigration` | the `sync` policy for one table: upserts, noted keys, the final delete, repeated over a source that changes |
| `MCSyncMigration` | its instances for TLC |
| `TableOrder` | the dependency order of creations and drops, as recursive functions |
| `FullMigration`, `MCFullMigration` | apply-ddl, guard, audit, the copy in one step per table, foreign keys, indexes, and the full sequence |
| `CommandSession` | the window's worker thread and, inside it, every service call with tunnels, adapters and events |
| `KeysetReader` | order, resume predicate and cursor of one interrupted read |
| `Incremental` | incremental runs over a source that keeps changing |
| `WriteGate` | the confirmations before a write |
| `ColumnPlanning`, `MCColumnPlanning` | the column plan of one table, the DDL and the row made from it |
| `TypeMapping` | the type of a column over several hops between the two servers |
| `Validation` | counts and samples of one table, with lost connections, renamed columns and what the drivers return |
| `SchemaScan` | the catalog queries of a scan, with DDL of other clients in between |
| `SelfTest` | self-tests one after another on the same Docker project |
| `TableSettings` | grid, dialog and configuration file of the table settings |
| `MCServices` | instances for TLC of all modules from `CommandSession` on, except `MCFullMigration` |

| Proof module | Theorems |
|---|---|
| `TableOrderProofs` | lemmas on finite sets, ranks, orders and recursion over sets, and that the order of drops is a sequence of the tables |
| `DmlMigrationProofs` | `TypeCorrect`, `ResumeNeverSkips`, `CompletedIsCopied` |
| `DmlPromiseProofs` | `ProgressKept`, `CompletedLeftAlone`, `PromiseKept` (the refinement), `NothingTwice`, `CopiesArePaidFor`, `RerunSkipsCompleted` |
| `SyncMigrationProofs` | `SyncTypeCorrect`, `CompletedSyncIsMirror`, `SyncMixesNoRow`, `SyncDeletesOnlyMissing`, `SyncSavesMirroredBatches` |
| `FullMigrationProofs` | `TypesAreKept`, `ProtectionHolds`, `ResumeStartsBehindItsRows`, `AuditIsTrue`, `SuccessIsTrue` |
| `CommandProofs` | WriteGate: `ConfirmedOverwrites`, `ReviewedDestruction`; TableSettings: `SettingsAreUsed`; SelfTest: `SelfTestIsHonest`; CommandSession: `SessionTypeCorrect`, `OnlyOneWorker`, `NoDetour`, `NothingStaysOpen` |
| `ReadingProofs` | Incremental: `IncTypes`, `LostRowsAreReported`, `CompletedWindowsHold`; Validation: `RetriesSuffice`, `MatchedIsMatched`, `FaithfulCopiesMatch`; SchemaScan: `QuietScansTellTheTruth`; KeysetReader: `ResumedReadsAreWhole` |
| `PlanningProofs` | ColumnPlanning: `CleanPlansAreCarriedOut`; TypeMapping: `SilentConversionsAreLossless`, `CreatedColumnsSettle` |

`FullMigration` sees the copy of a table as one step that stops at any row, and
`DmlMigration` and `SyncMigration` are its inside; `DmlMigration` takes a read to be whole
when it is resumed, and `KeysetReader` says when it is. `CommandSession` sees a command as
one body, and `FullMigration`, `Incremental` and the others are its inside.

### DmlMigration

A table is its rows `1 .. RowCount[t]` in read order and a cursor is the number of rows
before it. This stands for offset and keyset cursors alike as long as the source does not
change during a job and the key follows the read order; where the code fails to ensure
the latter is the subject of KeysetReader. Pending batches always form the
interval from `base` to `latest`, so the two ends replace the list.

| Variable | Code |
|---|---|
| `copies` | committed rows of the target, counted, because a table without a key takes a row twice |
| `open`, `broken` | rows in the connection's transaction; a PostgreSQL connection after a failed statement takes no more writes and loses what is open |
| `ckpt` | the latest checkpoint row: status, cursor, `committed_rows` |
| `pc`, `tail` | the place of `_migrate_one_table_with_target`; `tail` says the `try` block is behind |
| `from`, `base`, `latest`, `saved` | `effective_start_cursor`, start of the first pending batch, `latest_cursor`, progress of `_save_committed_batches` |
| `result`, `running`, `cancel` | `TableMigrationResult.status`, a command in progress, `cancel_requested` |

Actions follow the code from top to bottom: `StartRun` (plan and preflight of all tables),
`StartTable`, `WriteBatch`, `EndOfRows`, `Commit`, `SaveBatch`, `CompleteTable`, the
handlers `SaveFailure`, `HandleError`, `SaveCancelled`, and a failing variant for each
place something can raise: `WriteFails`, `ReadFails`, `CommitFails` (the server may or may
not have committed), `SaveBatchFails`, `PublishFails`, `SaveFailureFails`, `HandlerFails`,
`CompleteTableFails`. `Interrupt` is Ctrl+C: between any two steps, or inside a write or a
commit, where it may cut a MySQL statement short, cancel one of PostgreSQL, or come when
the server has done the work (`InterruptedWrite`, `InterruptedCommit`). `RequestCancel` is the GUI's button, which takes effect at the next event only.
`Crash` ends the process. An exception behind the `try` block is `Escape` with `tail`: it
raises through `migrate_tables` and ends a sequential run at once.

Simplifications: the preflight's own events and count do not fail; only the main thread
of a pool receives Ctrl+C, which is why `Interrupt` belongs to the sequential worker;
the pool takes waiting tables in plan order, at most `ParallelTableCount` at a time.

### SyncMigration

Tables are functions from keys `1 .. KeyCount` to versions of a row. `target` is what is
committed and `view` what the writing connection sees; the comparison of
`_classify_sync_rows` runs on another connection and so reads `target`, while
`delete_rows_not_in_sync_keys` works on `view`. `seen` is the temporary key table, which
lives as long as the connection. Only changed rows count for `commit_interval`, and
batches without a change are neither committed nor recorded at the end, as in the code.
The actions behind the loop (`DeleteRows`, `CommitDelete`, `EndSyncKeys`,
`CompleteTable`) have no handler: `TailFails` raises through. Other tables of a sequential
run appear only as `OtherTableCommits`, the commit that takes along what this one left
open. `SourceChanges` happens between commands only, and nobody else writes the target.

### FullMigration

Tables are numbers in the order of their names, rows have the same key on both sides, and
row 0 stands for what the target had before. `Start` picks a command, a policy and a
selection; `job.todo` is the rest of its plan. `PlanDdl` makes the plan from the target as
it is, asks the guard about it and opens the audit; each kind of item is an action of its
own (`Skip`, `Blocked`, `SyncExisting`, `DropTargetOnly`, `Truncate`, `Create`, and for an
overwrite `OverwriteDrop`, `RecordDrop`, `Recreate`, `RecordCreate`), because drop, record,
create and record can each be the last thing that happens. A statement is `Refused` by a
foreign key, fails for any other reason (`StatementFails`), or is performed and its reply
lost (`ReplyIsLost`); the audit may not open (`AuditFailsToOpen`), may refuse a record, and
may then refuse to be closed as well (`RaiseByFault`, `AuditStaysOpen`). All of this goes
to the one handler of `execute_schema_ddl`.

`PlanCopy` plans again, from the target that apply-ddl has left. `CopyWhole`, `SyncWhole`,
`CopyIsRefused` (a key or a reference), `DeleteIsRefused` (a sync) and `CopyFails` are the
outcomes of a table. What a stopped copy leaves is two numbers: how many rows are in the
target for good, and what the checkpoint says (`StopsBehind`). With `durable`, an unknown
of the configuration and of the keyboard, the second is at most the first; without it the
copy may record rows that it loses, as DmlMigration shows in detail
(`core/dml_migration.py:294` and `:341`). `Succeed` leads the full sequence to its next
stage. `Crash` ends the process anywhere.

### CommandSession

`window` is what the main thread knows (thread, enabled buttons), `worker.at` the place of
the thread, `posted` the queued signal. The operator clicks, cancels (which reaches a
worker only once its publisher exists) and terminates, which is taken to end the thread:
that `wait(3000)` may time out (`gui/main.py:967`) is left out. Inside the worker, `Begin` takes
one of the service's calls, `OpenTunnel` and `TunnelFails` follow the order of
`TunnelSession`, `Body` connects and works, and `Publish` may raise; `CloseAdapters` and
`StopTunnels` are the `finally` clauses. A call may also hang. `routes` is the history of
which database was reached from which call, directly or by tunnel; `causes` says what went
wrong, and `leaked` which tunnels nobody stops any more.

### The other parts

- `KeysetReader`: a table is rows of values, its primary key, its first unique index and
  the columns that are read. `Rows` is every answer the server may give: rows that the
  order does not tell apart come in any order. NULL comes first in MySQL and last in
  PostgreSQL, and nothing is greater than NULL. `Stored`, in KeysetReader, is `json.dumps(default=str)`: a
  value that is not plain text or number returns as a text, somewhere among the values.
- `Incremental`: a row is known by the stamp of its last change. All tables share one
  connection; what a failed table left open is committed by the next one. A commit may
  fail in the loop, right after the batch that reaches the interval, or behind it.
- `WriteGate`: what the window has seen (`options`, `origins`) against what is there
  (`present`), while others create tables and delete reports.
- `ColumnPlanning`: `Renames`, `ConfiguredAdds`, `DefaultAdds` build the plan, whose
  columns have an order (`PlanOrder`); apply-ddl alters, truncates, recreates or creates;
  a sync renames, then changes types, which on MySQL sets NULL or NOT NULL as well, then
  adds, and stops at the first statement that is refused. migrate-data plans again and
  writes one row, in which cells may be NULL. `Transformed` is what `transform_row` gives,
  `Inserted` what the adapters make of it: NULL for what the plan leaves out. A column may
  have a type that refuses the value it is fed with (`mistyped`).
- `TypeMapping`: a column type is its name, length and precision; `CreateColumn` takes it
  to the other server, `SyncColumn` alters an existing column, `MigrateOn` takes the
  result further. `Capacity` and `Span` are the reference: the values a type can hold, and
  how far the hours and dates of either server reach.
- `Validation`: the counts and samples of both sides are asked one by one, another client
  may write in between, the connection may be lost at each. Rows carry the target's names,
  so that a renamed key is not found (`Combined`), and values come in the form the driver
  gives them: parsed JSON or its text, a time or a timedelta, a timestamp with or without
  its offset (`FormsDiffer`).
- `SchemaScan`: the answers are put together by name; `FetchedReferences` is the join of
  PostgreSQL's constraint views as the code has it.
- `SelfTest`: `volumes` outlive a run, so that a run meets what an earlier one left: the
  rows of a keyed table are rejected, those of a table without a key (`audit_events`) are
  doubled. A table may have no rows at all (`large_rows` 0).
- `TableSettings`: every command saves the grid over the file and reads it back. A row has
  mappings and type overrides, which one loop turns into settings of the target's columns.

### MCServices

These parts share no variable, so one specification holds them all: `turn`, chosen in
Init, says which of them runs, and the others stay in one initial state. TLC thus checks
the union of their state spaces and not the product. Each has its own specification
(`SessionSpec`, `IncrementalSpec`, ...) for use on its own and for the proofs.

## 3. Runs

| Run | Bounds | What it shows |
|---|---|---|
| `durable_sequential` | 2 tables (3 and 2 rows, the second with a key), batches of 2, commit every 2, one connection, 3 faults of every kind but Ctrl+C, 2 `migrate-data`, any `resume` and `retry-failed` | `TypeOK`, `CheckpointNeverAhead`, `CompletedMeansCopied`, `DuplicatesArePaidFor`, `CompletedRerunIsSkipped`, `ProgressIsKept`, `CompletedIsFinal`, and the refinement `KeepsPromise` |
| `parallel_isolated` | 2 workers, 3 rows in batches of 1 with a commit every 2, and 1 row; 3 faults among read, write, cancel | `NoDuplicates`: a closed connection takes back exactly what is not recorded; `RunEnds` |
| `resume_completes` | 2 and 1 rows without keys, batches of 1, 2 faults of every kind | `ResumeCompletes`: who keeps resuming gets every table completed |
| `sync_repeats` | 3 keys, 2 versions, any source and any target, batches of 2, commit every 2 changed rows, 1 fault of any kind, 1 change of the source | `TypeOK`, `CompletedSyncMirrors`, `SavedBatchesAreMirrored`, `EveryRowIsOldOrNew`, `RepeatedSyncMirrors` |
| `full_migration` | 2 source tables and a target-only one, 2 rows, two foreign key graphs, five policies, 3 commands among `apply-ddl`, `resume` and the full sequence, 1 fault (a statement, a reply, the audit, the copy or a crash), durable or not, a guard that wants a dry run | `AuditTellsTheTruth`, `SuccessLeavesTables`, `OnlyReloadsUncover`, `ProtectedTargetIsKept` |
| `services` | see below | the properties of the parts, one machine per behaviour |
| `small_batches` (violation) | batches of 1, commit every 2, 1 failing write | `CompletedMeansCopied` fails |
| `ctrl_c` (violation) | 1 Ctrl+C | `CheckpointNeverAhead` fails |
| `retry_misses` (violation) | 1 failing read | `FailedIsRetried` fails |
| `keyed_resume` (violation) | a keyed table, 1 failing checkpoint save | `ResumeCompletes` fails, under fairness |
| `sync_resumes` (violation) | 2 keys, 1 Ctrl+C, `resume` | `DeletesOnlyMissing` fails |
| `column_skips` (violation) | 3 columns, two sources, 31 targets of either server, 34 settings of one or two columns, no or one column of a wrong type, any NULLs, every policy | `UnwrittenColumnsKeepTheirValues` fails |

The run `services`, part by part:

| Part | Bounds | Properties |
|---|---|---|
| CommandSession | 3 operations (both tests, scan-tables, full, incremental), tunnels on both sides, one with a fixed port, 2 troubles | `ResourcesAreReleased`, `TunnelsAreUsed`, `OneWorker`, `OperationsEnd` |
| KeysetReader | 3 rows of 2 columns, batches of 1, 2 interruptions, 28 tables by key, generated, unread and byte columns | `ResumedReadIsWhole` |
| Incremental | 2 tables, 2 rows, batches of 1, commit every 2, 2 stamps, 2 runs, 1 fault | `CompletedWindowsAreCopied`, `OnlyFailedTablesLoseRows` |
| WriteGate | 2 tables, 3 steps, every safety configuration | `OverwritesAreListed`, `DestructionIsReviewed` |
| ColumnPlanning | 3 columns, two sources, 14 targets of either server, 17 settings, no column or one of a wrong type, any NULLs, every policy | `CleanPlansCopy` |
| TypeMapping | every type of both catalogs with lengths 20 and 36, precisions 0 and 3, 2 hops | `LossIsAnnounced`, `CreatedTypesSettle` |
| Validation | up to 2 rows, samples of 1, 2 lost connections (a third ends the last of the three attempts), 1 write by another client, 8 requests: with and without a key, renamed, another sort order, three kinds of values, both directions | `SmallTablesAreCompared`, `FaithfulCopyMatches`, `LostConnectionsAreRetried` |
| SchemaScan | schemas of 2 relations with keys, indexes, references and views, 1 DDL of another client | `QuietScansAreFaithful` |
| SelfTest | a keyed table of no or 2 rows and one of 1 row without a key, 3 runs, 2 faults | `SelfTestKeepsItsWord` |
| TableSettings | 1 table, 2 columns with mappings and type overrides, 2 schemas, 4 steps | `GridIsUsed` |

Why the bounds are enough to be interesting. Two tables are needed for a shared
transaction and for a pool; three rows in batches of two give a full and a short batch;
batches of one below a `commit_interval` of two give several pending batches and a
half-saved list of checkpoints. Three faults allow a fault, a fault in its handler and
another in the run that resumes. `MaxFaults`, `MaxRestarts` and `MaxChanges` are the only
artificial bounds: they stop counters, not behaviours, and `resume` and `retry-failed` are
not limited. In `full_migration` three commands are a first run, a failing one and the one
that repairs it; a target-only table is needed for drops and for references from outside.
In `services` two tables, rows or columns are what it takes to mix two up; 3 operations
let a late result meet the next command and 2 troubles a failure in the handling of one;
2 types in a row show whether a mapping settles; the two interruptions of a read allow a
cursor that has been through JSON twice. Deadlock is checked in the runs of the copy,
where a command can always be started or finished. It is not checked in `full_migration`,
`services` and `column_skips`, where the bounds on commands and steps let the system stop.

Conditions and exceptions. Where the code does less than one would wish, the property
names the case instead of leaving it out of the model:

| Property | Holds only | Because |
|---|---|---|
| `OnlyReloadsUncover` | while every batch is committed before the next is read and nobody presses Ctrl+C | the copy records batches that it loses: `small_batches`, `ctrl_c` |
| `SuccessLeavesTables` | for full runs without a fault of their own, whatever earlier runs met; not with `append` and `compare_only`; not for a table that a stopped run filled in part under `skip`, that a reload emptied behind a checkpoint, or that has foreign keys which refuse rows | the copy reports success with failed tables |
| `AuditTellsTheTruth` | up to the last statement of a run that was cut off | the record comes after the statement and can fail |
| `CleanPlansCopy` | when no NULL goes to a NOT NULL column (`NullsFit`), apply-ddl executes the plan, and no column is contested; a wrong type may refuse a value | the dry run looks at none of these |
| `LossIsAnnounced` | but for `tinyint(1)`, MySQL's times beyond a day, PostgreSQL's dates and timestamps beyond MySQL's | these are AUTO_CONVERT |
| `SmallTablesAreCompared` | for keys that keep their name | of the others one row is compared (`core/validation.py:580`) |
| `FaithfulCopyMatches` | for values that both drivers return in one form | JSON, times, `timestamptz` without `checksum_timezone`, renamed booleans |
| `GridIsUsed` | but for a mapping to a column whose own name has a type override | the override comes later in the loop and takes the column |

Fairness. A worker whose next step is enabled takes it (`WF` of its actions, including a
write or commit that cannot succeed and fails at once), because nothing in the loop waits
for another table; `EndRun` is fair because `migrate_tables` returns when its list or its
futures are done. In CommandSession the window handles its events (`MainLoop`) and the
worker goes on (`WorkerSteps`): Qt's loop and Python's thread. Driver calls are taken to return: the code gives them no timeout that
could be modelled. Faults, cancels and crashes are never fair. `ResumingSpec` and
`RepeatingSpec` add an operator who keeps issuing `resume`, or `migrate-data` for a sync,
which is what the README and the plans tell an operator to do; `ResumeCompletes` and
`RepeatedSyncMirrors` are claims about that operator. A call that hangs is a place of the
worker (`hung`) that no fairness leaves, and `OperationsEnd` leaves it out by name: only
a connection test has a button that ends it.

Every property of a passing run has a mutant in `PROJECT.json`: a definition of the model
replaced by a plausible mistake in the same code (the handler that records `latest_cursor`,
the final commit left out, one adapter handed to all workers, the columns of a composite
key compared one by one, tunnels stopped once instead of always), under which TLC finds the property violated.

## 4. Proofs

Every safety property that a passing run checks is also a theorem, with the conditions of section 3. The theorems hold for
every value of the constants that satisfies the named assumptions of the modules
(`ConstantsAssumption`, `SyncAssumption`, `FullAssumption`, `SessionAssumption`,
`IncrementalAssumption`, `GateAssumption`, `SettingsAssumption`, `SelfTestAssumption`,
`ColumnAssumption`, `TypeAssumption`, `ValidationAssumption`, `ScanAssumption`,
`ReaderAssumption`), which TLC evaluates for the values of the runs. Five groups have a
further hypothesis, and in each case there is a reason in the code:

| Hypothesis | Theorems | Without it |
|---|---|---|
| `Durable`: `CommitInterval <= BatchSize[t]` for all tables, no Ctrl+C | `ResumeNeverSkips`, `CompletedIsCopied`, `CompletedLeftAlone`, `PromiseKept`, `RerunSkipsCompleted` | runs `small_batches` and `ctrl_c` |
| `Trusting`: `checkpoint_resume` is on, or `migrate-data` is not repeated | `CompletedLeftAlone`, `PromiseKept`, `CopiesArePaidFor` | `migrate-data` copies a completed table again, as configured |
| `checkpoint_resume` is on | `RerunSkipsCompleted` | the same |
| `Isolated`: a pool of workers, only `resume` and `retry-failed`, faults of reads, writes and cancels; with cancels `CommitInterval <= BatchSize[t] + 1` | `NothingTwice` | `migrate-data` starts a failed table from its first row, and a commit whose answer is lost, a checkpoint that fails or a shared connection doubles rows too; how many is what `CopiesArePaidFor` bounds |
| `Modes` is at most `migrate-data` | the sync theorems but the type invariant | run `sync_resumes` |

### The copy

`TypeCorrect` and `SyncTypeCorrect`: the type invariants are inductive as they stand. They
carry the order of the cursors and, for sync, the bound on `uncommitted_rows`.

`ResumeNeverSkips` and `CompletedIsCopied` speak of checkpoints and committed rows only,
which no step preserves by itself, so the proof strengthens them to `IInv`:

- `CheckpointInv(t)`: the rows below the recorded cursor are in the target, and a
  `table_completed` cursor is the whole table;
- `WorkerInv(t)`, by place: what lies below `base` is in the target, what lies between
  `base` and `latest` is in the transaction until the commit and in the target from then
  on, and it is at most one batch, so that a failing write has nothing else pending;
- `TakeTurns`: workers that share a connection are active one at a time, so that losing
  the transaction costs no other worker its rows.

Each action then has one lemma: what it does to its own worker, and that it only adds to
the target (`Elsewhere`, `OnlyWorker`) for the others.

`ProgressKept` needs `SavedFollowsFrom` (a worker never saves before the cursor it started
from) and no hypothesis. `CompletedLeftAlone` adds to `IInv` what may be open for a table
at each place (`SettledTable`): a completed table has nothing open, so that the commit of
a later table on the same connection cannot add to it. With this `FinalInv`, `PromiseKept`
takes the refinement step by step: a commit, also one inside a handler, maps to new rows
of `ResumableCopy`, a saved checkpoint to a claim, everything else to a stutter.

`NothingTwice` rests on a frontier (`OnceInv`): nothing of a table is in the target behind
the cursor at which its next attempt will start, and what is open lies behind it.
`CopiesArePaidFor` counts the copies a row has or will have once its connection commits
(`Weight`): at most one per fault where an attempt begins, and one more behind the reader
(`Spending`, `PaidInv`); an attempt that ends without completing the table was ended by a
fault that no earlier one has used up. `RerunSkipsCompleted` needs `RowsBound`:
`committed_rows` never exceeds the rows of the table, which a completed one has in the
target.

For sync, `SyncInv` says that between commands nothing is open (`Resting`), that open rows
come from the source (`OldOrNew`), that rows behind the cursor are still as committed, so
that comparing with committed rows is right (`Untouched`), that rows up to the cursor are
mirrored and noted, and only rows of the source are noted (`MirroredSoFar`), that the
sweep starts behind the last row (`AtItsPlace`), and what holds after it (`Swept`,
`Reported`). `SyncSavesMirroredBatches` adds `PendingInv`: between the two ends of the
pending batches lies a whole number of batches, so that they are saved where they were
cut. `DeletesOnlyMissing`, which `sync_resumes` refutes, is a theorem under its hypothesis
(`SyncDeletesOnlyMissing`).

### The commands

FullMigration. `PlanInv` says what may stand in the rest of a plan: items that fit the
command and, on a protected target, destroy nothing; a half-done item only at its head,
the step that ends the stage only at its end. The order of drops is a recursion over sets
of tables, for which the prover has no induction: `TableOrderProofs` takes a smallest set
on which the claim fails instead. `AuditInv`: the one statement that is performed and not
recorded is the one the head of the plan is about to record, or the one at which the run
was cut off, and a dropped table has been created again unless the head is the rest of its
overwrite. `ExistsInv` and `FilledInv`: every selected table exists, or has its rows, or an
item of the plan will still see to it, as long as the run has met no fault of its own.
`CursorInv` and `RowsInv`: a completed table was read to its end, and what earlier runs
left in a table is what its checkpoint covers, or the run holds it as filled in part. For
`ResumeStartsBehindItsRows` the copy is shown to cover what it records when it is durable.

CommandSession. `SessionInv` says what the thread's place implies for the window
(`WorkerOK`, `WindowOK`), which result may be queued from which place (`PostedOK`,
`WindowKnows`), what is open place by place (`OpenOK`), why something may have leaked
(`LeaksOK`, `TroublesOK`), and that the tunnels a call needs are there when it connects
(`RoutesOK`). Each action has one lemma.

WriteGate. The theorems look back at the last operation. `GateInv` adds that every table
of the target has been seen or has come up since (`Known`), and that a waiting operation
still fits the policy and what the window had seen (`ListedStays`, `UnreviewedStays`).

TableSettings. `SettingsInv`: the rows of the grid hold schemas and columns that exist, so
that an unset value in the file cannot be taken for a chosen one. SelfTest. `CompletedIsOwn`: a table that this run
counts as completed got all of its rows from it, in a table that was empty or has no key;
doubled rows show in the counts, which must agree before the verdict. `VerdictIsLate`:
success is known only in the cleanup.

### Reading and planning

Incremental. `OpenInv`: what is open on the one connection belongs to a failed table or
to the one being read, and then `uncommitted` counts it. `FreshInv`: what was read and not
yet committed is no older than what a completed window, or the one being read, has seen.
`ReadInv`: a row of the window being read is in the target, open, or still to be upserted
(`Underway`).

Validation. `LossInv`: the attempts that were used up and the connections that are broken
are no more than the losses; `AnswersInv`, `VerdictInv` and `ReportInv` carry what an answer said of the table at the
time it was given, up to the report.

SchemaScan. `ToldInv`: what each answered query told is true while nobody has changed
anything, so that what is put together from the answers is.

KeysetReader. `KeysInv` says which two keys a cursor can stand for, `OpenedInv` and
`RecordedInv` that there is an answer of the server of which exactly the first `o` rows
were copied, the rest is unread, and the cursor says `o`, by key or by count. Opening
again by key puts the rows behind the cursor of the new answer after the copied ones of
the old; by count, two sorted answers agree up to the columns that are copied
(`AnswersAgree`).

ColumnPlanning. `PlannedLeft`: to plan a clean plan again over its own result, or over as
much of it as a sync could execute, changes nothing. TypeMapping. `ColumnTypeInv`,
`PolicyInv` and `FitsInv`: the type of every hop has the capacity that its announcements
leave, and the reach of the server it is on.

### What stays with TLC

Liveness (`RunEnds`, `ResumeCompletes`, `RepeatedSyncMirrors`, `OperationsEnd`), which the
prover does not do under fairness. So do the properties of the violation runs, which are
false for the constants of their runs.

Sequences that the models get from a sort or a filter of the library are defined here by
the rank of an element (`Picked`, `Sorted`), because the provers cannot expand
the library's recursion. The names of types in TypeMapping have underscores where SQL has
blanks, for the provers' sake.

## 5. Findings

1. `small_batches`: `save_batch_failure` records the start of the failing batch although
   earlier batches are still uncommitted (`core/dml_migration.py:294`). They are lost when
   the connection closes, and `resume` starts behind them.
2. `ctrl_c`: the KeyboardInterrupt handler records `latest_cursor`, which counts
   uncommitted rows (`core/dml_migration.py:341`).
3. `retry_misses`: a failure with nothing pending records nothing
   (`core/dml_migration.py:366`), and `retry-failed` looks for recorded failures.
4. `keyed_resume`: `checkpoint_failed_after_commit` is overwritten by `failed` at the start
   of the committed batch (`core/dml_migration.py:367`); a key then rejects every resume.
5. `sync_resumes`: a resumed sync notes only the keys of its own run and deletes the rows
   of the earlier one (`core/dml_migration.py:394`).
6. `column_skips`: the adapters write the columns of the target's schema and not of the
   column plan (`adapters/postgres.py:133`), so that a column that is not to be written
   gets NULL instead of its default or its value.

`PROJECT.json` quotes the sentences of the repository's documents and tests these
contradict.

### Divergences without a run

Met while modelling. The models do what the code does, and where a property holds only
outside of these cases it says so.

Commands and DDL
- With `append` no row is ever copied: apply-ddl creates the missing tables, and the plan
  of migrate-data leaves existing ones out (`README.md:275`, `03-Preplan.md:667` against
  `core/existing_table_policy.py:211`, `application/service.py:655`).
- `apply-foreign-keys` and `apply-indexes` plan from the target's own side of an existing
  table (`application/service.py:380`), and after the DDL of the full sequence every table
  exists: none of the source's foreign keys is declared, and the commands report success.
  `README.md:195` and `03-Preplan.md:610` have them applied once the data is there; the
  test (`test_application_service.py:319-361`) has a target without tables.
- `migration.apply_foreign_keys` is read by the self-test and the form only, and the full
  sequence always runs foreign keys (`README.md:195`).
- "실행 기록은 overwrite-audit.sqlite에 남습니다" (`gui/main.py:1774`): a drop whose record
  fails, whose reply is lost, or that is followed by a crash is not in the audit, which
  then may also stay `running`.
- `migrate-data` reports success when tables have failed (`gui/main.py:1007`), as does
  `validate` when they differ; the deletes of a sync are not asked of the safety guard.
- The table list of the window is as old as the last scan (`gui/main.py:1732`): a second
  full run drops what the first has created without the OVERWRITE question. A dry-run
  report of another policy or selection satisfies the gate.

Resumed reads (each is a counterexample of `ResumedReadIsWhole` without its condition)
- Without a primary key, rows are ordered by all columns in their order and resumed behind
  the first unique index (`schema/table_selection.py:10-22`): rows whose key is smaller
  and that come later are never read. The same happens behind a key that is NULL, and with
  a partial unique index.
- A primary key with a generated or unread column is cut to the others, and rows that
  agree in these are skipped; `resume` without a checkpoint keeps the whole key and
  compares with NULL. A key of generated columns only is read by offset without an order.
- Bytes come back from a checkpoint as a text (`core/checkpoint.py:283`): rows are skipped
  or read twice, or PostgreSQL refuses the comparison at every resume.

Columns and types
- Columns are altered for `sync` only: `truncate_reload` and `skip` with a missing column
  fail in the copy, after the truncation. apply-ddl does not look at unresolved columns.
- A column may be planned twice; two missing configured columns with one source are not
  settled; a configured column whose source does not exist is ignored when the target
  lacks it; `skip` on a required column of a new table creates a NOT NULL column that
  nothing fills. A NULL of the source, a configured NULL or an unwritten column meets a
  NOT NULL column of the target in the copy only; the dry run shows the plan as clean.
- A column renamed in the plan is judged by the type of the target column that has the
  source's name (`schema/column_plan.py:190`); a change of type comes before the column
  that it may need is added; MODIFY on MySQL also sets NULL or NOT NULL as in the source.
- A sync compares rows by the columns it has read, under their names in the source
  (`core/dml_migration.py:486`): a target column fed under another name, or by a default,
  may keep another value, against `README.md:276` (the data is brought in line).
- A PostgreSQL array has no type; `tinyint(1)` becomes boolean without a warning and loses
  other values, as MySQL's times beyond a day do on PostgreSQL (`type_mapping.py:314`) and
  PostgreSQL's early and late dates on MySQL; sync alters columns of unknown type, UUIDs, and decimals and times without
  a precision again in every run, and leaves narrower columns of the same kind.

Validation and scans
- Columns that were not written always mismatch; existing tables are compared with
  themselves, which hides drift; rows between the samples are not compared; collations
  order samples differently. The sampled rows have the target's names and are keyed by the
  source's (`core/validation.py:580`): of a table with a renamed key, a supported setting
  (`test_schema_pair_column_plan.py:145-168`), one row is compared, and tables that differ
  are matched, against `README.md:220`. Parsed JSON and its text, a time and a timedelta,
  `timestamptz` without `checksum_timezone`, and booleans of a renamed column never match
  between the two servers (`core/validation.py:333-383`).
- Views are scanned and migrated as tables (`02-prd.md:71`, `02-prd.md:238`). PostgreSQL's
  composite foreign keys come out as products of their columns, and those of one name are
  mixed (`adapters/postgres.py:652`); columns of INCLUDE become key columns. On MySQL a
  column with an expression default counts as generated and is not copied
  (`adapters/mysql.py:113`), and an index with columns and expressions loses the latter.

The window and the self-test
- `scan-tables` scans the target past its tunnel. A cancel before the worker has made its
  publisher is lost. A target tunnel that fails leaves the source tunnel open, and a
  terminated test leaves everything.
- The grid is filled from defaults and never from the file: after a scan the next command
  erases what was written there by hand or saved before. A row at its defaults also drops
  column settings of skip, null and default (`gui/main.py:1341`); rows keep the default
  schema of their scan; cleared mappings have no effect; a hand-written skip stays on a
  column that is mapped later; a column with a type override of its own name takes that name away
  from a column that is mapped there (`gui/main.py:2255`); `compare_only` and `append` load as skip.
- The self-test does not look at the result of its first and last `down -v`, of CREATE
  TABLE and of indexes; a timeout and a failing foreign key escape as other exceptions;
  two self-tests at once share project and directory. Left-over rows of `audit_events` are
  doubled and the table is reported as completed; only the validation notices.

## 6. Plan

Done: the row copy and sync with their promise, the commands around them, the parts of
section 2, and proofs of all their safety properties. Next:

1. An abstract specification of the commands (a plan, its statements, a report) that
   FullMigration implements, with the proof step by step.
2. Action properties of the parts that have invariants only: Incremental (a failed table
   changes no other's result) and TableSettings (a save keeps what the grid does not show).

## 7. Not modelled

The HTML and CSV of reports, the manual export (files that nothing reads back), layout,
styles, previews and remembered paths of the window, argument parsing and console output,
single settings of the configuration, the adapter registry, snapshot files, identifier
quoting, and the packaging check of the self-test: none of them has a state that another
step relies on, or an order to get wrong. The text of SQL statements is modelled by what
they do. Docker, SSH, Qt and the two database servers are the environment.
