----------------------------- MODULE Incremental -----------------------------
(***************************************************************************)
(* migrate-incremental: core/incremental.py over the watermarks of the     *)
(* configuration (schema/table_mapping.py), the watermark readers and the  *)
(* upserts of the adapters.  The source keeps changing: a row is known by  *)
(* the stamp of its last change, which is also the value of its watermark  *)
(* column.  The tables share one connection and one transaction, nothing   *)
(* is rolled back, and no watermark is remembered between runs: the        *)
(* operator edits the windows.  Deleted rows are not followed.             *)
(***************************************************************************)
EXTENDS Naturals, Sequences, FiniteSets, TableOrder

CONSTANTS
  IncTables,         \* the selected tables, numbered in the order of the run
  TableName,         \* their names without the schema
  Keyless,           \* tables without a primary key and without a unique index
  IncRows,           \* the rows of each table
  WindowChoices,           \* [from, to] the operator may configure; to = 0: no end
  IncBatchSize, IncCommitInterval,
  MaxStamp,          \* bound: changes of the source
  MaxRuns,           \* bound: runs
  MaxIncFaults       \* bound: faults

NoWindow == [from |-> 0, to |-> 1]

ASSUME IncrementalAssumption ==
  /\ IncTables \subseteq Nat /\ IsFiniteSet(IncTables)
  /\ Keyless \subseteq IncTables
  /\ IncRows \subseteq Nat /\ IsFiniteSet(IncRows)
  /\ DOMAIN TableName = IncTables
  /\ WindowChoices \subseteq [from : Nat, to : Nat] \ {NoWindow}
  /\ IncBatchSize \in Nat \ {0}
  /\ IncCommitInterval \in Nat \ {0}
  /\ MaxStamp \in Nat \ {0} /\ MaxRuns \in Nat /\ MaxIncFaults \in Nat

VARIABLES
  clock,       \* the latest stamp
  stamps,      \* of each source row
  copied,      \* the stamp of each target row, as committed; 0 if it is not there
  opened,      \* the upserts of the open transaction; 0 if none
  connection,  \* "fine", "aborted" (PostgreSQL after an error) or "lost"
  aborts,      \* whether a failing statement aborts the transaction
  windows,     \* the configured window of each table
  run,         \* the run: tables to do, rows read and not yet upserted
  results,     \* the status of each table in the report
  covered,     \* history: the stamps for which a table has been completed
  incRuns, incFaults

incVars == <<clock, stamps, copied, opened, connection, aborts, windows, run, results, covered,
             incRuns, incFaults>>

NoneOpen  == [t \in IncTables |-> [r \in IncRows |-> 0]]
NoRun     == [active |-> FALSE, todo |-> << >>, reading |-> FALSE, rows |-> << >>,
              uncommitted |-> 0, until |-> 0]
NoResults == [t \in IncTables |-> "none"]

-----------------------------------------------------------------------------
(* Watermarks are kept by table name: the last configured table of a name  *)
(* decides for all of them.                                                *)
Namesakes(t) == {u \in IncTables : TableName[u] = TableName[t] /\ windows[u] # NoWindow}

Watermark(t) ==
  IF Namesakes(t) = {} THEN NoWindow
  ELSE windows[CHOOSE u \in Namesakes(t) : \A v \in Namesakes(t) : v <= u]

Within(stamp, window) == window.from <= stamp /\ (window.to # 0 => stamp < window.to)

Earlier(t, r, q) == stamps[t][r] < stamps[t][q] \/ (stamps[t][r] = stamps[t][q] /\ r < q)

(* In the order of the watermark, as of the moment of the query.           *)
RowsWithin(t, window) ==
  LET found == {r \in IncRows : Within(stamps[t][r], window)}
  IN  [i \in 1 .. Cardinality(found) |->
         CHOOSE r \in found : Cardinality({q \in found : Earlier(t, q, r)}) = i - 1]

-----------------------------------------------------------------------------
IncFault == incFaults < MaxIncFaults /\ incFaults' = incFaults + 1

ChangeRow(t, r) ==
  /\ clock < MaxStamp
  /\ clock' = clock + 1
  /\ stamps' = [stamps EXCEPT ![t][r] = clock + 1]
  /\ UNCHANGED <<copied, opened, connection, aborts, windows, run, results, covered, incRuns, incFaults>>

StartIncremental ==
  /\ ~run.active /\ incRuns < MaxRuns
  /\ \E configured \in [IncTables -> WindowChoices \cup {NoWindow}] : windows' = configured
  /\ incRuns' = incRuns + 1
  /\ run' = [NoRun EXCEPT !.active = TRUE, !.todo = Sorted(IncTables)]
  /\ results' = NoResults
  /\ connection' = "fine"
  /\ UNCHANGED <<clock, stamps, copied, opened, aborts, covered, incFaults>>

Doing(t) == run.active /\ run.todo # << >> /\ Head(run.todo) = t

Done(t, status) ==
  /\ run' = [run EXCEPT !.todo = Tail(@), !.reading = FALSE, !.rows = << >>, !.uncommitted = 0]
  /\ results' = [results EXCEPT ![t] = status]

SkipTable(t) ==
  /\ Doing(t) /\ ~run.reading
  /\ Watermark(t) = NoWindow \/ t \in Keyless
  /\ Done(t, "skipped")
  /\ UNCHANGED <<clock, stamps, copied, opened, connection, aborts, windows, covered, incRuns, incFaults>>

QueryRows(t) ==
  /\ Doing(t) /\ ~run.reading
  /\ Watermark(t) # NoWindow /\ t \notin Keyless
  /\ LET found == RowsWithin(t, Watermark(t))
     IN  run' = [run EXCEPT !.reading = TRUE, !.until = clock,
                            !.rows = [i \in 1 .. Len(found) |-> <<found[i], stamps[t][found[i]]>>]]
  /\ UNCHANGED <<clock, stamps, copied, opened, connection, aborts, windows, results, covered, incRuns, incFaults>>

Least(a, b) == IF a < b THEN a ELSE b

BatchLength == Least(IncBatchSize, Len(run.rows))

(* The first n rows of the batch are upserted.                             *)
Upserted(t, n) ==
  [opened EXCEPT ![t] = [r \in IncRows |->
     LET written == {i \in 1 .. n : run.rows[i][1] = r}
     IN  IF written = {} THEN opened[t][r] ELSE run.rows[CHOOSE i \in written : TRUE][2]]]

Committed(open) ==
  [t \in IncTables |-> [r \in IncRows |-> IF open[t][r] = 0 THEN copied[t][r] ELSE open[t][r]]]

Reading(t) == Doing(t) /\ run.reading

(* Commits what the transaction holds, leftovers of failed tables too.     *)
UpsertBatch(t) ==
  /\ Reading(t) /\ run.rows # << >> /\ connection = "fine"
  /\ LET uncommitted == run.uncommitted + BatchLength
         open == Upserted(t, BatchLength)
     IN  /\ run' = [run EXCEPT !.rows = SubSeq(@, BatchLength + 1, Len(@)),
                               !.uncommitted = IF uncommitted >= IncCommitInterval THEN 0 ELSE uncommitted]
         /\ IF uncommitted >= IncCommitInterval
            THEN copied' = Committed(open) /\ opened' = NoneOpen
            ELSE opened' = open /\ UNCHANGED copied
  /\ UNCHANGED <<clock, stamps, connection, aborts, windows, results, covered, incRuns, incFaults>>

Stamps(window, until) == {s \in 0 .. until : Within(s, window)}

(* Mutant: what is left after the last full interval is not committed.     *)
FinishTableUncommitted(t) ==
  /\ Reading(t) /\ run.rows = << >>
  /\ UNCHANGED <<copied, opened>>
  /\ covered' = [covered EXCEPT ![t] = @ \cup Stamps(windows[t], run.until)]
  /\ Done(t, "completed")
  /\ UNCHANGED <<clock, stamps, connection, aborts, windows, incRuns, incFaults>>

FinishTable(t) ==
  /\ Reading(t) /\ run.rows = << >>
  /\ IF run.uncommitted > 0
     THEN connection = "fine" /\ copied' = Committed(opened) /\ opened' = NoneOpen
     ELSE UNCHANGED <<copied, opened>>
  /\ covered' = [covered EXCEPT ![t] = @ \cup Stamps(windows[t], run.until)]
  /\ Done(t, "completed")
  /\ UNCHANGED <<clock, stamps, connection, aborts, windows, incRuns, incFaults>>

(* Mutant: a failing read is taken for the end of the rows.                *)
ReadFailureAsEnd(t) ==
  /\ Reading(t)
  /\ IncFault
  /\ Done(t, "completed")
  /\ UNCHANGED <<clock, stamps, copied, opened, connection, aborts, windows, covered, incRuns>>

ReadFailure(t) ==
  /\ Reading(t)
  /\ IncFault
  /\ Done(t, "failed")
  /\ UNCHANGED <<clock, stamps, copied, opened, connection, aborts, windows, covered, incRuns>>

(* The error of a statement: MySQL keeps what the transaction has, and     *)
(* rows of the batch that went before; PostgreSQL accepts nothing more; a  *)
(* connection that breaks takes the transaction with it.                   *)
UpsertFailure(t) ==
  /\ Reading(t) /\ run.rows # << >> /\ connection = "fine"
  /\ IncFault
  /\ \/ connection' = "lost" /\ opened' = NoneOpen
     \/ aborts /\ connection' = "aborted" /\ opened' = NoneOpen
     \/ ~aborts /\ UNCHANGED connection /\ \E n \in 0 .. BatchLength - 1 : opened' = Upserted(t, n)
  /\ Done(t, "failed")
  /\ UNCHANGED <<clock, stamps, copied, aborts, windows, covered, incRuns>>

(* The connection is never renewed: after an abort or a loss every later   *)
(* table that has rows fails.                                              *)
BrokenUpsert(t) ==
  /\ Reading(t) /\ run.rows # << >> /\ connection # "fine"
  /\ Done(t, "failed")
  /\ UNCHANGED <<clock, stamps, copied, opened, connection, aborts, windows, covered, incRuns, incFaults>>

(* A commit whose answer does not come has been done, or not: that of the  *)
(* rest of a table, and that of the batch that reaches the interval.       *)
CommitIsLost(t, open) ==
  /\ IncFault
  /\ copied' \in {copied, Committed(open)}
  /\ opened' = NoneOpen
  /\ connection' = "lost"
  /\ Done(t, "failed")
  /\ UNCHANGED <<clock, stamps, aborts, windows, covered, incRuns>>

CommitFailure(t) ==
  /\ Reading(t) /\ run.rows = << >> /\ run.uncommitted > 0 /\ connection = "fine"
  /\ CommitIsLost(t, opened)

BatchCommitFailure(t) ==
  /\ Reading(t) /\ run.rows # << >> /\ connection = "fine"
  /\ run.uncommitted + BatchLength >= IncCommitInterval
  /\ CommitIsLost(t, Upserted(t, BatchLength))

(* Closing the connection drops what is open.                              *)
EndIncremental ==
  /\ run.active /\ run.todo = << >>
  /\ run' = NoRun
  /\ opened' = NoneOpen
  /\ UNCHANGED <<clock, stamps, copied, connection, aborts, windows, results, covered, incRuns, incFaults>>

CrashIncremental ==
  /\ run.active
  /\ IncFault
  /\ run' = NoRun
  /\ opened' = NoneOpen
  /\ UNCHANGED <<clock, stamps, copied, connection, aborts, windows, results, covered, incRuns>>

IncrementalInit ==
  /\ clock = 1
  /\ stamps = [t \in IncTables |-> [r \in IncRows |-> 1]]
  /\ copied = NoneOpen /\ opened = NoneOpen
  /\ connection = "fine"
  /\ aborts \in BOOLEAN
  /\ windows = [t \in IncTables |-> NoWindow]
  /\ run = NoRun
  /\ results = NoResults
  /\ covered = [t \in IncTables |-> {}]
  /\ incRuns = 0 /\ incFaults = 0

TableStep(t) ==
  \/ SkipTable(t) \/ QueryRows(t) \/ UpsertBatch(t) \/ FinishTable(t)
  \/ ReadFailure(t) \/ UpsertFailure(t) \/ BrokenUpsert(t)
  \/ CommitFailure(t) \/ BatchCommitFailure(t)

IncrementalNext ==
  \/ \E t \in IncTables, r \in IncRows : ChangeRow(t, r)
  \/ StartIncremental
  \/ \E t \in IncTables : TableStep(t)
  \/ EndIncremental
  \/ CrashIncremental

IncrementalSpec == IncrementalInit /\ [][IncrementalNext]_incVars

-----------------------------------------------------------------------------
IncrementalTypeOK ==
  /\ clock \in 1 .. MaxStamp
  /\ \A t \in IncTables, r \in IncRows :
       /\ stamps[t][r] \in 1 .. clock
       /\ copied[t][r] \in 0 .. clock /\ opened[t][r] \in 0 .. clock
  /\ connection \in {"fine", "aborted", "lost"}
  /\ run.uncommitted \in 0 .. IncCommitInterval - 1
  /\ \A t \in IncTables : results[t] \in {"none", "skipped", "completed", "failed"}

(* A row whose last change lies in a window for which its table has been   *)
(* reported completed is in the target, committed: windows that meet leave *)
(* no gap, whatever other tables, faults and later changes do.  Tables     *)
(* that share their name with another one may get its window instead.      *)
CompletedWindowsAreCopied ==
  \A t \in IncTables :
    (\A u \in IncTables \ {t} : TableName[u] # TableName[t]) =>
      \A r \in IncRows : stamps[t][r] \in covered[t] => copied[t][r] = stamps[t][r]

(* Rows that the close of the connection drops, though the report counts   *)
(* them as upserted, belong to tables reported as failed.                  *)
OnlyFailedTablesLoseRows ==
  run.active /\ run.todo = << >> =>
    \A t \in IncTables : results[t] # "failed" => opened[t] = NoneOpen[t]
=============================================================================
