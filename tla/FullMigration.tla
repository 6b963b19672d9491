--------------------------- MODULE FullMigration ---------------------------
(***************************************************************************)
(* The commands that change a target schema and fill it, one at a time:    *)
(* apply-ddl with its execution plan, safety guard, statements and         *)
(* overwrite audit, migrate-data and resume over the plan they build, the  *)
(* foreign key and index commands, and the full sequence of the GUI that   *)
(* chains them.  Each command starts by scanning the target.               *)
(*                                                                         *)
(* Tables are numbers, in the order of their names.  A table has rows      *)
(* 1 .. RowCount in the source, each with a key; row 0 stands for the rows *)
(* the target had before.  Row r of a table references row r of the tables *)
(* its foreign keys name.  The copy of one table is one step that stops at *)
(* any row and records any batch: module DmlMigration has its inside.      *)
(***************************************************************************)
EXTENDS Naturals, Sequences, FiniteSets, TableOrder

CONSTANTS
  Source,      \* the tables of the source, and their names in the target
  TargetOnly,  \* names of tables that only the target may have
  RowCount,    \* the rows of each source table
  Graphs,      \* foreign keys the schemas may have: table -> referenced tables
  Policies,    \* existing_table_policy, edited between commands
  Commands,    \* the commands the operator uses
  Scopes,      \* [tables, all]: --tables, or the whole source
  Guards,      \* [protection, production, allow, requireDryRun] of the config
  MaxCommands, \* bound: commands over the whole behaviour
  MaxFaults    \* bound: faults over the whole behaviour

AllTables == Source \cup TargetOnly
NewRows   == 1 .. RowCount

ASSUME FullAssumption ==
  /\ Source \subseteq Nat /\ TargetOnly \subseteq Nat
  /\ IsFiniteSet(Source) /\ IsFiniteSet(TargetOnly)
  /\ Source \cap TargetOnly = {}
  /\ RowCount \in Nat \ {0}
  /\ Graphs \subseteq [AllTables -> SUBSET AllTables]
  /\ Policies \subseteq {"skip", "append", "sync", "truncate_reload", "overwrite",
                         "compare_only"}
  /\ Commands \subseteq {"apply-ddl", "migrate-data", "resume", "apply-foreign-keys",
                         "apply-indexes", "full"}
  /\ Guards \subseteq [protection : BOOLEAN, production : BOOLEAN,
                       allow : BOOLEAN, requireDryRun : BOOLEAN]
  /\ Scopes \subseteq [tables : SUBSET Source, all : BOOLEAN]
  /\ \A scope \in Scopes : scope.all => scope.tables = Source
  /\ MaxCommands \in Nat
  /\ MaxFaults \in Nat

VARIABLES
  schemaFks,  \* the foreign keys of the source schema (and of old target tables)
  safety,     \* the safety section and the environment of the config
  durable,    \* every batch is committed before the next is read, without Ctrl+C
  dryRun,     \* migration.dry_run_report_path exists
  exists,     \* the tables of the target
  rows,       \* the rows of each
  fks,        \* the foreign keys declared on each
  indexed,    \* the tables that have their secondary index
  ckpt,       \* the latest checkpoint of each source table
  audit,      \* the run that this or the last command opened in overwrite-audit.sqlite
  job,        \* the command that is running
  outcome,    \* the CommandResult of the last command
  performed,  \* history: the statements of the latest overwrite run that were done
  commands,   \* the commands so far
  faults      \* the faults so far

target == <<exists, rows, fks, indexed>>
env    == <<schemaFks, safety, durable>>
files  == <<ckpt, audit, dryRun>>
vars   == <<env, target, files, job, outcome, performed, commands, faults>>

-----------------------------------------------------------------------------
(* The execution plan.                                                     *)

Stage(command) == IF command = "full" THEN "apply-ddl" ELSE command

(* since and held are history: the faults and the tables partly filled     *)
(* when the command began.                                                 *)
NoJob == [command |-> "none", stage |-> "none", policy |-> "skip", tables |-> {},
          all |-> FALSE, todo |-> << >>, failed |-> FALSE, audited |-> FALSE,
          since |-> 0, held |-> {}]

Item(t, action) == [table |-> t, action |-> action]

ActionFor(t, policy) ==
  IF t \notin exists THEN "create"
  ELSE CASE policy = "sync"            -> "sync_existing"
         [] policy = "truncate_reload" -> "truncate"
         [] policy = "overwrite"       -> "overwrite"
         [] OTHER                      -> "skip"

(* Target-only tables that a kept table references are not dropped.        *)
DropBlockers(kept, extra) ==
  {u \in extra : \E t \in kept : u \in (IF t \in exists THEN fks ELSE schemaFks)[t]}

TargetOnlyItems(kept) ==
  LET extra   == exists \ kept
      order   == DropOrder(extra, fks)
      blocked == DropBlockers(kept, extra)
  IN  [i \in 1 .. Len(order) |->
         Item(order[i], IF order[i] \in blocked THEN "blocked" ELSE "drop_target_only")]

DdlItems(tables, all, policy) ==
  LET order == Sorted(tables)
  IN  [i \in 1 .. Len(order) |-> Item(order[i], ActionFor(order[i], policy))]
      \o (IF policy = "sync" /\ all THEN TargetOnlyItems(tables) ELSE << >>)

Destructive == {"sync_existing", "truncate", "overwrite", "drop_target_only"}

Actions(items) == {items[i].action : i \in 1 .. Len(items)}

(* Mutant: sync and truncate count as harmless.                            *)
GuardAllowsUnlessOverwrite(items) ==
  \/ "overwrite" \notin Actions(items)
  \/ ~safety.protection
  \/ ~safety.production
  \/ safety.allow /\ (safety.requireDryRun => dryRun)

GuardAllows(items) ==
  \/ Actions(items) \cap Destructive = {}
  \/ ~safety.protection
  \/ ~safety.production
  \/ safety.allow /\ (safety.requireDryRun => dryRun)

(* The tables migrate-data and resume take from the plan.                  *)
IncludesDml(t, policy) ==
  policy # "compare_only" /\ ~(policy = "append" /\ t \in exists)

-----------------------------------------------------------------------------
(* The end of a command, and the next one of the full sequence.            *)

Fault == faults < MaxFaults /\ faults' = faults + 1

Finish(success) ==
  /\ job' = NoJob
  /\ outcome' = [command |-> job.command, policy |-> job.policy, tables |-> job.tables,
                 since |-> job.since, held |-> job.held, success |-> success]

NextStage ==
  [ s \in {"apply-ddl", "pre-indexes", "migrate-data", "apply-foreign-keys"} |->
      CASE s = "apply-ddl"          -> "pre-indexes"
        [] s = "pre-indexes"        -> "migrate-data"
        [] s = "migrate-data"       -> "apply-foreign-keys"
        [] s = "apply-foreign-keys" -> "apply-indexes" ]

(* Each command of the sequence plans again, from its own scan.            *)
Succeed ==
  IF job.command = "full" /\ job.stage # "apply-indexes"
  THEN job' = [job EXCEPT !.stage = NextStage[job.stage] , !.todo = << >>]
       /\ UNCHANGED outcome
  ELSE Finish(TRUE)

Advance(failed) ==
  job' = [job EXCEPT !.todo = Tail(@), !.failed = @ \/ failed] /\ UNCHANGED outcome

NoOutcome == [command |-> "none", policy |-> "skip", tables |-> {}, since |-> 0,
              held |-> {}, success |-> FALSE]
NoAudit   == [status |-> "none", recorded |-> {}]

(* The status "stopped" stands for completed, failed and cancelled batches. *)
NoCheckpoint == [status |-> "none", cursor |-> 0]
Completed(t) == ckpt[t].status = "table_completed"

PartlyFilled == {t \in Source : ~Completed(t) /\ rows[t] \cap NewRows # {}}

Start(command, policy, scope) ==
  /\ job = NoJob
  /\ commands < MaxCommands
  /\ commands' = commands + 1
  /\ job' = [NoJob EXCEPT !.command = command, !.stage = Stage(command), !.policy = policy,
                          !.tables = scope.tables, !.all = scope.all,
                          !.since = faults, !.held = PartlyFilled]
  /\ outcome' = NoOutcome
  /\ audit' = NoAudit
  /\ performed' = {}
  /\ UNCHANGED <<env, target, ckpt, dryRun, faults>>

At(stage) == job.stage = stage

RunDryRun ==
  /\ job = NoJob
  /\ dryRun' = TRUE
  /\ UNCHANGED <<env, target, ckpt, audit, job, outcome, performed, commands, faults>>

-----------------------------------------------------------------------------
(* apply-ddl.  A plan whose todo is empty has not been made yet; the last  *)
(* item of every plan is "report".                                         *)

Report == Item(0, "report")

Planned == DdlItems(job.tables, job.all, job.policy)

PlanDdl ==
  /\ At("apply-ddl") /\ job.todo = << >>
  /\ IF GuardAllows(Planned)
     THEN /\ job' = [job EXCEPT !.todo = Append(Planned, Report),
                                !.audited = "overwrite" \in Actions(Planned)]
          /\ IF "overwrite" \in Actions(Planned)
             THEN audit' = [NoAudit EXCEPT !.status = "running"]
             ELSE UNCHANGED audit
          /\ UNCHANGED outcome
     ELSE /\ Finish(FALSE)
          /\ UNCHANGED audit
  /\ UNCHANGED <<env, target, ckpt, dryRun, performed, commands, faults>>

(* overwrite-audit.sqlite cannot be opened or written: nothing is done.    *)
AuditFailsToOpen ==
  /\ At("apply-ddl") /\ job.todo = << >>
  /\ GuardAllows(Planned) /\ "overwrite" \in Actions(Planned)
  /\ Fault
  /\ Finish(FALSE)
  /\ UNCHANGED <<env, target, files, performed, commands>>

Doing(action) == At("apply-ddl") /\ job.todo # << >> /\ Head(job.todo).action = action

Table == Head(job.todo).table

Referenced(t) == \E u \in exists \ {t} : t \in fks[u]

(* The handler of a failing plan closes the audit; the audit may be what   *)
(* fails, and then the run in it stays "running".                          *)
CloseAsFailed == audit' = IF job.audited THEN [audit EXCEPT !.status = "failed"] ELSE audit

(* An adapter raises whenever a statement fails: what is left of the plan  *)
(* is not executed and no summary is written.                              *)
Raise ==
  /\ Finish(FALSE)
  /\ \/ CloseAsFailed /\ UNCHANGED faults
     \/ Fault /\ UNCHANGED audit

(* Mutant: a failing statement is noted and the plan goes on.              *)
FaultIsNoted == Fault /\ Advance(FALSE) /\ UNCHANGED audit

RaiseByFault == Fault /\ Finish(FALSE) /\ (CloseAsFailed \/ UNCHANGED audit)

RemoveTable(t) ==
  /\ exists' = exists \ {t}
  /\ rows' = [rows EXCEPT ![t] = {}]
  /\ fks' = [fks EXCEPT ![t] = {}]
  /\ indexed' = indexed \ {t}

(* CREATE TABLE declares the columns and the primary key only.             *)
AddTable(t) == exists' = exists \cup {t} /\ UNCHANGED <<rows, fks, indexed>>

EmptyTable(t) == rows' = [rows EXCEPT ![t] = {}] /\ UNCHANGED <<exists, fks, indexed>>

Performed(action) == performed' = performed \cup {<<Table, action>>}

KeepFiles == UNCHANGED <<env, ckpt, dryRun, commands>>

Skip ==
  /\ Doing("skip")
  /\ Advance(FALSE)
  /\ KeepFiles /\ UNCHANGED <<target, audit, performed, faults>>

Blocked ==
  /\ Doing("blocked")
  /\ Advance(TRUE)
  /\ KeepFiles /\ UNCHANGED <<target, audit, performed, faults>>

(* Its ALTER TABLE statements add and rename columns, not rows.            *)
SyncExisting ==
  /\ Doing("sync_existing")
  /\ Advance(FALSE)
  /\ KeepFiles /\ UNCHANGED <<target, audit, performed, faults>>

(* Neither DROP nor TRUNCATE is possible while another table references    *)
(* the table.                                                              *)
Refused ==
  /\ \E action \in {"drop_target_only", "truncate", "overwrite"} : Doing(action)
  /\ Referenced(Table)
  /\ Raise
  /\ KeepFiles /\ UNCHANGED <<target, performed>>

DropTargetOnly ==
  /\ Doing("drop_target_only") /\ ~Referenced(Table)
  /\ RemoveTable(Table)
  /\ Advance(FALSE)
  /\ KeepFiles /\ UNCHANGED <<audit, performed, faults>>

Truncate ==
  /\ Doing("truncate") /\ ~Referenced(Table)
  /\ EmptyTable(Table)
  /\ Advance(FALSE)
  /\ KeepFiles /\ UNCHANGED <<audit, performed, faults>>

Becomes(action) ==
  job' = [job EXCEPT !.todo = <<Item(Table, action)>> \o Tail(@)] /\ UNCHANGED outcome

(* Mutant: the drop is not written to the audit.                           *)
OverwriteDropUnrecorded ==
  /\ Doing("overwrite") /\ ~Referenced(Table)
  /\ RemoveTable(Table) /\ Performed("drop")
  /\ Becomes("recreate")
  /\ KeepFiles /\ UNCHANGED <<audit, faults>>

OverwriteDrop ==
  /\ Doing("overwrite") /\ ~Referenced(Table)
  /\ RemoveTable(Table) /\ Performed("drop")
  /\ Becomes("record_drop")
  /\ KeepFiles /\ UNCHANGED <<audit, faults>>

Create ==
  /\ Doing("create")
  /\ AddTable(Table)
  /\ Advance(FALSE)
  /\ KeepFiles /\ UNCHANGED <<audit, performed, faults>>

Recreate ==
  /\ Doing("recreate")
  /\ AddTable(Table) /\ Performed("create")
  /\ Becomes("record_create")
  /\ KeepFiles /\ UNCHANGED <<audit, faults>>

Recorded(action) ==
  audit' = [audit EXCEPT !.recorded = @ \cup {<<Table, action>>}] /\ UNCHANGED faults

RecordDrop ==
  /\ Doing("record_drop")
  /\ \/ Recorded("drop") /\ Becomes("recreate")
     \/ RaiseByFault
  /\ KeepFiles /\ UNCHANGED <<target, performed>>

RecordCreate ==
  /\ Doing("record_create")
  /\ \/ Recorded("create") /\ Advance(FALSE)
     \/ RaiseByFault
  /\ KeepFiles /\ UNCHANGED <<target, performed>>

(* A statement fails for a reason outside the schema.  It may have been    *)
(* performed: an adapter that loses the reply raises as well.              *)
StatementFails ==
  /\ \E action \in Destructive \cup {"create", "recreate"} : Doing(action)
  /\ RaiseByFault
  /\ KeepFiles /\ UNCHANGED <<target, performed>>

ReplyIsLost ==
  /\ \/ Doing("drop_target_only") /\ ~Referenced(Table) /\ RemoveTable(Table) /\ UNCHANGED performed
     \/ Doing("truncate") /\ ~Referenced(Table) /\ EmptyTable(Table) /\ UNCHANGED performed
     \/ Doing("create") /\ AddTable(Table) /\ UNCHANGED performed
     \/ Doing("overwrite") /\ ~Referenced(Table) /\ RemoveTable(Table) /\ Performed("drop")
     \/ Doing("recreate") /\ AddTable(Table) /\ Performed("create")
  /\ RaiseByFault
  /\ KeepFiles

WriteSummary ==
  /\ Doing("report")
  /\ \/ Becomes("close_audit") /\ UNCHANGED faults
     \/ Finish(FALSE) /\ Fault
  /\ KeepFiles /\ UNCHANGED <<target, audit, performed>>

CloseAudit ==
  /\ Doing("close_audit")
  /\ audit' = IF job.audited
              THEN [audit EXCEPT !.status = IF job.failed THEN "failed" ELSE "completed"]
              ELSE audit
  /\ IF job.failed THEN Finish(FALSE) ELSE Succeed
  /\ KeepFiles /\ UNCHANGED <<target, performed, faults>>

AuditStaysOpen ==
  /\ Doing("close_audit") /\ job.audited
  /\ Fault
  /\ Finish(FALSE)
  /\ KeepFiles /\ UNCHANGED <<target, audit, performed>>

-----------------------------------------------------------------------------
(* migrate-data and resume.  The plan is made anew, so that what apply-ddl *)
(* created counts as existing.                                             *)

(* A completed table makes the preflight of migrate-data count its target  *)
(* rows.                                                                   *)
Counted(t) == /\ At("migrate-data") /\ Completed(t)
              /\ job.policy \notin {"sync", "append"}

Skipped(t) ==
  \/ At("resume") /\ Completed(t)
  \/ job.policy = "append" /\ ckpt[t] # NoCheckpoint
  \/ Counted(t) /\ Cardinality(rows[t]) > 0

CopyEnd == Item(0, "end")

PlanCopy ==
  /\ At("migrate-data") \/ At("resume")
  /\ job.todo = << >>
  /\ LET chosen == {t \in job.tables : IncludesDml(t, job.policy)}
         order  == Sorted({t \in chosen : ~Skipped(t)})
         items  == [i \in 1 .. Len(order) |-> Item(order[i], "copy")]
     IN  IF \E t \in chosen : Counted(t) /\ t \notin exists
         THEN Finish(FALSE)
         ELSE job' = [job EXCEPT !.todo = Append(items, CopyEnd)] /\ UNCHANGED outcome
  /\ UNCHANGED <<env, target, files, performed, commands, faults>>

Copying(action) ==
  /\ At("migrate-data") \/ At("resume")
  /\ job.todo # << >> /\ Head(job.todo).action = action

StartRow(t) == IF At("resume") THEN ckpt[t].cursor ELSE 0

(* Row r can be written: its table is there, its key is free unless rows   *)
(* are upserted, and so are the rows it references.                        *)
Writable(t, r) ==
  /\ t \in exists
  /\ job.policy = "sync" \/ r \notin rows[t]
  /\ \A u \in fks[t] \ {t} : r \in rows[u]

WritableUpTo(t, d) == \A r \in StartRow(t) + 1 .. d : Writable(t, r)

Written(t, d) == StartRow(t) + 1 .. d

Checkpoint(t, status, d) ==
  ckpt' = [ckpt EXCEPT ![t] = [status |-> status, cursor |-> d]]

KeepDdl == UNCHANGED <<env, exists, fks, indexed, audit, dryRun, performed, commands>>

(* The rows a sync run has not read are deleted, which a foreign key of    *)
(* another table may forbid; that raises out of the command.               *)
SyncLeftovers(t) == rows[t] \ Written(t, RowCount)

DeleteForbidden(t) ==
  t \notin exists \/ \E u \in exists \ {t} : t \in fks[u] /\ SyncLeftovers(t) \cap rows[u] # {}

CopyWhole ==
  /\ Copying("copy") /\ job.policy # "sync"
  /\ WritableUpTo(Table, RowCount)
  /\ rows' = [rows EXCEPT ![Table] = @ \cup Written(Table, RowCount)]
  /\ Checkpoint(Table, "table_completed", RowCount)
  /\ Advance(FALSE)
  /\ KeepDdl /\ UNCHANGED faults

SyncWhole ==
  /\ Copying("copy") /\ job.policy = "sync"
  /\ WritableUpTo(Table, RowCount) /\ ~DeleteForbidden(Table)
  /\ rows' = [rows EXCEPT ![Table] = Written(Table, RowCount)]
  /\ Checkpoint(Table, "table_completed", RowCount)
  /\ Advance(FALSE)
  /\ KeepDdl /\ UNCHANGED faults

(* Mutant: a batch is recorded before it is committed.                     *)
RecordableBeforeCommit(d, w) == StartRow(Table) .. w

(* The batches a run may have recorded when rows up to w were written and  *)
(* those up to d are or will be committed: the checkpoint of a commit, of  *)
(* the batch that failed, of the first uncommitted one, or of Ctrl+C.      *)
Recordable(d, w) == StartRow(Table) .. (IF durable THEN d ELSE w)

(* Rows up to w are written, not all of them committed, and the copy stops. *)
StopsBehind(w) ==
  \E d \in StartRow(Table) .. w :
    /\ rows' = [rows EXCEPT ![Table] = @ \cup Written(Table, d)]
    /\ \/ UNCHANGED ckpt
       \/ \E c \in Recordable(d, w) : Checkpoint(Table, "stopped", c)

(* A row that cannot be written ends the table, not the command.           *)
CopyIsRefused ==
  /\ Copying("copy")
  /\ \E w \in StartRow(Table) .. RowCount - 1 :
       /\ WritableUpTo(Table, w) /\ ~Writable(Table, w + 1)
       /\ StopsBehind(w)
  /\ Advance(FALSE)
  /\ KeepDdl /\ UNCHANGED faults

(* So does the deletion a foreign key forbids, but that raises out of the  *)
(* command.                                                                *)
DeleteIsRefused ==
  /\ Copying("copy") /\ job.policy = "sync"
  /\ WritableUpTo(Table, RowCount) /\ DeleteForbidden(Table)
  /\ rows' = [rows EXCEPT ![Table] = @ \cup Written(Table, RowCount)]
  /\ IF Written(Table, RowCount) = {} THEN UNCHANGED ckpt
     ELSE Checkpoint(Table, "stopped", RowCount)
  /\ Finish(FALSE)
  /\ KeepDdl /\ UNCHANGED faults

(* A failing read, write or commit, or Ctrl+C, ends the table; a failing   *)
(* checkpoint or last commit, or the end of the process, the command.      *)
CopyFails ==
  /\ Copying("copy")
  /\ Fault
  /\ \E w \in StartRow(Table) .. RowCount : WritableUpTo(Table, w) /\ StopsBehind(w)
  /\ Advance(FALSE) \/ Finish(FALSE)
  /\ KeepDdl

(* The command succeeds whatever became of its tables.                     *)
EndCopy ==
  /\ Copying("end")
  /\ Succeed
  /\ UNCHANGED <<env, target, files, performed, commands, faults>>

-----------------------------------------------------------------------------
(* Foreign keys and indexes are taken from the target's side of the pairs: *)
(* of an existing table, the ones it has.  A failing statement is recorded *)
(* and the next one is tried.                                              *)

ForeignKeyDdls ==
  UNION {{t} \X (IF t \in exists THEN fks ELSE schemaFks)[t] : t \in job.tables}

(* ADD CONSTRAINT needs both tables, a new name and no orphaned row.       *)
CanAdd(t, u) == t \in exists /\ u \in exists /\ u \notin fks[t] /\ rows[t] \subseteq rows[u]

Addable(ddls) == {ddl \in ddls : CanAdd(ddl[1], ddl[2])}

ApplyForeignKeys ==
  /\ At("apply-foreign-keys")
  /\ fks' = [t \in AllTables |-> fks[t] \cup {u \in AllTables : <<t, u>> \in Addable(ForeignKeyDdls)}]
  /\ IF ForeignKeyDdls = Addable(ForeignKeyDdls) THEN Succeed ELSE Finish(FALSE)
  /\ UNCHANGED <<env, exists, rows, indexed, files, performed, commands, faults>>

IndexDdls == {t \in job.tables : t \in exists => t \in indexed}

Indexable == {t \in IndexDdls : t \in exists /\ t \notin indexed}

ApplyIndexes ==
  /\ At("apply-indexes")
  /\ indexed' = indexed \cup Indexable
  /\ IF IndexDdls = Indexable THEN Succeed ELSE Finish(FALSE)
  /\ UNCHANGED <<env, exists, rows, fks, files, performed, commands, faults>>

(* Nothing is timed before the data unless the migration is incremental.   *)
ApplyPreIndexes ==
  /\ At("pre-indexes")
  /\ Succeed
  /\ UNCHANGED <<env, target, files, performed, commands, faults>>

-----------------------------------------------------------------------------
(* The process ends in the middle of a command.                            *)
Crash ==
  /\ job # NoJob
  /\ Fault
  /\ Finish(FALSE)
  /\ UNCHANGED <<env, target, files, performed, commands>>

(* A table of the target may be there, with rows, and with the foreign     *)
(* keys and the index its counterpart has in the source.                   *)
Init ==
  /\ schemaFks \in Graphs
  /\ safety \in Guards
  /\ durable \in BOOLEAN
  /\ dryRun = FALSE
  /\ exists \in SUBSET AllTables
  /\ rows = [t \in AllTables |-> IF t \in exists THEN {0} ELSE {}]
  /\ \E declared \in {{}, exists} :
       /\ fks = [t \in AllTables |-> IF t \in declared THEN schemaFks[t] \cap exists ELSE {}]
       /\ indexed = declared
  /\ ckpt = [t \in Source |-> NoCheckpoint]
  /\ audit = NoAudit
  /\ job = NoJob
  /\ outcome = NoOutcome
  /\ performed = {}
  /\ commands = 0
  /\ faults = 0

Ddl == \/ PlanDdl \/ AuditFailsToOpen \/ Skip \/ Blocked \/ SyncExisting \/ Refused
       \/ DropTargetOnly \/ Truncate \/ OverwriteDrop \/ RecordDrop \/ Create
       \/ Recreate \/ RecordCreate \/ StatementFails \/ ReplyIsLost
       \/ WriteSummary \/ CloseAudit \/ AuditStaysOpen

Copy == \/ PlanCopy \/ CopyWhole \/ SyncWhole \/ CopyIsRefused \/ DeleteIsRefused
        \/ CopyFails \/ EndCopy

Apply == ApplyPreIndexes \/ ApplyForeignKeys \/ ApplyIndexes

Operate ==
  \/ RunDryRun
  \/ \E command \in Commands, policy \in Policies, scope \in Scopes :
       Start(command, policy, scope)

Next == Operate \/ Ddl \/ Copy \/ Apply \/ Crash

Spec == Init /\ [][Next]_vars

-----------------------------------------------------------------------------
Steps == {"skip", "blocked", "sync_existing", "drop_target_only", "truncate", "overwrite",
          "record_drop", "create", "recreate", "record_create", "report", "close_audit",
          "copy", "end"}

TypeOK ==
  /\ exists \subseteq AllTables
  /\ rows \in [AllTables -> SUBSET (0 .. RowCount)]
  /\ fks \in [AllTables -> SUBSET AllTables]
  /\ indexed \subseteq exists
  /\ \A t \in AllTables \ exists : rows[t] = {} /\ fks[t] = {}
  /\ \A t \in Source : /\ ckpt[t].status \in {"none", "stopped", "table_completed"}
                       /\ ckpt[t].cursor \in 0 .. RowCount
  /\ audit.status \in {"none", "running", "completed", "failed"}
  /\ Actions(job.todo) \subseteq Steps
  /\ faults \in 0 .. MaxFaults

(* What a resume of the table takes for copied.                            *)
Covered(t) == 1 .. ckpt[t].cursor \subseteq rows[t]

(* While every batch is committed before the next one is read and nobody   *)
(* presses Ctrl+C, no failure, crash or order of commands makes a later    *)
(* resume start behind rows that are not there: rows behind a checkpoint   *)
(* are taken away by nothing but apply-ddl with truncate_reload or         *)
(* overwrite (service.py keeps the checkpoints of the job) and a resumed   *)
(* sync.  Without that condition the copy itself records batches it loses: *)
(* dml_migration.py:294 and 341, the runs small_batches and ctrl_c.        *)
OnlyReloadsUncover ==
  [][durable => \A t \in Source : Covered(t) /\ ~Covered(t)' =>
       \/ At("apply-ddl") /\ job.policy \in {"truncate_reload", "overwrite"}
       \/ At("resume") /\ job.policy = "sync"]_vars

(* On a protected production target apply-ddl takes no row and no table    *)
(* away, whatever the policy, the scope and the target-only tables of the  *)
(* plan the guard was asked about (safety_guard.py).                       *)
Protected ==
  safety.protection /\ safety.production /\ ~(safety.allow /\ (safety.requireDryRun => dryRun))

ProtectedTargetIsKept ==
  [][Protected /\ At("apply-ddl") =>
       exists \subseteq exists' /\ \A t \in AllTables : rows[t] \subseteq rows'[t]]_vars

(* overwrite-audit.sqlite after any failure or crash, its own failures and *)
(* lost replies included: it lists no drop or create that was not done,    *)
(* misses at most the last statement, behind which nothing was done to the *)
(* table, and a run it calls completed misses nothing and has re-created   *)
(* every table it dropped (ddl_execution.py execute_schema_ddl).           *)
AuditTellsTheTruth ==
  /\ audit.recorded \subseteq performed
  /\ Cardinality(performed \ audit.recorded) <= 1
  /\ \A s \in performed \ audit.recorded : s[2] = "drop" => <<s[1], "create">> \notin performed
  /\ audit.status = "completed" =>
       /\ audit.recorded = performed
       /\ \A s \in performed : <<s[1], "create">> \in performed

(* A command that reports success: apply-ddl left every selected table in  *)
(* place, and a full run that met no fault itself, whatever earlier runs   *)
(* met, filled them.  Named exceptions: the policies append and            *)
(* compare_only leave tables out; under skip, rows a stopped run left in a *)
(* table collide with their own copies; a reload took rows from behind a   *)
(* checkpoint (~Covered); foreign keys of the target refused rows          *)
(* (gui/main.py _run_full_sequence over its five commands and five scans). *)
SuccessLeavesTables ==
  job = NoJob /\ outcome.success /\ outcome.command \in {"apply-ddl", "full"} =>
    /\ outcome.tables \subseteq exists
    /\ /\ outcome.command = "full" /\ faults = outcome.since
       /\ outcome.policy \notin {"append", "compare_only"}
       => \A t \in outcome.tables :
            \/ NewRows \subseteq rows[t]
            \/ ~Covered(t) \/ fks[t] # {}
            \/ outcome.policy = "skip" /\ t \in outcome.held
=============================================================================
