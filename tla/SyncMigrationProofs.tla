------------------------ MODULE SyncMigrationProofs ------------------------
(***************************************************************************)
(* Proofs about SyncMigration for every value of its constants: its type   *)
(* invariant, and, for an operator who uses migrate-data only, that a      *)
(* completed sync mirrors the source, that no row is ever mixed or deleted *)
(* by mistake, and that the checkpoints of saved batches tell the truth.   *)
(***************************************************************************)
EXTENDS SyncMigration, FiniteSetTheorems, TLAPS

USE SyncAssumption

-----------------------------------------------------------------------------
(* The operators the actions are built from.                               *)

(* A batch ends behind its cursor and inside the table (read_rows).        *)
LEMMA BatchEndsBounds ==
  ASSUME NEW c \in Nat, NEW end \in BatchEnds(c)
  PROVE  end \in Keys /\ end \in Nat /\ c < end /\ end <= KeyCount
  BY DEF BatchEnds, KeysAfter, Keys

(* The changed rows of a batch are at most the keys it spans               *)
(* (_classify_sync_rows).                                                  *)
LEMMA ChangedCount ==
  ASSUME NEW c \in Nat, NEW end \in BatchEnds(c)
  PROVE  Cardinality(Changed(BatchTo(c, end))) \in 0 .. end - c
<1>1. end \in Nat /\ c < end
  BY BatchEndsBounds
<1> DEFINE spanned == (c + 1) .. end
           rows    == Changed(BatchTo(c, end))
<1>2. rows \in SUBSET spanned
  BY <1>1 DEF Changed, BatchTo, KeysAfter, Keys
<1>3. IsFiniteSet(spanned) /\ Cardinality(spanned) = end - c
  BY <1>1, FS_Interval
<1> HIDE DEF spanned, rows
<1>4. IsFiniteSet(rows) /\ Cardinality(rows) <= Cardinality(spanned)
  BY <1>2, <1>3, FS_Subset
<1>5. Cardinality(rows) \in Nat
  BY <1>4, FS_CardinalityType
<1>6. Cardinality(rows) \in 0 .. end - c
  BY <1>1, <1>3, <1>4, <1>5
<1> QED BY <1>6 DEF rows

(* An upsert of rows of the source keeps the target a table                *)
(* (upsert_batch).                                                         *)
LEMMA UpsertedType ==
  ASSUME source \in Rows, view \in Rows, NEW rows
  PROVE  Upserted(rows) \in Rows
  BY DEF Upserted, Rows

-----------------------------------------------------------------------------
(* The type invariant.                                                     *)

(* Cursors at the start of a table are in order.                           *)
LEMMA Zeros ==
  /\ 0 \in 0 .. KeyCount /\ 0 \in 0 .. (0 - 0)
  /\ 0 \in 0 .. MaxFaults /\ 0 \in 0 .. MaxChanges
  OBVIOUS

(* Every step keeps the tables, cursors and places of their kinds.         *)
LEMMA TypeStep == TypeOK /\ [Next]_vars => TypeOK'
<1> SUFFICES ASSUME TypeOK, [Next]_vars PROVE TypeOK'
  OBVIOUS
<1>t. /\ KeyCount \in Nat /\ base \in Nat /\ latest \in Nat /\ saved \in Nat
      /\ base <= latest /\ uncommitted \in Nat /\ faults \in Nat /\ changes \in Nat
  BY DEF TypeOK
<1>f. ASSUME NEW kind, Fault(kind) PROVE faults' \in 0 .. MaxFaults
  BY <1>f, <1>t DEF Fault
<1> USE DEF tables, cursors
<1>1. ASSUME NEW m \in Modes, StartRun(m) PROVE TypeOK'
  <2>1. StartCursor(m) \in 0 .. KeyCount
    BY Zeros DEF TypeOK, StartCursor
  <2>2. /\ base' \in 0 .. KeyCount /\ saved' \in 0 .. KeyCount
        /\ latest' \in base' .. KeyCount /\ uncommitted' \in 0 .. latest' - base'
    BY <1>1, <2>1 DEF StartRun
  <2> QED BY <1>1, <2>2 DEF TypeOK, StartRun
<1>2. CASE BeginSyncKeys
  BY <1>2 DEF TypeOK, BeginSyncKeys, Goto
<1>3. CASE SyncBatch
  <2> PICK end \in BatchEnds(latest) :
        /\ view' = Upserted(Changed(BatchTo(latest, end)))
        /\ seen' = seen \cup BatchTo(latest, end)
        /\ uncommitted' = uncommitted + Cardinality(Changed(BatchTo(latest, end)))
        /\ latest' = end
    BY <1>3 DEF SyncBatch
  <2>1. view' \in Rows /\ seen' \subseteq Keys
    BY UpsertedType DEF TypeOK, BatchTo, KeysAfter
  <2>2. latest' \in base .. KeyCount
    BY <1>t, BatchEndsBounds
  <2>3. uncommitted' \in 0 .. latest' - base
    BY <1>t, ChangedCount, BatchEndsBounds DEF TypeOK
  <2> QED BY <1>3, <2>1, <2>2, <2>3 DEF TypeOK, SyncBatch, Goto
<1>4. CASE SaveFailure
  BY <1>4, <1>t, <1>f DEF TypeOK, SaveFailure, Record, Leave, Goto
<1>5. CASE EndOfRows
  BY <1>5 DEF TypeOK, EndOfRows, Goto
<1>6. CASE Commit
  BY <1>6, <1>t DEF TypeOK, Commit, Goto
<1>7. CASE SaveBatch
  <2> PICK end \in BatchEnds(saved) : Record("completed", end) /\ saved' = end
    BY <1>7 DEF SaveBatch
  <2>1. end \in 0 .. KeyCount
    BY <1>t, BatchEndsBounds
  <2>2. ckpt' = [status |-> "completed", cursor |-> end]
    BY DEF Record
  <2>3. base' \in 0 .. KeyCount /\ latest' \in base' .. KeyCount
        /\ uncommitted' \in 0 .. latest' - base'
    BY <1>7, <1>t DEF TypeOK, SaveBatch, Goto
  <2>4. pc' \in {"saving", "sweep", "loop"} /\ result' = result
    BY <1>7 DEF SaveBatch, Goto
  <2> QED BY <1>7, <2>1, <2>2, <2>3, <2>4 DEF TypeOK, SaveBatch
<1>8. CASE DeleteRows
  BY <1>8 DEF TypeOK, DeleteRows, Goto, Rows
<1>9. CASE CommitDelete
  BY <1>9 DEF TypeOK, CommitDelete, Goto
<1>10. CASE EndSyncKeys
  BY <1>10 DEF TypeOK, EndSyncKeys, Goto
<1>11. CASE CompleteTable
  BY <1>11, <1>t, <1>f DEF TypeOK, CompleteTable, Record, Return, Leave
<1>12. CASE HandleError
  BY <1>12, <1>t, <1>f DEF TypeOK, HandleError, Record, Return, Leave
<1>13. CASE SaveCancelled
  BY <1>13, <1>t, <1>f DEF TypeOK, SaveCancelled, Record, Return, Leave
<1>14. CASE BeginSyncKeysFails
  BY <1>14, <1>f DEF TypeOK, BeginSyncKeysFails, Goto, Leave
<1>15. CASE SyncBatchFails
  <2>1. view' \in Rows
    BY <1>15, UpsertedType DEF TypeOK, SyncBatchFails
  <2> QED BY <1>15, <1>f, <2>1 DEF TypeOK, SyncBatchFails, Goto
<1>16. CASE ReadFails
  BY <1>16, <1>f DEF TypeOK, ReadFails, Goto
<1>17. CASE CommitFails
  BY <1>17, <1>f DEF TypeOK, CommitFails, Escape, Goto, Leave
<1>18. CASE SaveBatchFails
  <2>1. faults' \in 0 .. MaxFaults
    BY <1>18, <1>f DEF SaveBatchFails
  <2>2. ckpt' = ckpt \/ \E end \in BatchEnds(saved) :
                          ckpt' \in {[status |-> "completed", cursor |-> end],
                                     [status |-> "checkpoint_failed_after_commit",
                                      cursor |-> end]}
    BY <1>18 DEF SaveBatchFails, Record
  <2>3. /\ ckpt'.status \in {"none", "completed", "failed", "cancelled",
                             "checkpoint_failed_after_commit", "table_completed"}
        /\ ckpt'.cursor \in 0 .. KeyCount
    BY <2>2, <1>t, BatchEndsBounds DEF TypeOK
  <2> QED BY <1>18, <2>1, <2>3 DEF TypeOK, SaveBatchFails, Escape, Goto, Leave
<1>19. CASE TailFails
  BY <1>19, <1>f DEF TypeOK, TailFails, Leave
<1>20. CASE Interrupt
  <2>1. view' \in Rows /\ target' \in Rows
    BY <1>20, UpsertedType DEF TypeOK, Interrupt
  <2> QED BY <1>20, <1>f, <2>1 DEF TypeOK, Interrupt, Escape, Goto, Leave
<1>21. CASE Crash
  BY <1>21, <1>f, Zeros DEF TypeOK, Crash, Idle
<1>22. CASE EndRun
  BY <1>22, Zeros DEF TypeOK, EndRun, Idle
<1>23. CASE OtherTableCommits
  BY <1>23 DEF TypeOK, OtherTableCommits
<1>24. CASE SourceChanges
  BY <1>24, <1>t DEF TypeOK, SourceChanges, Rows
<1>25. CASE UNCHANGED vars
  BY <1>25 DEF TypeOK, vars
<1> QED BY <1>1, <1>2, <1>3, <1>4, <1>5, <1>6, <1>7, <1>8, <1>9, <1>10, <1>11, <1>12,
           <1>13, <1>14, <1>15, <1>16, <1>17, <1>18, <1>19, <1>20, <1>21, <1>22,
           <1>23, <1>24, <1>25
        DEF Next, Work, Trouble

(* A program that was never run is well formed.                            *)
LEMMA SyncInit == Init => TypeOK
<1> SUFFICES ASSUME Init PROVE TypeOK
  OBVIOUS
<1>1. /\ base \in 0 .. KeyCount /\ latest \in base .. KeyCount /\ saved \in 0 .. KeyCount
      /\ uncommitted \in 0 .. latest - base
      /\ faults \in 0 .. MaxFaults /\ changes \in 0 .. MaxChanges
  BY Zeros DEF Init
<1>2. ckpt.status = "none" /\ ckpt.cursor = 0
  BY DEF Init, NoCheckpoint
<1>3. view \in Rows /\ seen \subseteq Keys
  BY DEF Init
<1> QED BY <1>1, <1>2, <1>3, Zeros DEF Init, TypeOK

(* Tables, keys, cursors and places stay of their kinds, and               *)
(* uncommitted_rows never exceeds the keys that are pending, for any       *)
(* table, batch size, commit interval, faults and commands.                *)
THEOREM SyncTypeCorrect == Spec => []TypeOK
  BY SyncInit, TypeStep, PTL DEF Spec

-----------------------------------------------------------------------------
(* The inductive invariant of a sync that is only ever started afresh.     *)

(* Between commands the writing connection has nothing open.               *)
Resting == ~running => pc = "done" /\ view = target

(* What is open on the connection came from the source.                    *)
OldOrNew == \A k \in Keys : view[k] \in {target[k], source[k]}

(* Rows behind the cursor are as they were committed, so that comparing    *)
(* them with committed rows is enough.                                     *)
Untouched ==
  pc \in {"begin", "loop", "commit", "saving"} =>
    \A k \in Keys : k > latest => view[k] = target[k]

(* Rows up to the cursor are mirrored, and noted.                          *)
MirroredSoFar ==
  pc \in {"loop", "commit", "saving", "sweep"} =>
    /\ \A k \in Keys : k <= latest /\ source[k] # Absent => k \in seen /\ view[k] = source[k]
    /\ \A k \in seen : source[k] # Absent

(* A worker starts at the first row, and sweeps behind the last one.       *)
AtItsPlace ==
  /\ pc = "begin" => latest = 0
  /\ pc \in {"begin", "loop"} => ~tail
  /\ pc = "sweep" => KeysAfter(latest) = {}
  /\ pc \in {"commit", "saving"} /\ tail => KeysAfter(latest) = {}

(* After the delete the connection has the source, after its commit the    *)
(* target too.                                                             *)
Swept ==
  /\ pc = "sweepCommit" => view = source
  /\ pc \in {"endSync", "complete"} => view = source /\ target = source

(* Only a table that was swept is reported as completed.                   *)
Reported == running /\ result = "completed" => pc = "done" /\ view = source /\ target = source

SyncInv ==
  /\ Resting /\ OldOrNew /\ Untouched /\ MirroredSoFar
  /\ AtItsPlace /\ Swept /\ Reported

(* Every step of migrate-data keeps the invariant.                         *)
LEMMA SyncStep ==
  ASSUME Modes \subseteq {"migrate"}, TypeOK, SyncInv, [Next]_vars
  PROVE  SyncInv'
<1>t. latest \in Nat /\ KeyCount \in Nat /\ seen \subseteq Keys
  BY DEF TypeOK
<1>k. ASSUME NEW k \in Keys PROVE k \in Nat /\ k > 0
  BY DEF Keys
<1> USE DEF SyncInv, Resting, OldOrNew, Untouched, MirroredSoFar, AtItsPlace, Swept,
            Reported, tables, cursors, Goto
<1>1. ASSUME NEW m \in Modes, StartRun(m) PROVE SyncInv'
  BY <1>1 DEF StartRun, StartCursor, KeysAfter
<1>2. CASE BeginSyncKeys
  BY <1>2, <1>k DEF BeginSyncKeys, KeysAfter
<1>3. CASE SyncBatch
  <2> PICK end \in BatchEnds(latest) :
        /\ view' = Upserted(Changed(BatchTo(latest, end)))
        /\ seen' = seen \cup BatchTo(latest, end)
        /\ latest' = end
    BY <1>3 DEF SyncBatch
  <2> DEFINE rows == BatchTo(latest, end)
  <2>1. end \in Nat /\ latest < end
    BY <1>t, BatchEndsBounds
  <2>2. ASSUME NEW k \in Keys PROVE k \in rows <=> latest < k /\ k <= end /\ source[k] # Absent
    BY <1>t, <1>k, <2>1 DEF BatchTo, KeysAfter
  <2>3. pc = "loop" /\ ~tail /\ tail' = tail /\ pc' \in {"commit", "loop"}
    BY <1>3 DEF SyncBatch
  <2>4. UNCHANGED <<source, target, running, result>> /\ running
    BY <1>3, <2>3 DEF SyncBatch
  <2>5. ASSUME NEW k \in Keys
        PROVE  view'[k] = IF k \in rows /\ target[k] # source[k] THEN source[k] ELSE view[k]
    BY DEF Upserted, Changed
  <2>6. OldOrNew'
    BY <2>4, <2>5
  <2>7. Untouched'
    BY <1>t, <1>k, <2>1, <2>2, <2>3, <2>4, <2>5
  <2>8. ASSUME NEW k \in Keys, k <= end, source[k] # Absent
        PROVE  k \in seen' /\ view'[k] = source[k]
    BY <1>t, <1>k, <2>2, <2>3, <2>5, <2>8
  <2>9. ASSUME NEW k \in seen' PROVE source[k] # Absent
    BY <2>3 DEF BatchTo, KeysAfter
  <2>10. MirroredSoFar'
    BY <2>4, <2>8, <2>9
  <2> QED BY <2>3, <2>4, <2>6, <2>7, <2>10
<1>4. CASE SaveFailure
  BY <1>4 DEF SaveFailure, Leave
<1>5. CASE EndOfRows
  BY <1>5 DEF EndOfRows, KeysAfter
<1>6. CASE Commit
  BY <1>6 DEF Commit, KeysAfter
<1>7. CASE SaveBatch
  BY <1>7 DEF SaveBatch, KeysAfter
<1>8. CASE DeleteRows
  <2>1. ASSUME NEW k \in Keys PROVE view'[k] = source[k]
    BY <1>8, <1>t, <1>k DEF DeleteRows, KeysAfter
  <2>2. view' = source
    BY <1>8, <2>1 DEF DeleteRows, TypeOK, Rows
  <2> QED BY <1>8, <2>2 DEF DeleteRows
<1>9. CASE CommitDelete
  BY <1>9 DEF CommitDelete
<1>10. CASE EndSyncKeys
  BY <1>10 DEF EndSyncKeys
<1>11. CASE CompleteTable
  BY <1>11 DEF CompleteTable, Return, Leave
<1>12. CASE HandleError
  BY <1>12 DEF HandleError, Return, Leave
<1>13. CASE SaveCancelled
  BY <1>13 DEF SaveCancelled, Return, Leave
<1>14. CASE BeginSyncKeysFails
  BY <1>14 DEF BeginSyncKeysFails, Leave
<1>15. CASE SyncBatchFails
  BY <1>15 DEF SyncBatchFails, Upserted
<1>16. CASE ReadFails
  BY <1>16 DEF ReadFails
<1>17. CASE CommitFails
  BY <1>17 DEF CommitFails, Escape, Leave
<1>18. CASE SaveBatchFails
  BY <1>18 DEF SaveBatchFails, Escape, Leave
<1>19. CASE TailFails
  BY <1>19 DEF TailFails, Leave
<1>20. CASE Interrupt
  <2>1. OldOrNew'
    BY <1>20 DEF Interrupt, Upserted
  <2>2. pc # "done" /\ Escape("interrupted") /\ running' = running
    BY <1>20 DEF Interrupt
  <2>3. \/ pc' = "interrupted" /\ result' = result
        \/ pc' = "done" /\ result' = "raised"
    BY <2>2, Zenon DEF Escape, Leave
  <2> QED BY <2>1, <2>2, <2>3
<1>21. CASE Crash
  BY <1>21 DEF Crash, Idle
<1>22. CASE EndRun
  BY <1>22 DEF EndRun, Idle
<1>23. CASE OtherTableCommits
  BY <1>23 DEF OtherTableCommits
<1>24. CASE SourceChanges
  BY <1>24 DEF SourceChanges
<1>25. CASE UNCHANGED vars
  BY <1>25 DEF vars, KeysAfter
<1> QED BY <1>1, <1>2, <1>3, <1>4, <1>5, <1>6, <1>7, <1>8, <1>9, <1>10, <1>11, <1>12,
           <1>13, <1>14, <1>15, <1>16, <1>17, <1>18, <1>19, <1>20, <1>21, <1>22,
           <1>23, <1>24, <1>25
        DEF Next, Work, Trouble

(* A step changes a row of the target only into what the source has: it    *)
(* writes what is open on the connection, or nothing.                      *)
LEMMA TargetStep ==
  ASSUME OldOrNew, [Next]_vars, NEW k \in Keys
  PROVE  target'[k] \in {target[k], source[k]}
<1>1. target' \in {target, view}
  BY DEF Next, Work, Trouble, vars, tables, StartRun, EndRun, Idle, OtherTableCommits,
         SourceChanges, BeginSyncKeys, SyncBatch, SaveFailure, EndOfRows, Commit,
         SaveBatch, DeleteRows, CommitDelete, EndSyncKeys, CompleteTable, HandleError,
         SaveCancelled, BeginSyncKeysFails, SyncBatchFails, ReadFails, CommitFails,
         SaveBatchFails, TailFails, Interrupt, Crash
<1> QED BY <1>1 DEF OldOrNew

(* The invariant holds throughout every behaviour of migrate-data.         *)
LEMMA SyncInvariant ==
  ASSUME Modes \subseteq {"migrate"}
  PROVE  Spec => [](TypeOK /\ SyncInv)
<1>1. Init => TypeOK /\ SyncInv
  <2>1. Init => TypeOK
    BY SyncInit
  <2>2. Init => SyncInv
    BY DEF Init, SyncInv, Resting, OldOrNew, Untouched, MirroredSoFar, AtItsPlace, Swept,
           Reported
  <2> QED BY <2>1, <2>2
<1>2. TypeOK /\ SyncInv /\ [Next]_vars => (TypeOK /\ SyncInv)'
  BY TypeStep, SyncStep
<1> QED BY <1>1, <1>2, PTL DEF Spec

(* When the operator only uses migrate-data, a sync that is reported as    *)
(* completed has made the target equal to the source: for any tables,      *)
(* batch size, commit interval, faults and changes between the runs.       *)
THEOREM CompletedSyncIsMirror ==
  ASSUME Modes \subseteq {"migrate"}
  PROVE  Spec => []CompletedSyncMirrors
<1>1. SyncInv => CompletedSyncMirrors
  BY DEF SyncInv, Reported, CompletedSyncMirrors
<1> QED BY <1>1, SyncInvariant, PTL

(* And no step of it leaves a row that neither the target had nor the      *)
(* source has, whatever fails on the way.                                  *)
THEOREM SyncMixesNoRow ==
  ASSUME Modes \subseteq {"migrate"}
  PROVE  Spec => EveryRowIsOldOrNew
<1>1. SyncInv /\ [Next]_vars => [\A k \in Keys : target'[k] \in {target[k], source[k]}]_vars
  BY TargetStep DEF SyncInv
<1> QED BY <1>1, SyncInvariant, PTL DEF Spec, EveryRowIsOldOrNew

(* Sync started afresh removes only rows that the source does not have.    *)
THEOREM SyncDeletesOnlyMissing ==
  ASSUME Modes \subseteq {"migrate"}
  PROVE  Spec => DeletesOnlyMissing
<1>1. SyncInv /\ [Next]_vars =>
        [\A k \in Keys : target'[k] = Absent /\ target[k] # Absent => source[k] = Absent]_vars
  BY TargetStep DEF SyncInv
<1> QED BY <1>1, SyncInvariant, PTL DEF Spec, DeletesOnlyMissing

-----------------------------------------------------------------------------
(* The checkpoints of the pending batches.                                 *)

(* The rows between two cursors are whole batches, or reach the last row.  *)
Batches(c, end) ==
  /\ c < end => end \in Keys /\ source[end] # Absent
  /\ KeysAfter(end) = {} \/ \E q \in Nat : Cardinality(BatchTo(c, end)) = q * BatchSize

(* So saving the pending batches one after the other never goes beyond the *)
(* rows of the commit.                                                     *)
PendingInv ==
  /\ pc \in {"loop", "commit"} => Batches(base, latest)
  /\ pc = "commit" => base < latest
  /\ pc = "saving" => saved < latest /\ Batches(saved, latest) /\ target = view

LEMMA NoRowsBetween ==
  ASSUME NEW c \in Nat
  PROVE  Batches(c, c)
<1>1. BatchTo(c, c) = {}
  BY DEF BatchTo, KeysAfter, Keys
<1>2. Cardinality(BatchTo(c, c)) = 0 * BatchSize
  BY <1>1, FS_EmptySet
<1> QED BY <1>2 DEF Batches

LEMMA BatchToFinite ==
  ASSUME NEW c \in Nat, NEW end \in Nat
  PROVE  IsFiniteSet(BatchTo(c, end)) /\ Cardinality(BatchTo(c, end)) \in Nat
<1>1. 1 \in Int /\ KeyCount \in Int
  OBVIOUS
<1>2. IsFiniteSet(Keys)
  BY <1>1, FS_Interval DEF Keys
<1>3. BatchTo(c, end) \in SUBSET Keys
  BY DEF BatchTo, KeysAfter
<1> QED BY <1>2, <1>3, FS_Subset, FS_CardinalityType

(* Rows are counted cursor by cursor.                                      *)
LEMMA BatchToAdds ==
  ASSUME NEW a \in Nat, NEW b \in Nat, NEW c \in Nat, a <= b, b <= c
  PROVE  Cardinality(BatchTo(a, c)) = Cardinality(BatchTo(a, b)) + Cardinality(BatchTo(b, c))
<1>1. BatchTo(a, c) = BatchTo(a, b) \cup BatchTo(b, c)
  BY DEF BatchTo, KeysAfter, Keys
<1>2. BatchTo(a, b) \cap BatchTo(b, c) = {}
  BY DEF BatchTo, KeysAfter, Keys
<1>3. /\ IsFiniteSet(BatchTo(a, b)) /\ Cardinality(BatchTo(a, b)) \in Nat
      /\ IsFiniteSet(BatchTo(b, c)) /\ Cardinality(BatchTo(b, c)) \in Nat
  BY BatchToFinite
<1>4. Cardinality(BatchTo(a, b) \cup BatchTo(b, c)) =
        Cardinality(BatchTo(a, b)) + Cardinality(BatchTo(b, c))
        - Cardinality(BatchTo(a, b) \cap BatchTo(b, c))
  BY <1>3, FS_Union
<1>5. Cardinality(BatchTo(a, b) \cap BatchTo(b, c)) = 0
  BY <1>2, FS_EmptySet
<1> QED BY <1>1, <1>3, <1>4, <1>5

(* A row behind the cursor is in the rows up to it.                        *)
LEMMA LastRowCounts ==
  ASSUME NEW c \in Nat, NEW end \in Nat, c < end, end \in Keys, source[end] # Absent
  PROVE  Cardinality(BatchTo(c, end)) > 0
<1>1. end \in BatchTo(c, end)
  BY DEF BatchTo, KeysAfter
<1>2. IsFiniteSet(BatchTo(c, end)) /\ Cardinality(BatchTo(c, end)) \in Nat
  BY BatchToFinite
<1>3. Cardinality(BatchTo(c, end)) = 0 <=> BatchTo(c, end) = {}
  BY <1>2, FS_EmptySet
<1> QED BY <1>1, <1>2, <1>3

(* One more batch is read.                                                 *)
LEMMA BatchesGrow ==
  ASSUME NEW c \in Nat, NEW l \in Nat, c <= l, Batches(c, l), NEW end \in BatchEnds(l)
  PROVE  Batches(c, end)
<1>1. end \in Keys /\ end \in Nat /\ l < end /\ source[end] # Absent /\ end \in KeysAfter(l)
  BY BatchEndsBounds DEF BatchEnds, KeysAfter
<1>2. CASE KeysAfter(end) = {}
  BY <1>1, <1>2 DEF Batches
<1>3. CASE Cardinality(BatchTo(l, end)) = BatchSize
  <2>1. PICK q \in Nat : Cardinality(BatchTo(c, l)) = q * BatchSize
    BY <1>1 DEF Batches
  <2>2. Cardinality(BatchTo(c, end)) = q * BatchSize + BatchSize
    BY <1>1, <1>3, <2>1, BatchToAdds
  <2>3. q + 1 \in Nat /\ q * BatchSize + BatchSize = (q + 1) * BatchSize
    OBVIOUS
  <2> QED BY <1>1, <2>2, <2>3 DEF Batches
<1> QED BY <1>2, <1>3 DEF BatchEnds

(* The next batch of the pending ones ends within them, and leaves whole   *)
(* batches.                                                                *)
LEMMA BatchesShrink ==
  ASSUME NEW c \in Nat, NEW l \in Nat, c < l, Batches(c, l), NEW end \in BatchEnds(c)
  PROVE  end <= l /\ (end < l => Batches(end, l))
<1>1. end \in Keys /\ end \in Nat /\ c < end /\ source[end] # Absent
  BY BatchEndsBounds DEF BatchEnds, KeysAfter
<1>2. l \in Keys /\ source[l] # Absent
  BY DEF Batches
<1>3. /\ Cardinality(BatchTo(c, end)) \in Nat /\ Cardinality(BatchTo(c, l)) \in Nat
      /\ Cardinality(BatchTo(end, l)) \in Nat /\ Cardinality(BatchTo(l, end)) \in Nat
  BY <1>1, BatchToFinite
<1>4. /\ Cardinality(BatchTo(c, end)) <= BatchSize
      /\ Cardinality(BatchTo(c, end)) = BatchSize \/ KeysAfter(end) = {}
  BY <1>3 DEF BatchEnds
<1>5. ASSUME NEW q \in Nat, q * BatchSize > 0 PROVE q - 1 \in Nat /\ q * BatchSize >= BatchSize
  <2>1. q # 0
    BY <1>5
  <2>2. q - 1 \in Nat /\ q = (q - 1) + 1
    BY <2>1
  <2>3. q * BatchSize = (q - 1) * BatchSize + BatchSize /\ (q - 1) * BatchSize \in Nat
    BY <2>2
  <2> QED BY <2>2, <2>3
<1>6. Cardinality(BatchTo(c, l)) > 0
  BY <1>2, LastRowCounts
<1>7. end <= l
  <2> SUFFICES ASSUME l < end PROVE FALSE
    BY <1>1
  <2>1. end \in KeysAfter(l)
    BY <1>1 DEF KeysAfter
  <2>2. PICK q \in Nat : Cardinality(BatchTo(c, l)) = q * BatchSize
    BY <2>1 DEF Batches
  <2>3. Cardinality(BatchTo(c, l)) >= BatchSize
    BY <1>5, <1>6, <2>2
  <2>4. Cardinality(BatchTo(l, end)) > 0
    BY <1>1, LastRowCounts
  <2>5. Cardinality(BatchTo(c, end)) = Cardinality(BatchTo(c, l)) + Cardinality(BatchTo(l, end))
    BY <1>1, BatchToAdds
  <2> QED BY <1>3, <1>4, <2>3, <2>4, <2>5
<1>8. ASSUME end < l PROVE Batches(end, l)
  <2>1. l \in KeysAfter(end)
    BY <1>2, <1>8 DEF KeysAfter
  <2>2. Cardinality(BatchTo(c, end)) = BatchSize
    BY <1>4, <2>1
  <2>3. Cardinality(BatchTo(c, l)) = BatchSize + Cardinality(BatchTo(end, l))
    BY <1>1, <1>8, <2>2, BatchToAdds
  <2>4. ASSUME NEW q \in Nat, Cardinality(BatchTo(c, l)) = q * BatchSize
        PROVE  Cardinality(BatchTo(end, l)) = (q - 1) * BatchSize /\ q - 1 \in Nat
    <3>1. q - 1 \in Nat
      BY <1>5, <1>6, <2>4
    <3>2. q * BatchSize = (q - 1) * BatchSize + BatchSize
      BY <3>1
    <3> QED BY <1>3, <2>3, <2>4, <3>1, <3>2
  <2> QED BY <1>2, <2>4 DEF Batches
<1> QED BY <1>7, <1>8

(* Steps that leave the table and the cursors alone.                       *)
LEMMA PendingStays ==
  ASSUME PendingInv, UNCHANGED <<source, base, latest, saved>>,
         \/ pc' \notin {"loop", "commit", "saving"}
         \/ pc' = pc /\ UNCHANGED <<target, view>>
  PROVE  PendingInv'
  BY DEF PendingInv, Batches, KeysAfter, BatchTo

LEMMA PendingStep ==
  ASSUME Modes \subseteq {"migrate"}, TypeOK, TypeOK', SyncInv, PendingInv, [Next]_vars
  PROVE  PendingInv'
<1>t. /\ base \in Nat /\ latest \in Nat /\ saved \in Nat /\ base <= latest
      /\ latest' \in Nat
  BY DEF TypeOK
<1> USE DEF tables, cursors, Goto
<1>1. ASSUME pc' \notin {"loop", "commit", "saving"} PROVE PendingInv'
  BY <1>1 DEF PendingInv
<1>2. CASE BeginSyncKeys
  <2>1. pc' = "loop" /\ base' = base /\ latest' = latest /\ base = latest /\ source' = source
    BY <1>2, <1>t DEF BeginSyncKeys, SyncInv, AtItsPlace, TypeOK
  <2>2. Batches(base, latest)
    BY <1>t, <2>1, NoRowsBetween
  <2> QED BY <2>1, <2>2 DEF PendingInv, Batches, KeysAfter, BatchTo
<1>3. CASE SyncBatch
  <2>1. PICK end \in BatchEnds(latest) : latest' = end
    BY <1>3 DEF SyncBatch
  <2>2. /\ pc = "loop" /\ UNCHANGED <<base, source>>
        /\ pc' = IF uncommitted' >= CommitInterval THEN "commit" ELSE "loop"
    BY <1>3 DEF SyncBatch
  <2>3. Batches(base, latest')
    BY <1>t, <2>1, <2>2, BatchesGrow DEF PendingInv
  <2>4. pc' = "commit" => base' < latest'
    <3>1. /\ uncommitted' \in 0 .. (latest' - base') /\ base' \in 0 .. KeyCount
          /\ latest' \in base' .. KeyCount
      BY Zenon DEF TypeOK
    <3>2. ASSUME NEW u, NEW b \in Nat, NEW l \in Nat, u \in 0 .. (l - b), u >= CommitInterval
          PROVE  b < l
      BY <3>2
    <3>3. base' \in Nat /\ latest' \in Nat
      BY <3>1
    <3> QED BY <2>2, <3>1, <3>2, <3>3
  <2> QED BY <2>2, <2>3, <2>4 DEF PendingInv, Batches, KeysAfter, BatchTo
<1>4. CASE EndOfRows
  <2>1. /\ pc = "loop" /\ UNCHANGED <<base, latest, uncommitted, source>>
        /\ pc' = IF uncommitted > 0 THEN "commit" ELSE "sweep"
    BY <1>4 DEF EndOfRows
  <2>2. pc' = "commit" => base' < latest'
    BY <2>1 DEF TypeOK
  <2> QED BY <2>1, <2>2 DEF PendingInv, Batches, KeysAfter, BatchTo
<1>5. CASE Commit
  <2>1. /\ pc = "commit" /\ pc' = "saving" /\ saved' = base /\ UNCHANGED <<latest, source, view>>
        /\ target' = view
    BY <1>5 DEF Commit
  <2> QED BY <2>1 DEF PendingInv, Batches, KeysAfter, BatchTo
<1>6. CASE SaveBatch
  <2>1. PICK end \in BatchEnds(saved) : saved' = end
    BY <1>6 DEF SaveBatch
  <2>2. pc = "saving" /\ UNCHANGED <<latest, source, target, view>>
    BY <1>6 DEF SaveBatch
  <2>3. end \in Nat /\ end <= latest /\ (end < latest => Batches(end, latest))
    BY <1>t, <2>1, <2>2, BatchesShrink, BatchEndsBounds DEF PendingInv
  <2>4. CASE end < latest
    <3>1. pc' = "saving"
      BY <1>6, <2>1, <2>2, <2>4 DEF SaveBatch
    <3> QED BY <2>1, <2>2, <2>3, <2>4, <3>1 DEF PendingInv, Batches, KeysAfter, BatchTo
  <2>5. CASE ~(end < latest)
    <3>1. pc' \in {"sweep", "loop"} /\ base' = latest
      BY <1>6, <2>1, <2>2, <2>5 DEF SaveBatch
    <3>2. Batches(latest, latest)
      BY <1>t, NoRowsBetween
    <3> QED BY <2>2, <3>1, <3>2 DEF PendingInv, Batches, KeysAfter, BatchTo
  <2> QED BY <2>4, <2>5
<1>7. CASE \/ SaveFailure \/ DeleteRows \/ CommitDelete \/ EndSyncKeys \/ CompleteTable
           \/ HandleError \/ SaveCancelled \/ BeginSyncKeysFails \/ SyncBatchFails
           \/ ReadFails \/ TailFails \/ Crash \/ EndRun \/ OtherTableCommits
           \/ \E m \in Modes : StartRun(m)
  <2>1. pc' \notin {"loop", "commit", "saving"}
    BY <1>7 DEF SaveFailure, DeleteRows, CommitDelete, EndSyncKeys, CompleteTable,
                HandleError, SaveCancelled, BeginSyncKeysFails, SyncBatchFails, ReadFails,
                TailFails, Crash, EndRun, OtherTableCommits, StartRun, Idle, Leave, Return
  <2> QED BY <1>1, <2>1
<1>8. CASE CommitFails \/ SaveBatchFails \/ Interrupt
  <2>1. pc' \in {"done", "except", "interrupted"}
    BY <1>8, Zenon DEF CommitFails, SaveBatchFails, Interrupt, Escape, Leave
  <2> QED BY <1>1, <2>1
<1>9. CASE SourceChanges
  <2>1. pc' = "done"
    BY <1>9 DEF SourceChanges, SyncInv, Resting
  <2> QED BY <1>1, <2>1
<1>10. CASE UNCHANGED vars
  BY <1>10 DEF vars, PendingInv, Batches, KeysAfter, BatchTo
<1> QED BY <1>2, <1>3, <1>4, <1>5, <1>6, <1>7, <1>8, <1>9, <1>10 DEF Next, Work, Trouble

(* What a checkpoint of a saved batch lets resume skip is in the target.   *)
LEMMA SavedStep ==
  ASSUME TypeOK, SyncInv, PendingInv, [Next]_vars, ckpt' # ckpt, ckpt'.status = "completed",
         NEW k \in 1 .. ckpt'.cursor, source[k] # Absent
  PROVE  target[k] = source[k]
<1>t. /\ saved \in Nat /\ latest \in Nat /\ latest <= KeyCount /\ KeyCount \in Nat
  BY DEF TypeOK
<1>1. SaveBatch \/ SaveBatchFails
  BY DEF Next, Work, Trouble, vars, tables, StartRun, EndRun, Idle, OtherTableCommits,
         SourceChanges, BeginSyncKeys, SyncBatch, SaveFailure, EndOfRows, Commit,
         DeleteRows, CommitDelete, EndSyncKeys, CompleteTable, HandleError, Record,
         SaveCancelled, BeginSyncKeysFails, SyncBatchFails, ReadFails, CommitFails,
         TailFails, Interrupt, Crash
<1>2. pc = "saving" /\ \E end \in BatchEnds(saved) : ckpt'.cursor = end
  BY <1>1 DEF SaveBatch, SaveBatchFails, Record
<1>3. PICK end \in BatchEnds(saved) : ckpt'.cursor = end
  BY <1>2
<1>4. end \in Nat /\ end <= latest
  BY <1>2, <1>t, BatchesShrink, BatchEndsBounds DEF PendingInv
<1>5. k \in Keys /\ k <= latest
  BY <1>3, <1>4, <1>t DEF Keys
<1>6. view[k] = source[k]
  BY <1>2, <1>5 DEF SyncInv, MirroredSoFar
<1> QED BY <1>2, <1>6 DEF PendingInv

(* A batch is recorded as completed only when every row of the source up   *)
(* to its end is in the target as the source has it, when the operator     *)
(* only uses migrate-data: for any tables, batch size and commit interval. *)
THEOREM SyncSavesMirroredBatches ==
  ASSUME Modes \subseteq {"migrate"}
  PROVE  Spec => SavedBatchesAreMirrored
<1>1. Init => PendingInv
  BY DEF Init, PendingInv
<1>2. TypeOK /\ TypeOK' /\ SyncInv /\ PendingInv /\ [Next]_vars => PendingInv'
  BY PendingStep
<1>3. TypeOK /\ SyncInv /\ PendingInv /\ [Next]_vars =>
        [ckpt' # ckpt /\ ckpt'.status = "completed" =>
           \A k \in 1 .. ckpt'.cursor : source[k] # Absent => target[k] = source[k]]_vars
  BY SavedStep
<1> QED BY <1>1, <1>2, <1>3, SyncInvariant, PTL DEF Spec, SavedBatchesAreMirrored
=============================================================================
