------------------------- MODULE DmlMigrationProofs -------------------------
(***************************************************************************)
(* Proofs about DmlMigration for every value of its constants: its type    *)
(* invariant, and that resumption is safe when every full batch is         *)
(* committed before the next one is read.                                  *)
(***************************************************************************)
EXTENDS DmlMigration, FiniteSetTheorems, TLAPS

USE ConstantsAssumption DEF Tables

-----------------------------------------------------------------------------
(* The operators the actions are built from.                               *)

(* A batch ends inside its table, and after its start unless the table has *)
(* ended (BatchEnd, from read_rows).                                       *)
LEMMA BatchEndBounds ==
  ASSUME NEW t \in Tables, NEW n \in Nat, n <= RowCount[t]
  PROVE  /\ BatchEnd(t, n) \in Nat
         /\ n <= BatchEnd(t, n)
         /\ BatchEnd(t, n) <= RowCount[t]
         /\ n < RowCount[t] => n < BatchEnd(t, n)
  BY DEF BatchEnd

(* Committing keeps the target well formed (commit of the adapters).       *)
LEMMA CommitOpenType ==
  ASSUME TargetOK, NEW t \in Tables, CommitOpen(t), broken' \in [Tables -> BOOLEAN]
  PROVE  TargetOK'
<1>1. DOMAIN copies' = Tables
  BY DEF CommitOpen
<1>2. ASSUME NEW u \in Tables PROVE copies'[u] \in [Rows(u) -> Nat]
  <2>1. copies[u] \in [Rows(u) -> Nat]
    BY DEF TargetOK
  <2>2. copies'[u] = [r \in Rows(u) |-> IF u \in Peers(t) /\ r \in open[u]
                                        THEN copies[u][r] + 1 ELSE copies[u][r]]
    BY DEF CommitOpen
  <2> QED BY <2>1, <2>2
<1>3. /\ open' \in [Tables -> SUBSET Nat]
      /\ \A u \in Tables : open'[u] \subseteq Rows(u)
  BY DEF CommitOpen, TargetOK
<1> QED BY <1>1, <1>2, <1>3 DEF TargetOK, Rows

(* A lost transaction keeps the target well formed.                        *)
LEMMA LoseOpenType ==
  ASSUME TargetOK, NEW t \in Tables, LoseOpen(t), broken' \in [Tables -> BOOLEAN]
  PROVE  TargetOK'
  BY DEF LoseOpen, TargetOK, Rows

(* So does a broken connection.                                            *)
LEMMA BreakType ==
  ASSUME TargetOK, NEW t \in Tables, Break(t)
  PROVE  broken' \in [Tables -> BOOLEAN]
  BY DEF Break, TargetOK

(* So does closing a worker's own connection (_close_target).              *)
LEMMA CloseOwnType ==
  ASSUME TargetOK, NEW t \in Tables, CloseOwn(t)
  PROVE  TargetOK'
  BY DEF CloseOwn, TargetOK, Rows

(* Rows of the table added to a worker's transaction keep the target well  *)
(* formed (write_batch of the adapters).                                   *)
LEMMA AddOpenType ==
  ASSUME TargetOK, NEW t \in Tables, NEW rows \in SUBSET Rows(t),
         open' = [open EXCEPT ![t] = @ \cup rows], UNCHANGED <<copies, broken>>
  PROVE  TargetOK'
<1>1. Rows(t) \subseteq Nat
  BY DEF Rows
<1>2. open[t] \cup rows \subseteq Rows(t)
  BY DEF TargetOK
<1>3. /\ open' \in [Tables -> SUBSET Nat]
      /\ \A u \in Tables : open'[u] \subseteq Rows(u)
  BY <1>1, <1>2 DEF TargetOK
<1> QED BY <1>3 DEF TargetOK, Rows

(* A checkpoint inside its table keeps the store well formed               *)
(* (_insert_checkpoint).                                                   *)
LEMMA RecordType ==
  ASSUME CheckpointOK, NEW t \in Tables, NEW status \in Statuses,
         NEW cursor \in Nat, NEW rows \in Nat, cursor <= RowCount[t],
         Record(t, status, cursor, rows)
  PROVE  CheckpointOK'
  BY DEF CheckpointOK, Record, Checkpoint

(* What a step of one worker leaves of its place and its result.           *)
Placed ==
  /\ pc' \in [Tables -> Labels]
  /\ result' \in [Tables -> Results]

(* ... and of the fault counters.                                          *)
Counted == faults' \in Nat /\ restarts' \in Nat

(* Moving a worker to another place of _migrate_one_table_with_target      *)
(* keeps its place one of the places.                                      *)
LEMMA GotoType ==
  ASSUME ControlOK, NEW t \in Tables, NEW label \in Labels, Goto(t, label)
  PROVE  Placed
  BY DEF ControlOK, Goto, Placed

(* So does a worker leaving _migrate_one_table with a status.              *)
LEMMA LeaveType ==
  ASSUME ControlOK, NEW t \in Tables, NEW status \in Results, Leave(t, status)
  PROVE  Placed
  BY DEF ControlOK, Leave, Placed, Labels

(* Returning closes a worker's own connection and leaves it with a status  *)
(* (the finally of _migrate_one_table).                                    *)
LEMMA ReturnType ==
  ASSUME TargetOK, ControlOK, NEW t \in Tables, NEW status \in Results,
         Return(t, status)
  PROVE  TargetOK' /\ Placed
  BY LeaveType, CloseOwnType DEF Return

(* A fault only advances the fault counter.                                *)
LEMMA FaultType ==
  ASSUME ControlOK, NEW kind, Fault(kind)
  PROVE  Counted
  BY DEF ControlOK, Fault, Counted

(* A step without a fault leaves the counters as they are.                 *)
LEMMA BoundsType ==
  ASSUME ControlOK, UNCHANGED bounds
  PROVE  Counted
  BY DEF ControlOK, bounds, Counted

(* A step that does not touch the target keeps it well formed.             *)
LEMMA TargetType ==
  ASSUME TargetOK, UNCHANGED target
  PROVE  TargetOK'
  BY DEF TargetOK, target, Rows

(* The last event of a table, published, cancelled or lost, leaves the     *)
(* worker with one of the statuses.                                        *)
LEMMA PublishAndReturnType ==
  ASSUME TargetOK, ControlOK, NEW t \in Tables, NEW status \in Results,
         PublishAndReturn(t, status)
  PROVE  TargetOK' /\ Placed /\ Counted
<1>1. CASE Return(t, IF cancel THEN "raised" ELSE status) /\ UNCHANGED bounds
  <2>1. (IF cancel THEN "raised" ELSE status) \in Results
    BY DEF Results
  <2> QED BY <1>1, <2>1, ReturnType, BoundsType
<1>2. CASE Return(t, "raised") /\ Fault("publish")
  <2>1. "raised" \in Results
    BY DEF Results
  <2> QED BY <1>2, <2>1, ReturnType, FaultType
<1> QED BY <1>1, <1>2 DEF PublishAndReturn

(* An exception leads to one of the two handlers or out of the function    *)
(* (the try statement of the read loop).                                   *)
LEMMA EscapeType ==
  ASSUME ControlOK, NEW t \in Tables, NEW handler \in Labels, Escape(t, handler)
  PROVE  Placed
  BY GotoType, LeaveType DEF Escape, Results

(* So does one after which the worker's own connection may be closed.      *)
LEMMA EscapeAndCloseType ==
  ASSUME TargetOK, ControlOK, NEW t \in Tables, NEW handler \in Labels,
         EscapeAndClose(t, handler)
  PROVE  TargetOK' /\ Placed
<1>1. "raised" \in Results
  BY DEF Results
<1> QED BY <1>1, ReturnType, GotoType, TargetType DEF EscapeAndClose

(* A worker's step that keeps running and cancel has the type of its parts *)
LEMMA ControlType ==
  ASSUME ControlOK, Placed, Counted, UNCHANGED <<running, cancel>>
  PROVE  ControlOK'
  BY DEF ControlOK, Placed, Counted

(* A step that records nothing keeps the checkpoint store well formed.     *)
LEMMA CheckpointType ==
  ASSUME CheckpointOK, UNCHANGED ckpt
  PROVE  CheckpointOK'
  BY DEF CheckpointOK

(* A step that moves no cursor keeps the cursors in their tables.          *)
LEMMA CursorsType ==
  ASSUME CursorsOK, UNCHANGED cursors
  PROVE  CursorsOK'
  BY DEF CursorsOK, cursors

(* The cursors of one table, as numbers.                                   *)
LEMMA CursorsOf ==
  ASSUME CursorsOK, NEW t \in Tables
  PROVE  /\ from[t] \in Nat /\ base[t] \in Nat /\ latest[t] \in Nat
         /\ saved[t] \in Nat /\ RowCount[t] \in Nat
         /\ from[t] <= base[t] /\ base[t] <= latest[t]
         /\ latest[t] <= RowCount[t] /\ saved[t] <= RowCount[t]
         /\ latest[t] - from[t] \in Nat /\ base[t] <= RowCount[t]
<1>1. /\ from[t] \in Nat /\ base[t] \in Nat /\ latest[t] \in Nat
      /\ saved[t] \in Nat /\ RowCount[t] \in Nat
      /\ from[t] <= base[t] /\ base[t] <= latest[t]
      /\ latest[t] <= RowCount[t] /\ saved[t] <= RowCount[t]
  BY DEF CursorsOK
<1> QED BY <1>1, SMTT(30)

(* A step that moves the cursors of one table within it.                   *)
LEMMA CursorsMove ==
  ASSUME CursorsOK, NEW t \in Tables,
         NEW b \in Nat, NEW l \in Nat, NEW s \in Nat, NEW a \in BOOLEAN,
         from[t] <= b, b <= l, l <= RowCount[t], s <= RowCount[t],
         UNCHANGED from,
         base' = [base EXCEPT ![t] = b], latest' = [latest EXCEPT ![t] = l],
         saved' = [saved EXCEPT ![t] = s], tail' = [tail EXCEPT ![t] = a]
  PROVE  CursorsOK'
<1>1. /\ from' \in [Tables -> Nat] /\ base' \in [Tables -> Nat]
      /\ latest' \in [Tables -> Nat] /\ saved' \in [Tables -> Nat]
      /\ tail' \in [Tables -> BOOLEAN]
  BY DEF CursorsOK
<1>2. ASSUME NEW u \in Tables
      PROVE  /\ from'[u] <= base'[u] /\ base'[u] <= latest'[u]
             /\ latest'[u] <= RowCount[u] /\ saved'[u] <= RowCount[u]
  <2>1. CASE u = t
    BY <2>1 DEF CursorsOK
  <2>2. CASE u # t
    BY <2>2 DEF CursorsOK
  <2> QED BY <2>1, <2>2
<1> QED BY <1>1, <1>2 DEF CursorsOK

(* What a table's other cursors are when EXCEPT leaves them alone.         *)
LEMMA CursorsSame ==
  ASSUME CursorsOK, NEW t \in Tables
  PROVE  /\ base = [base EXCEPT ![t] = base[t]]
         /\ latest = [latest EXCEPT ![t] = latest[t]]
         /\ saved = [saved EXCEPT ![t] = saved[t]]
         /\ tail = [tail EXCEPT ![t] = tail[t]]
         /\ tail[t] \in BOOLEAN
  BY DEF CursorsOK

(* What Preflight answers is a result (_preflight_table_result).           *)
LEMMA PreflightType ==
  ASSUME NEW t, NEW m
  PROVE  Preflight(t, m) \in Results
  BY DEF Preflight, Results

-----------------------------------------------------------------------------
(* Type correctness, one action at a time.                                 *)

(* Starting a table (the DML_STARTED event) preserves the type invariant.  *)
LEMMA StartTableType ==
  ASSUME TypeOK, NEW t \in Tables, StartTable(t)
  PROVE  TypeOK'
<1> USE DEF TypeOK
<1>1. TargetOK' /\ Placed /\ Counted
  BY ReturnType, GotoType, TargetType, BoundsType, FaultType
     DEF StartTable, Results, Labels
<1> QED BY <1>1, ControlType, CheckpointType, CursorsType DEF StartTable

(* Writing a batch preserves the type invariant: latest_cursor moves to    *)
(* the end of a batch, which is in the table.                              *)
LEMMA WriteBatchType ==
  ASSUME TypeOK, NEW t \in Tables, WriteBatch(t)
  PROVE  TypeOK'
<1> USE DEF TypeOK
<1>1. /\ latest[t] \in Nat /\ latest[t] <= RowCount[t]
      /\ RowCount[t] \in Nat
  BY CursorsOf
<1>2. /\ BatchEnd(t, latest[t]) \in Nat
      /\ latest[t] <= BatchEnd(t, latest[t])
      /\ BatchEnd(t, latest[t]) <= RowCount[t]
  BY <1>1, BatchEndBounds
<1>3. Batch(t) \subseteq Rows(t)
  BY <1>1, <1>2 DEF Batch, Between, Rows
<1>4. TargetOK'
  BY <1>3, AddOpenType DEF WriteBatch
<1>5. CursorsOK'
  <2>1. from[t] <= base[t] /\ base[t] <= BatchEnd(t, latest[t])
    BY <1>2, CursorsOf
  <2>2. /\ UNCHANGED from
        /\ base' = [base EXCEPT ![t] = base[t]]
        /\ latest' = [latest EXCEPT ![t] = BatchEnd(t, latest[t])]
        /\ saved' = [saved EXCEPT ![t] = saved[t]]
        /\ tail' = [tail EXCEPT ![t] = tail[t]]
    BY CursorsSame DEF WriteBatch
  <2> QED BY <1>2, <2>1, <2>2, CursorsMove, CursorsOf, CursorsSame
<1>6. Placed
  <2>1. (IF latest'[t] - base[t] >= CommitInterval THEN "commit" ELSE "loop") \in Labels
    BY DEF Labels
  <2> QED BY <2>1, GotoType DEF WriteBatch
<1> QED BY <1>4, <1>5, <1>6, BoundsType, ControlType, CheckpointType DEF WriteBatch

(* Running out of rows preserves the type invariant.                       *)
LEMMA EndOfRowsType ==
  ASSUME TypeOK, NEW t \in Tables, EndOfRows(t)
  PROVE  TypeOK'
<1> USE DEF TypeOK
<1>1. CursorsOK'
  BY DEF CursorsOK, EndOfRows
<1>2. Placed
  <2>1. (IF Uncommitted(t) > 0 THEN "commit" ELSE "complete") \in Labels
    BY DEF Labels
  <2> QED BY <2>1, GotoType DEF EndOfRows
<1> QED BY <1>1, <1>2, TargetType, BoundsType, ControlType, CheckpointType DEF EndOfRows

(* target.commit() preserves the type invariant.                           *)
LEMMA CommitType ==
  ASSUME TypeOK, NEW t \in Tables, Commit(t)
  PROVE  TypeOK'
<1> USE DEF TypeOK
<1>1. TargetOK'
  BY CommitOpenType DEF Commit, TargetOK
<1>2. CursorsOK'
  <2>1. /\ UNCHANGED from
        /\ base' = [base EXCEPT ![t] = base[t]]
        /\ latest' = [latest EXCEPT ![t] = latest[t]]
        /\ saved' = [saved EXCEPT ![t] = base[t]]
        /\ tail' = [tail EXCEPT ![t] = tail[t]]
    BY CursorsSame DEF Commit
  <2>2. base[t] <= RowCount[t]
    BY CursorsOf
  <2> QED BY <2>1, <2>2, CursorsMove, CursorsOf, CursorsSame
<1>3. Placed
  BY GotoType DEF Commit, Labels
<1> QED BY <1>1, <1>2, <1>3, BoundsType, ControlType, CheckpointType DEF Commit

(* The checkpoint of the next saved batch (save_batch_success and          *)
(* save_checkpoint_failure_after_commit).                                  *)
LEMMA RecordSavedType ==
  ASSUME TypeOK, NEW t \in Tables, NEW status \in Statuses, RecordSaved(t, status)
  PROVE  CheckpointOK'
<1>1. saved[t] \in Nat /\ saved[t] <= RowCount[t]
  BY CursorsOf DEF TypeOK
<1>2. /\ SavedNext(t) \in Nat /\ saved[t] <= SavedNext(t)
      /\ SavedNext(t) <= RowCount[t]
  BY <1>1, BatchEndBounds DEF SavedNext
<1>3. SavedNext(t) - saved[t] \in Nat
  BY <1>1, <1>2
<1> QED BY <1>2, <1>3, RecordType DEF RecordSaved, TypeOK

(* Saving one committed batch's checkpoint preserves the type invariant    *)
(* (_save_committed_batches).                                              *)
LEMMA SaveBatchType ==
  ASSUME TypeOK, NEW t \in Tables, SaveBatch(t)
  PROVE  TypeOK'
<1> USE DEF TypeOK
<1>1. CheckpointOK'
  BY RecordSavedType DEF SaveBatch, Statuses
<1>2. SavedNext(t) \in Nat /\ SavedNext(t) <= RowCount[t]
  BY CursorsOf, BatchEndBounds DEF SavedNext
<1>3. CursorsOK'
  <2>1. PICK b \in {base[t], latest[t]} : base' = [base EXCEPT ![t] = b]
    BY CursorsSame DEF SaveBatch
  <2>2. b \in Nat /\ from[t] <= b /\ b <= latest[t]
    BY <2>1, CursorsOf, SMTT(30)
  <2>3. /\ UNCHANGED from
        /\ latest' = [latest EXCEPT ![t] = latest[t]]
        /\ saved' = [saved EXCEPT ![t] = SavedNext(t)]
        /\ tail' = [tail EXCEPT ![t] = tail[t]]
    BY CursorsSame DEF SaveBatch
  <2> QED BY <1>2, <2>1, <2>2, <2>3, CursorsMove, CursorsOf, CursorsSame
<1>4. TargetOK' /\ Placed
  <2>1. CASE cancel /\ EscapeAndClose(t, "interrupted")
    BY <2>1, EscapeAndCloseType DEF Labels
  <2>2. CASE UNCHANGED <<pc, result, target>>
    BY <2>2, TargetType DEF Placed, ControlOK
  <2>3. CASE Goto(t, IF tail[t] THEN "complete" ELSE "loop") /\ UNCHANGED target
    <3>1. (IF tail[t] THEN "complete" ELSE "loop") \in Labels
      BY DEF Labels
    <3> QED BY <2>3, <3>1, GotoType, TargetType
  <2> QED BY <2>1, <2>2, <2>3 DEF SaveBatch
<1> QED BY <1>1, <1>3, <1>4, BoundsType, ControlType DEF SaveBatch

(* Recording a failed write preserves the type invariant                   *)
(* (save_batch_failure in the loop).                                       *)
LEMMA SaveFailureType ==
  ASSUME TypeOK, NEW t \in Tables, SaveFailure(t)
  PROVE  TypeOK'
<1> USE DEF TypeOK
<1>1. CheckpointOK'
  BY RecordType DEF SaveFailure, Statuses, CursorsOK
<1>2. TargetOK' /\ Placed /\ Counted
  BY ReturnType, GotoType, TargetType, BoundsType, FaultType
     DEF SaveFailure, Results, Labels
<1> QED BY <1>1, <1>2, ControlType, CursorsType DEF SaveFailure

(* The except Exception handler preserves the type invariant.              *)
LEMMA HandleErrorType ==
  ASSUME TypeOK, NEW t \in Tables, HandleError(t)
  PROVE  TypeOK'
<1> USE DEF TypeOK
<1>1. CheckpointOK'
  <2>1. base[t] \in Nat /\ base[t] <= RowCount[t]
    BY DEF CursorsOK
  <2> QED BY <2>1, RecordType, CheckpointType DEF HandleError, Statuses
<1>2. TargetOK' /\ Placed /\ Counted
  BY PublishAndReturnType DEF HandleError, Results
<1> QED BY <1>1, <1>2, ControlType, CursorsType DEF HandleError

(* The except KeyboardInterrupt handler preserves the type invariant.      *)
LEMMA SaveCancelledType ==
  ASSUME TypeOK, NEW t \in Tables, SaveCancelled(t)
  PROVE  TypeOK'
<1> USE DEF TypeOK
<1>1. CheckpointOK'
  BY RecordType DEF SaveCancelled, Statuses, CursorsOK
<1>2. TargetOK' /\ Placed /\ Counted
  BY PublishAndReturnType DEF SaveCancelled, Results
<1> QED BY <1>1, <1>2, ControlType, CursorsType DEF SaveCancelled

(* save_table_completed preserves the type invariant.                      *)
LEMMA CompleteTableType ==
  ASSUME TypeOK, NEW t \in Tables, CompleteTable(t)
  PROVE  TypeOK'
<1> USE DEF TypeOK
<1>1. CheckpointOK'
  <2>1. latest[t] \in Nat /\ latest[t] - from[t] \in Nat /\ latest[t] <= RowCount[t]
    BY CursorsOf
  <2> QED BY <2>1, RecordType DEF CompleteTable, Statuses
<1>2. TargetOK' /\ Placed /\ Counted
  BY PublishAndReturnType DEF CompleteTable, Results
<1> QED BY <1>1, <1>2, ControlType, CursorsType DEF CompleteTable

(* What a write that does not return leaves in the target.                 *)
LEMMA PartialType ==
  ASSUME TypeOK, NEW t \in Tables, PartialWrite(t) \/ BreakingWrite(t)
  PROVE  TargetOK'
<1> USE DEF TypeOK
<1>1. CASE PartialWrite(t)
  <2>1. PICK k \in latest[t] .. BatchEnd(t, latest[t]) - 1 :
          open' = [open EXCEPT ![t] = @ \cup Between(latest[t], k)]
    BY <1>1 DEF PartialWrite
  <2>2. /\ latest[t] \in Nat /\ BatchEnd(t, latest[t]) \in Nat
        /\ BatchEnd(t, latest[t]) <= RowCount[t]
    BY CursorsOf, BatchEndBounds
  <2>3. Between(latest[t], k) \subseteq Rows(t)
    BY <2>2, CursorsOf, SMTT(30) DEF Between, Rows
  <2> QED BY <1>1, <2>1, <2>3, AddOpenType DEF PartialWrite
<1>2. CASE BreakingWrite(t)
  BY <1>2, LoseOpenType, BreakType DEF BreakingWrite
<1> QED BY <1>1, <1>2

(* A write that fails, having written some rows or none, preserves the     *)
(* type invariant.                                                         *)
LEMMA WriteFailsType ==
  ASSUME TypeOK, NEW t \in Tables, WriteFails(t)
  PROVE  TypeOK'
<1> USE DEF TypeOK
<1>1. Counted
  BY FaultType, BoundsType DEF WriteFails
<1>2. TargetOK'
  BY PartialType DEF WriteFails
<1>3. Placed
  BY GotoType DEF WriteFails, Labels
<1> QED BY <1>1, <1>2, <1>3, ControlType, CheckpointType, CursorsType DEF WriteFails

(* A read that fails preserves the type invariant.                         *)
LEMMA ReadFailsType ==
  ASSUME TypeOK, NEW t \in Tables, ReadFails(t)
  PROVE  TypeOK'
<1> USE DEF TypeOK
<1>1. Placed /\ Counted
  BY GotoType, FaultType DEF ReadFails, Labels
<1> QED BY <1>1, TargetType, ControlType, CheckpointType, CursorsType DEF ReadFails

(* A commit that fails, done or not, preserves the type invariant.         *)
LEMMA CommitFailsType ==
  ASSUME TypeOK, NEW t \in Tables, CommitFails(t)
  PROVE  TypeOK'
<1> USE DEF TypeOK
<1>1. TargetOK'
  BY CommitOpenType, LoseOpenType, BreakType DEF CommitFails
<1>2. Placed /\ Counted
  BY EscapeType, FaultType, BoundsType DEF CommitFails, Labels
<1> QED BY <1>1, <1>2, ControlType, CheckpointType, CursorsType DEF CommitFails

(* An event that cannot be published after a saved checkpoint preserves    *)
(* the type invariant.                                                     *)
LEMMA PublishFailsType ==
  ASSUME TypeOK, NEW t \in Tables, PublishFails(t)
  PROVE  TypeOK'
<1> USE DEF TypeOK
<1>1. CheckpointOK'
  BY RecordSavedType DEF PublishFails, Statuses
<1>2. TargetOK' /\ Placed
  BY EscapeAndCloseType DEF PublishFails, Labels
<1> QED BY <1>1, <1>2, FaultType, ControlType, CursorsType DEF PublishFails

(* A checkpoint that cannot be saved after its commit preserves the type   *)
(* invariant.                                                              *)
LEMMA SaveBatchFailsType ==
  ASSUME TypeOK, NEW t \in Tables, SaveBatchFails(t)
  PROVE  TypeOK'
<1> USE DEF TypeOK
<1>1. CheckpointOK'
  BY RecordSavedType, CheckpointType DEF SaveBatchFails, Statuses
<1>2. TargetOK' /\ Placed
  <2>1. (IF cancel THEN "interrupted" ELSE "except") \in Labels
    BY DEF Labels
  <2> QED BY <2>1, EscapeAndCloseType DEF SaveBatchFails
<1> QED BY <1>1, <1>2, FaultType, ControlType, CursorsType DEF SaveBatchFails

(* A failure that cannot be recorded preserves the type invariant.         *)
LEMMA SaveFailureFailsType ==
  ASSUME TypeOK, NEW t \in Tables, SaveFailureFails(t)
  PROVE  TypeOK'
<1> USE DEF TypeOK
<1>1. Placed /\ Counted
  BY GotoType, FaultType DEF SaveFailureFails, Labels
<1> QED BY <1>1, TargetType, ControlType, CheckpointType, CursorsType
        DEF SaveFailureFails

(* A handler whose own checkpoint fails preserves the type invariant.      *)
LEMMA HandlerFailsType ==
  ASSUME TypeOK, NEW t \in Tables, HandlerFails(t)
  PROVE  TypeOK'
<1> USE DEF TypeOK
<1>1. TargetOK' /\ Placed /\ Counted
  BY ReturnType, FaultType DEF HandlerFails, Results
<1> QED BY <1>1, ControlType, CheckpointType, CursorsType DEF HandlerFails

(* A table_completed that cannot be saved preserves the type invariant.    *)
LEMMA CompleteTableFailsType ==
  ASSUME TypeOK, NEW t \in Tables, CompleteTableFails(t)
  PROVE  TypeOK'
<1> USE DEF TypeOK
<1>1. TargetOK' /\ Placed /\ Counted
  BY ReturnType, FaultType DEF CompleteTableFails, Results
<1> QED BY <1>1, ControlType, CheckpointType, CursorsType DEF CompleteTableFails

(* Ctrl+C at any place of a worker preserves the type invariant.           *)
LEMMA InterruptType ==
  ASSUME TypeOK, NEW t \in Tables, Interrupt(t)
  PROVE  TypeOK'
<1> USE DEF TypeOK
<1>1. Batch(t) \subseteq Rows(t)
  <2>1. latest[t] \in Nat /\ BatchEnd(t, latest[t]) \in Nat /\ BatchEnd(t, latest[t]) <= RowCount[t]
    BY CursorsOf, BatchEndBounds
  <2> QED BY <2>1, CursorsOf DEF Batch, Between, Rows
<1>2. TargetOK'
  <2>1. CASE UNCHANGED target
    BY <2>1, TargetType
  <2>2. CASE InterruptedWrite(t)
    BY <1>1, <2>2, PartialType, AddOpenType DEF InterruptedWrite
  <2>3. CASE InterruptedCommit(t)
    BY <2>3, CommitOpenType, LoseOpenType, BreakType DEF InterruptedCommit, TargetOK
  <2> QED BY <2>1, <2>2, <2>3 DEF Interrupt
<1>3. Placed /\ Counted
  BY LeaveType, EscapeType, FaultType DEF Interrupt, Results, Labels
<1> QED BY <1>2, <1>3, ControlType, CheckpointType, CursorsType DEF Interrupt

(* Where a run lets a table start lies inside the table (the resume plans).*)
LEMMA StartCursorType ==
  ASSUME CheckpointOK, NEW t \in Tables, NEW m
  PROVE  StartCursor(t, m) \in Nat /\ StartCursor(t, m) <= RowCount[t]
  BY DEF CheckpointOK, StartCursor

(* A new command, with its preflight and its resume plan, preserves the    *)
(* type invariant (migrate_tables).                                        *)
LEMMA StartRunType ==
  ASSUME TypeOK, NEW m, StartRun(m)
  PROVE  TypeOK'
<1> USE DEF TypeOK
<1>1. TargetOK' /\ CheckpointOK'
  BY TargetType, CheckpointType DEF StartRun
<1>2. CursorsOK'
  <2>1. /\ from' = [t \in Tables |-> StartCursor(t, m)]
        /\ base' = from' /\ latest' = from' /\ saved' = from'
        /\ tail' = [t \in Tables |-> FALSE]
    BY DEF StartRun
  <2>2. \A t \in Tables : StartCursor(t, m) \in Nat /\ StartCursor(t, m) <= RowCount[t]
    BY StartCursorType
  <2>3. from' \in [Tables -> Nat] /\ tail' \in [Tables -> BOOLEAN]
    BY <2>1, <2>2
  <2>4. \A t \in Tables : from'[t] \in Nat /\ from'[t] <= RowCount[t]
    BY <2>1, <2>2
  <2>5. \A t \in Tables : from'[t] <= from'[t]
    BY <2>4
  <2> QED BY <2>1, <2>3, <2>4, <2>5 DEF CursorsOK
<1>3. ControlOK'
  <2>1. pc' \in [Tables -> Labels]
    BY DEF StartRun, Labels
  <2>2. result' \in [Tables -> Results]
    <3>1. \A t \in Tables : (IF Selected(t, m) THEN Preflight(t, m) ELSE "none") \in Results
      BY PreflightType DEF Results
    <3> QED BY <3>1 DEF StartRun
  <2> QED BY <2>1, <2>2 DEF StartRun, ControlOK
<1> QED BY <1>1, <1>2, <1>3

(* Nothing of a run but its counters, its target and its checkpoints       *)
(* outlives the process.                                                   *)
LEMMA IdleType ==
  ASSUME TypeOK, Idle
  PROVE  /\ TargetOK' /\ CheckpointOK' /\ CursorsOK'
         /\ running' \in BOOLEAN /\ cancel' \in BOOLEAN
         /\ pc' \in [Tables -> Labels]
<1> USE DEF TypeOK
<1>1. TargetOK'
  BY DEF Idle, TargetOK, Rows
<1>2. CursorsOK'
  BY DEF Idle, CursorsOK
<1> QED BY <1>1, <1>2, CheckpointType DEF Idle, Labels

(* The end of a command preserves the type invariant.                      *)
LEMMA EndRunType ==
  ASSUME TypeOK, EndRun
  PROVE  TypeOK'
  BY IdleType DEF EndRun, Idle, TypeOK, ControlOK

(* A crash of the process preserves the type invariant.                    *)
LEMMA CrashType ==
  ASSUME TypeOK, Crash
  PROVE  TypeOK'
  BY IdleType, FaultType DEF Crash, Counted, TypeOK, ControlOK, Results

(* Pressing the cancel button preserves the type invariant.                *)
LEMMA RequestCancelType ==
  ASSUME TypeOK, RequestCancel
  PROVE  TypeOK'
<1>1. Counted
  BY FaultType DEF RequestCancel, TypeOK
<1> QED BY <1>1, TargetType, CheckpointType, CursorsType
        DEF RequestCancel, Counted, TypeOK, ControlOK

(* A step of the rest of the world preserves the type invariant.           *)
LEMMA StutterType ==
  ASSUME TypeOK, UNCHANGED vars
  PROVE  TypeOK'
  BY TargetType, CheckpointType, CursorsType
     DEF vars, bounds, TypeOK, ControlOK

(* Before the first command of a job the type invariant holds.             *)
LEMMA InitType ==
  ASSUME Init
  PROVE  TypeOK
<1>1. TargetOK
  BY DEF Init, TargetOK
<1>2. CheckpointOK
  BY DEF Init, CheckpointOK, NoCheckpoint, Checkpoint, Statuses
<1>3. CursorsOK
  BY DEF Init, CursorsOK
<1>4. ControlOK
  BY DEF Init, ControlOK, Labels, Results
<1> QED BY <1>1, <1>2, <1>3, <1>4 DEF TypeOK

(* The type invariant of the row copy: whatever the tables, batch sizes,   *)
(* faults and commands, no worker's cursor and no checkpoint's leaves its  *)
(* table, and resuming starts at or before what the run has read.          *)
THEOREM TypeCorrect == Spec => []TypeOK
<1>1. Init => TypeOK
  BY InitType
<1>2. TypeOK /\ [Next]_vars => TypeOK'
  <2> SUFFICES ASSUME TypeOK, [Next]_vars PROVE TypeOK'
    OBVIOUS
  <2>1. ASSUME NEW m \in AllModes, StartRun(m) PROVE TypeOK'
    BY <2>1, StartRunType
  <2>2. ASSUME NEW t \in Tables, Work(t) PROVE TypeOK'
    BY <2>2, StartTableType, WriteBatchType, EndOfRowsType, CommitType,
       SaveBatchType, SaveFailureType, HandleErrorType, SaveCancelledType,
       CompleteTableType DEF Work
  <2>3. ASSUME NEW t \in Tables, Trouble(t) PROVE TypeOK'
    BY <2>3, WriteFailsType, ReadFailsType, CommitFailsType, PublishFailsType,
       SaveBatchFailsType, SaveFailureFailsType, HandlerFailsType,
       CompleteTableFailsType, InterruptType DEF Trouble
  <2> QED BY <2>1, <2>2, <2>3, EndRunType, CrashType, RequestCancelType,
             StutterType DEF Next
<1> QED BY <1>1, <1>2, PTL DEF Spec

-----------------------------------------------------------------------------
(* Safe resumption.                                                        *)

(* The configurations for which it holds: a full batch is never left       *)
(* uncommitted while the next one is read, and no Ctrl+C strikes.          *)
Durable ==
  /\ \A t \in Tables : CommitInterval <= BatchSize[t]
  /\ "interrupt" \notin Faults

Covered(t, n) == InTarget(t, Between(0, n))

(* What the latest checkpoint of a table is worth.                         *)
CheckpointInv(t) ==
  /\ Covered(t, ckpt[t].cursor)
  /\ Completed(t) => ckpt[t].cursor = RowCount[t]

(* What a worker knows at each place: what it has recorded or may record   *)
(* is in the target, and what it still has to commit is in its transaction *)
(* and is one batch.                                                       *)
Pending(t) ==
  /\ Covered(t, base[t])
  /\ base[t] < latest[t] => latest[t] = BatchEnd(t, base[t])
  /\ tail[t] => latest[t] = RowCount[t]

WorkerInv(t) ==
  /\ Pending(t)
  /\ pc[t] \in {"waiting", "writeFailed"} => base[t] = latest[t]
  /\ pc[t] = "loop" => base[t] = latest[t] \/ latest[t] = RowCount[t]
  /\ pc[t] \in {"loop", "commit"} => Between(base[t], latest[t]) \subseteq open[t]
  /\ pc[t] \in {"commit", "saving"} => base[t] < latest[t]
  /\ pc[t] \in {"saving", "interrupted", "complete"} => Covered(t, latest[t])
  /\ pc[t] = "saving" => saved[t] = base[t]
  /\ pc[t] = "complete" => latest[t] = RowCount[t]

TableInv(t) == CheckpointInv(t) /\ (pc[t] # "done" => WorkerInv(t))

(* Workers that share a connection take turns.                             *)
TakeTurns == Shared => \A t, u \in Tables : Active(t) /\ Active(u) => t = u

IInv == TypeOK /\ TakeTurns /\ \A t \in Tables : TableInv(t)

(* What a step may do to the target as far as worker t's peers can see.    *)
Grows ==
  \A u \in Tables : \A r \in Rows(u) : copies[u][r] > 0 => copies'[u][r] > 0

Elsewhere(t) ==
  Grows /\ \A u \in Tables : u # t /\ Active(u) => open[u] \subseteq open'[u]

(* ... and to the workers themselves.                                      *)
OnlyWorker(t) ==
  \A u \in Tables : u # t =>
    /\ pc'[u] = pc[u] /\ ckpt'[u] = ckpt[u] /\ base'[u] = base[u]
    /\ latest'[u] = latest[u] /\ saved'[u] = saved[u] /\ tail'[u] = tail[u]

(* A step that leaves the target alone takes nothing from the other        *)
(* workers.                                                                *)
LEMMA UnchangedElsewhere ==
  ASSUME UNCHANGED target, NEW t \in Tables
  PROVE  Elsewhere(t)
  BY DEF target, Elsewhere, Grows

(* Neither does a write into a worker's own part of the transaction.       *)
LEMMA OwnOpenElsewhere ==
  ASSUME TargetOK, UNCHANGED copies, NEW t \in Tables, NEW rows,
         open' = [open EXCEPT ![t] = rows]
  PROVE  Elsewhere(t)
  BY DEF TargetOK, Elsewhere, Grows

(* Neither does closing a worker's own connection (_close_target).         *)
LEMMA CloseOwnElsewhere ==
  ASSUME TargetOK, NEW t \in Tables, CloseOwn(t)
  PROVE  Elsewhere(t)
<1>1. CASE Shared
  BY <1>1 DEF CloseOwn, Elsewhere, Grows
<1>2. CASE ~Shared
  BY <1>2, OwnOpenElsewhere DEF CloseOwn
<1> QED BY <1>1, <1>2

(* The peers of a working worker's connection have nothing open on it.     *)
LEMMA PeersIdle ==
  ASSUME TakeTurns, NEW t \in Tables, Active(t),
         NEW u \in Tables, u # t, Active(u)
  PROVE  u \notin Peers(t)
  BY DEF TakeTurns, Peers

(* A commit takes nothing away, and puts what was open on the worker's     *)
(* connection in the target (commit of the adapters).                      *)
LEMMA CommitOpenElsewhere ==
  ASSUME TargetOK, TakeTurns, NEW t \in Tables, Active(t), CommitOpen(t)
  PROVE  Elsewhere(t) /\ \A r \in open[t] : copies'[t][r] > 0
<1>1. ASSUME NEW u \in Tables, NEW r \in Rows(u)
      PROVE  /\ copies[u][r] \in Nat
             /\ copies'[u][r] = IF u \in Peers(t) /\ r \in open[u]
                                THEN copies[u][r] + 1 ELSE copies[u][r]
             /\ copies[u][r] > 0 => copies'[u][r] > 0
  <2>1. copies[u] \in [Rows(u) -> Nat]
    BY DEF TargetOK
  <2>2. copies'[u] = [i \in Rows(u) |-> IF u \in Peers(t) /\ i \in open[u]
                                        THEN copies[u][i] + 1 ELSE copies[u][i]]
    BY DEF CommitOpen
  <2> QED BY <2>1, <2>2
<1>2. Grows
  BY <1>1 DEF Grows
<1>3. ASSUME NEW u \in Tables, u # t, Active(u)
      PROVE  open[u] \subseteq open'[u]
  BY <1>3, PeersIdle DEF CommitOpen
<1>4. ASSUME NEW r \in open[t] PROVE copies'[t][r] > 0
  <2>1. r \in Rows(t) /\ t \in Peers(t)
    BY DEF TargetOK, Peers
  <2>2. copies[t][r] \in Nat /\ copies'[t][r] = copies[t][r] + 1
    BY <1>1, <2>1, Zenon
  <2> QED BY <2>2
<1> QED BY <1>2, <1>3, <1>4 DEF Elsewhere

(* A lost transaction holds rows of its worker's peers only, and these     *)
(* have nothing pending.                                                   *)
LEMMA LoseOpenElsewhere ==
  ASSUME TakeTurns, NEW t \in Tables, Active(t), LoseOpen(t)
  PROVE  Elsewhere(t)
<1>1. ASSUME NEW u \in Tables, u # t, Active(u)
      PROVE  open[u] \subseteq open'[u]
  BY <1>1, PeersIdle DEF LoseOpen
<1> QED BY <1>1 DEF Elsewhere, Grows, LoseOpen

(* What is covered stays covered.                                          *)
LEMMA CoveredStays ==
  ASSUME Grows, NEW t \in Tables, NEW n \in Nat, n <= RowCount[t], Covered(t, n)
  PROVE  \A r \in Between(0, n) : copies'[t][r] > 0
<1>1. Between(0, n) \subseteq Rows(t)
  BY DEF Between, Rows
<1> QED BY <1>1 DEF Grows, Covered, InTarget

(* A checkpoint that is not written keeps its worth.                       *)
LEMMA CheckpointStays ==
  ASSUME TypeOK, Grows, NEW t \in Tables, CheckpointInv(t), ckpt'[t] = ckpt[t]
  PROVE  CheckpointInv(t)'
<1>1. ckpt[t].cursor \in Nat /\ ckpt[t].cursor <= RowCount[t]
  BY DEF TypeOK, CheckpointOK
<1>2. \A r \in Between(0, ckpt[t].cursor) : copies'[t][r] > 0
  BY <1>1, CoveredStays DEF CheckpointInv
<1> QED BY <1>2 DEF CheckpointInv, Covered, InTarget, Completed, Between

(* A checkpoint written at a covered cursor is worth it.                   *)
LEMMA CheckpointWritten ==
  ASSUME TypeOK, Grows, NEW t \in Tables, NEW status, NEW rows,
         NEW cursor \in Nat, cursor <= RowCount[t], Covered(t, cursor),
         status = "table_completed" => cursor = RowCount[t],
         Record(t, status, cursor, rows)
  PROVE  CheckpointInv(t)'
<1>1. ckpt'[t] = Checkpoint(status, cursor, rows)
  BY DEF Record, TypeOK, CheckpointOK
<1>2. \A r \in Between(0, cursor) : copies'[t][r] > 0
  BY CoveredStays
<1> QED BY <1>1, <1>2 DEF CheckpointInv, Covered, InTarget, Completed, Between, Checkpoint

(* So does what is pending, for a worker whose cursors stay.               *)
LEMMA PendingStays ==
  ASSUME TypeOK, Grows, NEW t \in Tables, Pending(t),
         base'[t] = base[t], latest'[t] = latest[t],
         tail'[t] => latest[t] = RowCount[t]
  PROVE  Pending(t)'
<1>1. \A r \in Between(0, base[t]) : copies'[t][r] > 0
  BY CoveredStays, CursorsOf DEF Pending, TypeOK
<1> QED BY <1>1 DEF Pending, Covered, InTarget, Between, BatchEnd

(* A step of worker t leaves every other table as it is.                   *)
LEMMA OthersStay ==
  ASSUME TypeOK, NEW t \in Tables, Elsewhere(t), OnlyWorker(t),
         NEW u \in Tables, u # t, TableInv(u)
  PROVE  TableInv(u)'
<1>1. CheckpointInv(u)'
  BY CheckpointStays DEF OnlyWorker, Elsewhere, TableInv
<1>2. ASSUME pc'[u] # "done" PROVE WorkerInv(u)'
  <2>1. WorkerInv(u)
    BY <1>2 DEF TableInv, OnlyWorker
  <2>2. /\ pc'[u] = pc[u] /\ base'[u] = base[u] /\ latest'[u] = latest[u]
        /\ saved'[u] = saved[u] /\ tail'[u] = tail[u]
    BY DEF OnlyWorker
  <2>3. Pending(u)'
    BY <2>1, <2>2, PendingStays DEF WorkerInv, Pending, Elsewhere
  <2>4. pc[u] \in {"loop", "commit"} => Between(base[u], latest[u]) \subseteq open'[u]
    BY <2>1 DEF WorkerInv, Elsewhere, Active
  <2>5. Covered(u, latest[u]) => Covered(u, latest[u])'
    <3>1. ASSUME Covered(u, latest[u])
          PROVE  \A r \in Between(0, latest[u]) : copies'[u][r] > 0
      BY <3>1, CoveredStays, CursorsOf DEF TypeOK, Elsewhere
    <3> QED BY <2>2, <3>1 DEF Covered, InTarget, Between
  <2> QED BY <2>1, <2>2, <2>3, <2>4, <2>5 DEF WorkerInv, Between
<1> QED BY <1>1, <1>2 DEF TableInv

(* A worker that goes on does not take another one's turn.                 *)
LEMMA TurnStays ==
  ASSUME TakeTurns, NEW t \in Tables, Active(t), OnlyWorker(t)
  PROVE  TakeTurns'
  BY DEF TakeTurns, OnlyWorker, Active, Shared

(* The invariant is preserved by a step of a worker that goes on and       *)
(* answers for its own table.                                              *)
LEMMA WorkerStep ==
  ASSUME IInv, TypeOK', NEW t \in Tables, Active(t),
         Elsewhere(t), OnlyWorker(t), TableInv(t)'
  PROVE  IInv'
<1>1. TakeTurns'
  BY TurnStays DEF IInv
<1>2. \A u \in Tables : TableInv(u)'
  BY OthersStay DEF IInv
<1> QED BY <1>1, <1>2 DEF IInv

-----------------------------------------------------------------------------
(* ... and one action at a time.                                           *)

(* With one worker a table starts when no other one is being copied (the   *)
(* loop over the plans).                                                   *)
LEMMA StartsAlone ==
  ASSUME Shared, NEW t \in Tables, StartTable(t)
  PROVE  \A u \in Tables : ~Active(u)
<1> DEFINE working == {u \in Tables : Active(u)}
<1>1. Cardinality(working) < 1
  BY DEF StartTable, Shared
<1> HIDE DEF working
<1>2. IsFiniteSet(Tables)
  BY FS_Interval
<1>3. working \in SUBSET Tables
  BY DEF working
<1>4. IsFiniteSet(working)
  BY <1>2, <1>3, FS_Subset
<1>5. Cardinality(working) \in Nat
  BY <1>4, FS_CardinalityType
<1>6. Cardinality(working) = 0
  BY <1>1, <1>5
<1>7. working = {}
  BY <1>4, <1>6, FS_EmptySet
<1> QED BY <1>7 DEF working

(* StartTable: a worker starts with nothing pending behind a covered       *)
(* cursor.                                                                 *)
LEMMA StartTableSafe ==
  ASSUME IInv, TypeOK', NEW t \in Tables, StartTable(t)
  PROVE  IInv'
<1> USE DEF IInv
<1>1. Elsewhere(t)
  BY UnchangedElsewhere, CloseOwnElsewhere DEF StartTable, Return, TypeOK
<1>2. OnlyWorker(t)
  BY DEF StartTable, Return, Leave, Goto, OnlyWorker, cursors, TypeOK, ControlOK
<1>3. TakeTurns'
  <2>1. ASSUME Shared PROVE \A u \in Tables : ~Active(u)
    BY <2>1, StartsAlone
  <2>2. ASSUME Shared, NEW u \in Tables, Active(u)' PROVE u = t
    BY <1>2, <2>1, <2>2 DEF OnlyWorker, Active
  <2> QED BY <2>2 DEF TakeTurns, Shared
<1>4. TableInv(t)'
  <2>1. CheckpointInv(t)'
    BY <1>1, CheckpointStays DEF StartTable, Elsewhere, TableInv
  <2>2. ASSUME pc'[t] # "done" PROVE WorkerInv(t)'
    <3>1. pc'[t] = "loop" /\ UNCHANGED <<target, cursors>>
      BY <2>2 DEF StartTable, Return, Leave, Goto, TypeOK, ControlOK
    <3>2. WorkerInv(t) /\ base[t] = latest[t] /\ base[t] \in Nat
      BY CursorsOf DEF TableInv, WorkerInv, StartTable, TypeOK
    <3>3. Pending(t)'
      BY <1>1, <3>1, <3>2, PendingStays DEF WorkerInv, Pending, Elsewhere, cursors
    <3>4. Between(base[t], latest[t])' = {}
      BY <3>1, <3>2 DEF Between, cursors
    <3> QED BY <3>1, <3>2, <3>3, <3>4 DEF WorkerInv, cursors
  <2> QED BY <2>1, <2>2 DEF TableInv
<1> QED BY <1>1, <1>2, <1>3, <1>4, OthersStay

(* Going to another place moves only that worker.                          *)
LEMMA GotoOnly ==
  ASSUME ControlOK, NEW t \in Tables, NEW label, Goto(t, label)
  PROVE  pc'[t] = label /\ \A u \in Tables : u # t => pc'[u] = pc[u]
  BY DEF Goto, ControlOK

(* Leaving moves only that worker.                                         *)
LEMMA LeaveOnly ==
  ASSUME ControlOK, NEW t \in Tables, NEW status, Leave(t, status)
  PROVE  pc'[t] = "done" /\ \A u \in Tables : u # t => pc'[u] = pc[u]
  BY DEF Leave, ControlOK

(* A checkpoint is one table's: recording it leaves the others'            *)
(* (checkpoints are keyed by job and table).                               *)
LEMMA RecordOnly ==
  ASSUME NEW t \in Tables, NEW status, NEW cursor, NEW rows,
         Record(t, status, cursor, rows)
  PROVE  \A u \in Tables : u # t => ckpt'[u] = ckpt[u]
  BY DEF Record

(* A step of worker t that moves its place, its checkpoint and no cursor   *)
(* but saved and base.                                                     *)
LEMMA Only ==
  ASSUME NEW t \in Tables,
         \A u \in Tables : u # t => pc'[u] = pc[u] /\ ckpt'[u] = ckpt[u],
         UNCHANGED cursors
  PROVE  OnlyWorker(t)
  BY DEF OnlyWorker, cursors

(* A worker that returns, with the checkpoint it leaves behind in order.   *)
LEMMA LeaveSafe ==
  ASSUME IInv, TypeOK', NEW t \in Tables, Active(t), pc'[t] = "done",
         Elsewhere(t), OnlyWorker(t), CheckpointInv(t)'
  PROVE  IInv'
  BY WorkerStep DEF TableInv

(* A worker that enters one of the handlers.                               *)
LEMMA HandlerSafe ==
  ASSUME IInv, TypeOK', NEW t \in Tables, Active(t),
         pc'[t] \in {"except", "interrupted"},
         Elsewhere(t), OnlyWorker(t), CheckpointInv(t)',
         base'[t] = base[t], latest'[t] = latest[t], tail'[t] = tail[t],
         pc'[t] = "interrupted" => Covered(t, latest[t])
  PROVE  IInv'
<1>1. WorkerInv(t)
  BY DEF IInv, TableInv, Active
<1>2. Pending(t)'
  BY <1>1, PendingStays DEF WorkerInv, Pending, Elsewhere, IInv
<1>3. Covered(t, latest[t]) => Covered(t, latest[t])'
  <2>1. ASSUME Covered(t, latest[t])
        PROVE  \A r \in Between(0, latest[t]) : copies'[t][r] > 0
    BY <2>1, CoveredStays, CursorsOf DEF IInv, TypeOK, Elsewhere
  <2> QED BY <2>1 DEF Covered, InTarget, Between
<1>4. WorkerInv(t)'
  BY <1>2, <1>3 DEF WorkerInv
<1> QED BY <1>4, WorkerStep DEF TableInv

(* WriteBatch: what is pending is one batch, all of it in the transaction, *)
(* and a full one is committed next.                                       *)
LEMMA WriteBatchSafe ==
  ASSUME Durable, IInv, TypeOK', NEW t \in Tables, WriteBatch(t)
  PROVE  IInv'
<1> USE DEF IInv
<1>1. Active(t) /\ pc[t] = "loop" /\ latest[t] < RowCount[t]
  BY DEF WriteBatch, Reading, Active
<1>2. WorkerInv(t) /\ CheckpointInv(t)
  BY <1>1 DEF TableInv
<1>3. base[t] = latest[t] /\ base[t] \in Nat /\ RowCount[t] \in Nat /\ ~tail[t]
  <2>1. base[t] \in Nat /\ latest[t] \in Nat /\ RowCount[t] \in Nat
    BY CursorsOf DEF TypeOK
  <2> QED BY <1>1, <1>2, <2>1 DEF WorkerInv, Pending
<1> DEFINE end == BatchEnd(t, base[t])
<1>4. /\ end \in Nat /\ base[t] < end /\ end <= RowCount[t]
      /\ end = RowCount[t] \/ end = base[t] + BatchSize[t]
  BY <1>1, <1>3, BatchEndBounds DEF BatchEnd
<1>5. /\ open' = [open EXCEPT ![t] = open[t] \cup Between(base[t], end)]
      /\ UNCHANGED <<copies, ckpt, base, saved, tail>>
  BY <1>3 DEF WriteBatch, Batch
<1>6. /\ latest'[t] = end
      /\ \A u \in Tables : u # t => latest'[u] = latest[u]
  BY <1>3 DEF WriteBatch, TypeOK, CursorsOK
<1>7. /\ pc'[t] = IF end - base[t] >= CommitInterval THEN "commit" ELSE "loop"
      /\ \A u \in Tables : u # t => pc'[u] = pc[u]
  BY <1>6, GotoOnly DEF WriteBatch, TypeOK
<1>8. Elsewhere(t)
  BY <1>5, OwnOpenElsewhere DEF TypeOK
<1>9. OnlyWorker(t)
  BY <1>5, <1>6, <1>7 DEF OnlyWorker
<1>10. CheckpointInv(t)'
  BY <1>2, <1>5, <1>8, CheckpointStays DEF Elsewhere
<1>11. WorkerInv(t)'
  <2>1. Pending(t)'
    <3>1. Covered(t, base[t])'
      BY <1>2, <1>5 DEF WorkerInv, Pending, Covered, InTarget, Between
    <3> QED BY <1>3, <1>5, <1>6, <3>1 DEF Pending, BatchEnd
  <2>2. Between(base[t], latest[t])' \subseteq open'[t]
    BY <1>5, <1>6 DEF Between, TypeOK, TargetOK
  <2>3. pc'[t] = "loop" => latest'[t] = RowCount[t]
    <3>1. CommitInterval <= BatchSize[t]
      BY DEF Durable
    <3>2. BatchSize[t] \in Nat /\ CommitInterval \in Nat
      OBVIOUS
    <3>3. CASE end = RowCount[t]
      BY <1>6, <3>3
    <3>4. CASE end = base[t] + BatchSize[t]
      <4>1. end - base[t] >= CommitInterval
        BY <1>3, <3>1, <3>2, <3>4
      <4> QED BY <1>7, <4>1
    <3> QED BY <1>4, <3>3, <3>4
  <2>4. base'[t] < latest'[t] /\ pc'[t] \in {"commit", "loop"}
    BY <1>4, <1>5, <1>6, <1>7
  <2> QED BY <2>1, <2>2, <2>3, <2>4 DEF WorkerInv
<1> QED BY <1>1, <1>8, <1>9, <1>10, <1>11, WorkerStep DEF TableInv

(* EndOfRows: what is pending when the rows run out is the last, short     *)
(* batch, and it goes to the final commit.                                 *)
LEMMA EndOfRowsSafe ==
  ASSUME IInv, TypeOK', NEW t \in Tables, EndOfRows(t)
  PROVE  IInv'
<1> USE DEF IInv
<1>1. Active(t) /\ pc[t] = "loop" /\ latest[t] = RowCount[t]
  BY DEF EndOfRows, Active
<1>2. WorkerInv(t) /\ CheckpointInv(t)
  BY <1>1 DEF TableInv
<1>3. /\ UNCHANGED <<target, ckpt, base, latest, saved>> /\ UNCHANGED open
      /\ \A u \in Tables : u # t => tail'[u] = tail[u]
  BY DEF EndOfRows, target, TypeOK, CursorsOK
<1>4. /\ pc'[t] = IF latest[t] - base[t] > 0 THEN "commit" ELSE "complete"
      /\ \A u \in Tables : u # t => pc'[u] = pc[u]
  BY GotoOnly DEF EndOfRows, Uncommitted, TypeOK
<1>5. Elsewhere(t)
  BY <1>3, UnchangedElsewhere
<1>6. OnlyWorker(t)
  BY <1>3, <1>4 DEF OnlyWorker
<1>7. CheckpointInv(t)'
  BY <1>2, <1>3, <1>5, CheckpointStays DEF Elsewhere
<1>8. base[t] \in Nat /\ latest[t] \in Nat /\ base[t] <= latest[t]
  BY CursorsOf DEF TypeOK
<1>9. WorkerInv(t)'
  <2>1. Pending(t)'
    BY <1>1, <1>2, <1>3, <1>5, PendingStays DEF WorkerInv, Elsewhere
  <2>2. Between(base[t], latest[t])' \subseteq open'[t]
    BY <1>1, <1>2, <1>3 DEF Between, WorkerInv
  <2>3. CASE base[t] < latest[t]
    BY <1>3, <1>4, <1>8, <2>1, <2>2, <2>3 DEF WorkerInv
  <2>4. CASE base[t] = latest[t]
    <3>1. Covered(t, latest[t])'
      BY <1>3, <2>1, <2>4 DEF Pending
    <3> QED BY <1>1, <1>3, <1>4, <1>8, <2>1, <2>4, <3>1 DEF WorkerInv
  <2> QED BY <1>8, <2>3, <2>4
<1> QED BY <1>1, <1>5, <1>6, <1>7, <1>9, WorkerStep DEF TableInv

(* Committing is what makes the pending batch covered.                     *)
LEMMA CommitSafe ==
  ASSUME IInv, TypeOK', NEW t \in Tables, Commit(t)
  PROVE  IInv'
<1> USE DEF IInv
<1>1. Active(t) /\ pc[t] = "commit"
  BY DEF Commit, Active
<1>2. WorkerInv(t) /\ CheckpointInv(t)
  BY <1>1 DEF TableInv
<1>3. /\ UNCHANGED <<ckpt, base, latest, tail>>
      /\ saved'[t] = base[t]
      /\ \A u \in Tables : u # t => saved'[u] = saved[u]
  BY DEF Commit, TypeOK, CursorsOK
<1>4. /\ pc'[t] = "saving"
      /\ \A u \in Tables : u # t => pc'[u] = pc[u]
  BY GotoOnly DEF Commit, TypeOK
<1>5. Elsewhere(t) /\ \A r \in open[t] : copies'[t][r] > 0
  BY <1>1, CommitOpenElsewhere DEF Commit, TypeOK
<1>6. OnlyWorker(t)
  BY <1>3, <1>4 DEF OnlyWorker
<1>7. CheckpointInv(t)'
  BY <1>2, <1>3, <1>5, CheckpointStays DEF Elsewhere
<1>8. base[t] \in Nat /\ latest[t] \in Nat /\ base[t] <= latest[t]
      /\ base[t] <= RowCount[t]
  BY CursorsOf DEF TypeOK
<1>9. Pending(t)'
  BY <1>2, <1>3, <1>5, PendingStays DEF WorkerInv, Pending, Elsewhere
<1>10. Covered(t, latest[t])'
  <2>1. \A r \in Between(0, base[t]) : copies'[t][r] > 0
    BY <1>2, <1>5, <1>8, CoveredStays DEF Elsewhere, WorkerInv, Pending
  <2>2. \A r \in Between(base[t], latest[t]) : copies'[t][r] > 0
    BY <1>1, <1>2, <1>5 DEF WorkerInv
  <2>3. Between(0, latest[t]) \subseteq Between(0, base[t]) \cup Between(base[t], latest[t])
    BY <1>8 DEF Between
  <2> QED BY <1>3, <2>1, <2>2, <2>3 DEF Covered, InTarget, Between
<1>11. WorkerInv(t)'
  BY <1>1, <1>2, <1>3, <1>4, <1>9, <1>10 DEF WorkerInv
<1> QED BY <1>1, <1>5, <1>6, <1>7, <1>11, WorkerStep DEF TableInv

(* After a commit the one pending batch is the one that is recorded.       *)
LEMMA SavingOneBatch ==
  ASSUME IInv, NEW t \in Tables, pc[t] = "saving"
  PROVE  /\ Active(t) /\ WorkerInv(t) /\ CheckpointInv(t)
         /\ SavedNext(t) = latest[t] /\ Covered(t, latest[t])
<1>1. Active(t) /\ WorkerInv(t) /\ CheckpointInv(t)
  BY DEF IInv, TableInv, Active
<1> QED BY <1>1 DEF WorkerInv, Pending, SavedNext

(* Recording it is safe, with either status.                               *)
LEMMA RecordSavedSafe ==
  ASSUME IInv, NEW t \in Tables, pc[t] = "saving", Elsewhere(t),
         NEW status, status # "table_completed", RecordSaved(t, status)
  PROVE  CheckpointInv(t)' /\ \A u \in Tables : u # t => ckpt'[u] = ckpt[u]
<1>1. SavedNext(t) \in Nat /\ SavedNext(t) <= RowCount[t] /\ Covered(t, SavedNext(t))
  BY SavingOneBatch, CursorsOf DEF IInv, TypeOK
<1> QED BY <1>1, CheckpointWritten, RecordOnly DEF RecordSaved, Elsewhere, IInv

(* An exception after the commit: everything pending is covered.           *)
LEMMA EscapeAndCloseSafe ==
  ASSUME IInv, TypeOK', NEW t \in Tables, pc[t] = "saving",
         NEW handler \in {"except", "interrupted"}, EscapeAndClose(t, handler),
         \/ \E status : status # "table_completed" /\ RecordSaved(t, status)
         \/ UNCHANGED ckpt,
         UNCHANGED <<from, base, latest, tail>>,
         \A u \in Tables : u # t => saved'[u] = saved[u]
  PROVE  IInv'
<1> USE DEF IInv
<1>1. Elsewhere(t)
  BY UnchangedElsewhere, CloseOwnElsewhere DEF EscapeAndClose, Return, TypeOK
<1>2. CheckpointInv(t)' /\ \A u \in Tables : u # t => ckpt'[u] = ckpt[u]
  BY <1>1, RecordSavedSafe, SavingOneBatch, CheckpointStays DEF Elsewhere
<1>3. /\ pc'[t] \in {handler, "done"}
      /\ \A u \in Tables : u # t => pc'[u] = pc[u]
  BY GotoOnly, LeaveOnly DEF EscapeAndClose, Return, TypeOK
<1>4. OnlyWorker(t)
  BY <1>2, <1>3 DEF OnlyWorker
<1>5. CASE pc'[t] = "done"
  BY <1>1, <1>2, <1>4, <1>5, SavingOneBatch, LeaveSafe
<1>6. CASE pc'[t] = handler
  BY <1>1, <1>2, <1>4, <1>6, SavingOneBatch, HandlerSafe
<1> QED BY <1>3, <1>5, <1>6

(* SaveBatch: the checkpoint that is saved is of committed rows.           *)
LEMMA SaveBatchSafe ==
  ASSUME IInv, TypeOK', NEW t \in Tables, SaveBatch(t)
  PROVE  IInv'
<1> USE DEF IInv
<1>1. /\ pc[t] = "saving" /\ SavedNext(t) = latest[t]
      /\ Active(t) /\ WorkerInv(t) /\ Covered(t, latest[t])
  BY SavingOneBatch DEF SaveBatch
<1>2. /\ UNCHANGED <<latest, tail, from>>
      /\ \A u \in Tables : u # t => saved'[u] = saved[u]
  BY DEF SaveBatch, TypeOK, CursorsOK
<1>3. CASE cancel
  <2>1. EscapeAndClose(t, "interrupted") /\ UNCHANGED base
    BY <1>3 DEF SaveBatch
  <2>2. RecordSaved(t, "completed")
    BY DEF SaveBatch
  <2> QED BY <1>1, <1>2, <2>1, <2>2, EscapeAndCloseSafe
<1>4. CASE ~cancel
  <2>1. latest[t] \in Nat /\ RowCount[t] \in Nat
    BY CursorsOf DEF TypeOK
  <2>2. /\ base' = [base EXCEPT ![t] = latest[t]]
        /\ Goto(t, IF tail[t] THEN "complete" ELSE "loop")
        /\ UNCHANGED target
    BY <1>1, <1>4, <2>1 DEF SaveBatch
  <2>3. /\ base'[t] = latest[t] /\ latest'[t] = latest[t] /\ tail'[t] = tail[t]
        /\ \A u \in Tables : u # t => base'[u] = base[u]
    BY <1>2, <2>2 DEF TypeOK, CursorsOK
  <2>4. /\ pc'[t] = IF tail[t] THEN "complete" ELSE "loop"
        /\ \A u \in Tables : u # t => pc'[u] = pc[u]
    BY <2>2, GotoOnly DEF TypeOK
  <2>5. Elsewhere(t)
    BY <2>2, UnchangedElsewhere
  <2>6. CheckpointInv(t)' /\ \A u \in Tables : u # t => ckpt'[u] = ckpt[u]
    BY <1>1, <2>5, RecordSavedSafe DEF SaveBatch
  <2>7. OnlyWorker(t)
    BY <1>2, <2>3, <2>4, <2>6 DEF OnlyWorker
  <2>8. Covered(t, latest[t])' /\ Covered(t, base[t])'
    BY <1>1, <2>2, <2>3 DEF Covered, InTarget, Between, target
  <2>9. Pending(t)'
    BY <1>1, <2>1, <2>3, <2>8 DEF Pending, WorkerInv
  <2>10. Between(base[t], latest[t])' = {}
    BY <2>1, <2>3 DEF Between
  <2>11. WorkerInv(t)'
    BY <1>1, <2>3, <2>4, <2>8, <2>9, <2>10 DEF WorkerInv, Pending
  <2> QED BY <1>1, <2>5, <2>6, <2>7, <2>11, WorkerStep DEF TableInv
<1> QED BY <1>3, <1>4

(* PublishFails: so is the one before an event that is lost.               *)
LEMMA PublishFailsSafe ==
  ASSUME IInv, TypeOK', NEW t \in Tables, PublishFails(t)
  PROVE  IInv'
<1>1. /\ pc[t] = "saving" /\ RecordSaved(t, "completed")
      /\ EscapeAndClose(t, "except") /\ UNCHANGED <<from, base, latest, saved, tail>>
  BY DEF PublishFails, cursors
<1> QED BY <1>1, EscapeAndCloseSafe

(* SaveBatchFails: so is checkpoint_failed_after_commit, if it is saved at *)
(* all.                                                                    *)
LEMMA SaveBatchFailsSafe ==
  ASSUME IInv, TypeOK', NEW t \in Tables, SaveBatchFails(t)
  PROVE  IInv'
<1>1. /\ pc[t] = "saving"
      /\ \/ RecordSaved(t, "checkpoint_failed_after_commit")
         \/ UNCHANGED ckpt
      /\ EscapeAndClose(t, IF cancel THEN "interrupted" ELSE "except")
      /\ UNCHANGED <<from, base, latest, saved, tail>>
  BY DEF SaveBatchFails, cursors
<1>2. (IF cancel THEN "interrupted" ELSE "except") \in {"except", "interrupted"}
  OBVIOUS
<1> QED BY <1>1, <1>2, EscapeAndCloseSafe

(* A write only fails with nothing else pending.                           *)
LEMMA WriteFailsSafe ==
  ASSUME IInv, TypeOK', NEW t \in Tables, WriteFails(t)
  PROVE  IInv'
<1> USE DEF IInv
<1>1. Active(t) /\ pc[t] = "loop" /\ latest[t] < RowCount[t]
  BY DEF WriteFails, Reading, Active
<1>2. WorkerInv(t) /\ CheckpointInv(t)
  BY <1>1 DEF TableInv
<1>3. base[t] = latest[t]
  <2>1. latest[t] \in Nat /\ RowCount[t] \in Nat
    BY CursorsOf DEF TypeOK
  <2> QED BY <1>1, <1>2, <2>1 DEF WorkerInv
<1>4. UNCHANGED <<cursors, ckpt>>
  BY DEF WriteFails
<1>5. pc'[t] = "writeFailed" /\ \A u \in Tables : u # t => pc'[u] = pc[u]
  BY GotoOnly DEF WriteFails, TypeOK
<1>6. Elsewhere(t)
  <2>1. CASE PartialWrite(t)
    BY <2>1, OwnOpenElsewhere DEF PartialWrite, TypeOK
  <2>2. CASE BreakingWrite(t)
    BY <1>1, <2>2, LoseOpenElsewhere DEF BreakingWrite
  <2> QED BY <2>1, <2>2 DEF WriteFails
<1>7. OnlyWorker(t)
  BY <1>4, <1>5, Only
<1>8. CheckpointInv(t)'
  BY <1>2, <1>4, <1>6, CheckpointStays DEF Elsewhere
<1>9. Pending(t)'
  BY <1>2, <1>4, <1>6, PendingStays DEF Elsewhere, WorkerInv, Pending, cursors
<1>10. WorkerInv(t)'
  BY <1>3, <1>4, <1>5, <1>9 DEF WorkerInv, cursors
<1> QED BY <1>1, <1>6, <1>7, <1>8, <1>10, WorkerStep DEF TableInv

(* What is recorded then is covered, being the end of the last committed   *)
(* batch.                                                                  *)
LEMMA SaveFailureSafe ==
  ASSUME IInv, TypeOK', NEW t \in Tables, SaveFailure(t)
  PROVE  IInv'
<1> USE DEF IInv
<1>1. Active(t) /\ pc[t] = "writeFailed"
  BY DEF SaveFailure, Active
<1>2. WorkerInv(t) /\ latest[t] \in Nat /\ latest[t] <= RowCount[t] /\ Covered(t, latest[t])
  BY <1>1, CursorsOf DEF TableInv, TypeOK, WorkerInv, Pending
<1>3. Elsewhere(t)
  BY UnchangedElsewhere, CloseOwnElsewhere DEF SaveFailure, Return, TypeOK
<1>4. CheckpointInv(t)' /\ \A u \in Tables : u # t => ckpt'[u] = ckpt[u]
  BY <1>2, <1>3, CheckpointWritten, RecordOnly DEF SaveFailure, Elsewhere
<1>5. /\ pc'[t] \in {"done", "interrupted", "except"}
      /\ \A u \in Tables : u # t => pc'[u] = pc[u]
  BY GotoOnly, LeaveOnly DEF SaveFailure, Return, TypeOK
<1>6. UNCHANGED cursors
  BY DEF SaveFailure
<1>7. OnlyWorker(t)
  BY <1>4, <1>5, <1>6, Only
<1>8. CASE pc'[t] = "done"
  BY <1>1, <1>3, <1>4, <1>7, <1>8, LeaveSafe
<1>9. CASE pc'[t] \in {"interrupted", "except"}
  BY <1>1, <1>2, <1>3, <1>4, <1>6, <1>7, <1>9, HandlerSafe DEF cursors
<1> QED BY <1>5, <1>8, <1>9

(* A worker that enters except without recording anything.                 *)
LEMMA FallIntoExcept ==
  ASSUME IInv, TypeOK', NEW t \in Tables, Active(t), Goto(t, "except"),
         UNCHANGED <<cursors, ckpt>>, Elsewhere(t)
  PROVE  IInv'
<1>1. pc'[t] = "except" /\ \A u \in Tables : u # t => pc'[u] = pc[u]
  BY GotoOnly DEF IInv, TypeOK
<1>2. OnlyWorker(t)
  BY <1>1, Only
<1>3. CheckpointInv(t)'
  BY CheckpointStays DEF Elsewhere, IInv, TableInv
<1> QED BY <1>1, <1>2, <1>3, HandlerSafe DEF cursors

(* A worker that leaves without recording anything.                        *)
LEMMA FallOut ==
  ASSUME IInv, TypeOK', NEW t \in Tables, Active(t), NEW status, Leave(t, status),
         UNCHANGED <<cursors, ckpt>>, Elsewhere(t)
  PROVE  IInv'
<1>1. pc'[t] = "done" /\ \A u \in Tables : u # t => pc'[u] = pc[u]
  BY LeaveOnly DEF IInv, TypeOK
<1>2. OnlyWorker(t)
  BY <1>1, Only
<1>3. CheckpointInv(t)'
  BY CheckpointStays DEF Elsewhere, IInv, TableInv
<1> QED BY <1>1, <1>2, <1>3, LeaveSafe

(* SaveFailureFails: the handler is entered with nothing recorded.         *)
LEMMA SaveFailureFailsSafe ==
  ASSUME IInv, TypeOK', NEW t \in Tables, SaveFailureFails(t)
  PROVE  IInv'
  BY FallIntoExcept, UnchangedElsewhere DEF SaveFailureFails, Active

(* ReadFails: the handler is entered with nothing recorded.                *)
LEMMA ReadFailsSafe ==
  ASSUME IInv, TypeOK', NEW t \in Tables, ReadFails(t)
  PROVE  IInv'
  BY FallIntoExcept, UnchangedElsewhere DEF ReadFails, Active

(* CommitFails: the handler goes back to the pending batch, whether or not *)
(* the commit was done.                                                    *)
LEMMA CommitFailsSafe ==
  ASSUME IInv, TypeOK', NEW t \in Tables, CommitFails(t)
  PROVE  IInv'
<1>1. Active(t)
  BY DEF CommitFails, Active
<1>2. Elsewhere(t)
  BY <1>1, CommitOpenElsewhere, LoseOpenElsewhere DEF CommitFails, IInv, TypeOK
<1> QED BY <1>1, <1>2, FallIntoExcept, FallOut DEF CommitFails, Escape

(* Returning with a checkpoint at a covered cursor, or with none.          *)
LEMMA PublishAndReturnSafe ==
  ASSUME IInv, TypeOK', NEW t \in Tables, Active(t), NEW result1,
         PublishAndReturn(t, result1), UNCHANGED cursors,
         NEW status, NEW rows, NEW cursor \in Nat, cursor <= RowCount[t],
         Covered(t, cursor), status = "table_completed" => cursor = RowCount[t],
         Record(t, status, cursor, rows) \/ UNCHANGED ckpt
  PROVE  IInv'
<1>1. PICK r : Return(t, r)
  BY DEF PublishAndReturn
<1>2. Elsewhere(t)
  BY <1>1, CloseOwnElsewhere DEF Return, IInv, TypeOK
<1>3. CheckpointInv(t)' /\ \A u \in Tables : u # t => ckpt'[u] = ckpt[u]
  BY <1>2, CheckpointWritten, CheckpointStays, RecordOnly
     DEF Elsewhere, IInv, TableInv
<1>4. pc'[t] = "done" /\ \A u \in Tables : u # t => pc'[u] = pc[u]
  BY <1>1, LeaveOnly DEF Return, IInv, TypeOK
<1>5. OnlyWorker(t)
  BY <1>3, <1>4, Only
<1> QED BY <1>2, <1>3, <1>4, <1>5, LeaveSafe

(* HandleError: the first pending batch starts at a covered cursor.        *)
LEMMA HandleErrorSafe ==
  ASSUME IInv, TypeOK', NEW t \in Tables, HandleError(t)
  PROVE  IInv'
<1>1. Active(t) /\ WorkerInv(t)
  BY DEF HandleError, Active, IInv, TableInv
<1>2. base[t] \in Nat /\ base[t] <= RowCount[t] /\ Covered(t, base[t])
  BY <1>1, CursorsOf DEF IInv, TypeOK, WorkerInv, Pending
<1> QED BY <1>1, <1>2, PublishAndReturnSafe DEF HandleError

(* SaveCancelled: without Ctrl+C the handler is only entered with          *)
(* everything up to latest_cursor committed.                               *)
LEMMA SaveCancelledSafe ==
  ASSUME IInv, TypeOK', NEW t \in Tables, SaveCancelled(t)
  PROVE  IInv'
<1>1. Active(t) /\ WorkerInv(t) /\ pc[t] = "interrupted"
  BY DEF SaveCancelled, Active, IInv, TableInv
<1>2. latest[t] \in Nat /\ latest[t] <= RowCount[t] /\ Covered(t, latest[t])
  BY <1>1, CursorsOf DEF IInv, TypeOK, WorkerInv
<1> QED BY <1>1, <1>2, PublishAndReturnSafe DEF SaveCancelled

(* CompleteTable: latest_cursor is the end of the table, and is covered.   *)
LEMMA CompleteTableSafe ==
  ASSUME IInv, TypeOK', NEW t \in Tables, CompleteTable(t)
  PROVE  IInv'
<1>1. Active(t) /\ WorkerInv(t) /\ pc[t] = "complete"
  BY DEF CompleteTable, Active, IInv, TableInv
<1>2. latest[t] \in Nat /\ latest[t] = RowCount[t] /\ latest[t] <= RowCount[t]
      /\ Covered(t, latest[t])
  BY <1>1, CursorsOf DEF IInv, TypeOK, WorkerInv
<1> QED BY <1>1, <1>2, PublishAndReturnSafe DEF CompleteTable

(* HandlerFails: nothing is recorded.                                      *)
LEMMA HandlerFailsSafe ==
  ASSUME IInv, TypeOK', NEW t \in Tables, HandlerFails(t)
  PROVE  IInv'
  BY FallOut, CloseOwnElsewhere DEF HandlerFails, Active, Return, IInv, TypeOK

(* CompleteTableFails: nothing is recorded.                                *)
LEMMA CompleteTableFailsSafe ==
  ASSUME IInv, TypeOK', NEW t \in Tables, CompleteTableFails(t)
  PROVE  IInv'
  BY FallOut, CloseOwnElsewhere DEF CompleteTableFails, Active, Return, IInv, TypeOK

(* A run starts each table at a covered cursor.                            *)
LEMMA StartRunSafe ==
  ASSUME IInv, TypeOK', NEW m, StartRun(m)
  PROVE  IInv'
<1> USE DEF IInv
<1>1. /\ UNCHANGED <<copies, open, ckpt>>
      /\ base' = [t \in Tables |-> StartCursor(t, m)]
      /\ latest' = base' /\ tail' = [t \in Tables |-> FALSE]
      /\ \A t \in Tables : pc'[t] \in {"waiting", "done"}
  BY DEF StartRun, target
<1>2. TakeTurns'
  BY <1>1 DEF TakeTurns, Active
<1>3. ASSUME NEW t \in Tables PROVE TableInv(t)'
  <2>1. CheckpointInv(t)'
    BY <1>1 DEF TableInv, CheckpointInv, Covered, InTarget, Completed, Between
  <2>2. ASSUME pc'[t] # "done" PROVE WorkerInv(t)'
    <3>1. /\ pc'[t] = "waiting" /\ ~tail'[t]
          /\ base'[t] = StartCursor(t, m) /\ latest'[t] = base'[t]
      BY <1>1, <2>2
    <3>2. base'[t] \in Nat
      BY DEF TypeOK, CursorsOK
    <3>3. Covered(t, StartCursor(t, m))
      BY DEF StartCursor, TableInv, CheckpointInv, Covered, InTarget, Between
    <3>4. Covered(t, base[t])'
      BY <1>1, <3>1, <3>3 DEF Covered, InTarget, Between
    <3> QED BY <3>1, <3>2, <3>4 DEF WorkerInv, Pending
  <2> QED BY <2>1, <2>2 DEF TableInv
<1> QED BY <1>2, <1>3

(* Ending one forgets its workers and nothing else.                        *)
LEMMA IdleSafe ==
  ASSUME IInv, TypeOK', Idle
  PROVE  IInv'
<1> USE DEF IInv
<1>1. UNCHANGED <<copies, ckpt>> /\ \A t \in Tables : pc'[t] = "done"
  BY DEF Idle
<1>2. TakeTurns'
  BY <1>1 DEF TakeTurns, Active
<1>3. ASSUME NEW t \in Tables PROVE TableInv(t)'
  BY <1>1 DEF TableInv, CheckpointInv, Covered, InTarget, Completed, Between
<1> QED BY <1>2, <1>3

(* A step that touches neither the target nor the workers.                 *)
LEMMA AloneSafe ==
  ASSUME IInv, TypeOK', UNCHANGED <<target, cursors, ckpt, pc>>
  PROVE  IInv'
<1> USE DEF IInv, target, cursors
<1>1. TakeTurns'
  BY DEF TakeTurns, Active, Shared
<1>2. ASSUME NEW t \in Tables PROVE TableInv(t)'
  BY DEF TableInv, CheckpointInv, WorkerInv, Pending, Covered, InTarget,
         Completed, Between, BatchEnd
<1> QED BY <1>1, <1>2

(* A job starts with no checkpoint, which claims nothing.                  *)
LEMMA InitSafe ==
  ASSUME Init
  PROVE  IInv
<1>1. TakeTurns
  BY DEF Init, TakeTurns, Active
<1>2. ASSUME NEW t \in Tables PROVE TableInv(t)
  BY DEF Init, TableInv, CheckpointInv, Covered, InTarget, Between, Completed,
         NoCheckpoint, Checkpoint
<1> QED BY <1>1, <1>2, InitType DEF IInv

(* The invariant behind safe resumption is inductive.                      *)
LEMMA IInvInductive ==
  ASSUME Durable
  PROVE  IInv /\ TypeOK' /\ [Next]_vars => IInv'
<1> SUFFICES ASSUME IInv, TypeOK', [Next]_vars PROVE IInv'
  OBVIOUS
<1>1. ASSUME NEW m \in AllModes, StartRun(m) PROVE IInv'
  BY <1>1, StartRunSafe
<1>2. ASSUME NEW t \in Tables, Work(t) PROVE IInv'
  BY <1>2, StartTableSafe, WriteBatchSafe, EndOfRowsSafe, CommitSafe,
     SaveBatchSafe, SaveFailureSafe, HandleErrorSafe, SaveCancelledSafe,
     CompleteTableSafe DEF Work
<1>3. ASSUME NEW t \in Tables, Trouble(t) PROVE IInv'
  <2>1. ~Interrupt(t)
    BY DEF Durable, Interrupt, Fault
  <2> QED BY <1>3, <2>1, WriteFailsSafe, ReadFailsSafe, CommitFailsSafe,
             PublishFailsSafe, SaveBatchFailsSafe, SaveFailureFailsSafe,
             HandlerFailsSafe, CompleteTableFailsSafe DEF Trouble
<1>4. CASE EndRun \/ Crash
  BY <1>4, IdleSafe DEF EndRun, Crash
<1>5. CASE RequestCancel \/ UNCHANGED vars
  BY <1>5, AloneSafe DEF RequestCancel, vars
<1> QED BY <1>1, <1>2, <1>3, <1>4, <1>5 DEF Next

(* For every number of tables, rows and workers and every order of         *)
(* failures, cancels and crashes but Ctrl+C: when commit_interval is at    *)
(* most the batch size, no checkpoint lets resume skip a row that is not   *)
(* in the target.                                                          *)
THEOREM ResumeNeverSkips ==
  ASSUME Durable
  PROVE  Spec => []CheckpointNeverAhead
<1>1. Init => IInv
  BY InitSafe
<1>2. IInv /\ TypeOK' /\ [Next]_vars => IInv'
  BY IInvInductive
<1>3. IInv => CheckpointNeverAhead
  BY DEF IInv, TableInv, CheckpointInv, CheckpointNeverAhead, Covered
<1> QED BY <1>1, <1>2, <1>3, TypeCorrect, PTL DEF Spec

(* Under the same condition a table_completed checkpoint, which every      *)
(* later run trusts, is only ever written for a table whose rows are all   *)
(* in the target.                                                          *)
THEOREM CompletedIsCopied ==
  ASSUME Durable
  PROVE  Spec => []CompletedMeansCopied
<1>1. Init => IInv
  BY InitSafe
<1>2. IInv /\ TypeOK' /\ [Next]_vars => IInv'
  BY IInvInductive
<1>3. IInv => CompletedMeansCopied
  BY SMTT(30) DEF IInv, TableInv, CheckpointInv, CompletedMeansCopied, Covered, InTarget,
         Between, Rows
<1> QED BY <1>1, <1>2, <1>3, TypeCorrect, PTL DEF Spec
=============================================================================
