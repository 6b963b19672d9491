-------------------------- MODULE DmlPromiseProofs --------------------------
(***************************************************************************)
(* What a checkpointed copy promises whoever looks at the target between   *)
(* runs, for every number of tables, rows, faults and restarts: progress   *)
(* that is kept, completed tables that are left alone, the refinement of   *)
(* ResumableCopy, and the two accounts of copied twice rows.               *)
(*                                                                         *)
(* Each part has the condition of the configuration it holds under:        *)
(*   Durable   a commit makes a checkpoint's rows durable before it;       *)
(*   Trusting  a completed table is not migrated again over its rows;      *)
(*   Isolated  each worker has a connection, and so a transaction, of its  *)
(*             own, and no fault can strike between commit and checkpoint. *)
(***************************************************************************)
EXTENDS DmlMigrationProofs

USE ConstantsAssumption DEF Tables

(* Saving starts from the first pending batch, never before the run's      *)
(* start.                                                                  *)
SavedFollowsFrom == \A t \in Tables : from[t] <= saved[t]

Forward ==
  \A t \in Tables : ckpt'[t] # ckpt[t] => ckpt'[t].cursor >= from[t]

LEMMA SavedStays ==
  ASSUME SavedFollowsFrom, UNCHANGED cursors
  PROVE  SavedFollowsFrom'
  BY DEF SavedFollowsFrom, cursors

LEMMA SavedMoves ==
  ASSUME TypeOK, SavedFollowsFrom, NEW t \in Tables, NEW n \in Nat,
         from[t] <= n, UNCHANGED from, saved' = [saved EXCEPT ![t] = n]
  PROVE  SavedFollowsFrom'
  BY DEF SavedFollowsFrom, TypeOK, CursorsOK

LEMMA SavedFollowsFromInductive ==
  ASSUME TypeOK, SavedFollowsFrom, [Next]_vars
  PROVE  SavedFollowsFrom'
<1>1. ASSUME NEW m \in AllModes, StartRun(m) PROVE SavedFollowsFrom'
  <2>1. saved' = from' /\ from' = [t \in Tables |-> StartCursor(t, m)]
    BY <1>1 DEF StartRun
  <2>2. \A t \in Tables : StartCursor(t, m) \in Nat
    BY DEF StartCursor, TypeOK, CheckpointOK
  <2> QED BY <2>1, <2>2 DEF SavedFollowsFrom
<1>2. ASSUME NEW t \in Tables, Work(t) PROVE SavedFollowsFrom'
  <2>1. CASE WriteBatch(t) \/ EndOfRows(t)
    BY <2>1 DEF WriteBatch, EndOfRows, SavedFollowsFrom
  <2>2. CASE Commit(t)
    BY <2>2, CursorsOf, SavedMoves DEF Commit, TypeOK
  <2>3. CASE SaveBatch(t)
    <3>1. /\ from[t] \in Nat /\ saved[t] \in Nat /\ SavedNext(t) \in Nat
          /\ saved[t] <= SavedNext(t)
      BY CursorsOf, BatchEndBounds DEF SavedNext, TypeOK
    <3>2. from[t] <= SavedNext(t)
      BY <3>1 DEF SavedFollowsFrom
    <3> QED BY <2>3, <3>1, <3>2, SavedMoves DEF SaveBatch
  <2>4. CASE StartTable(t) \/ SaveFailure(t) \/ HandleError(t) \/ SaveCancelled(t)
             \/ CompleteTable(t)
    BY <2>4, SavedStays DEF StartTable, SaveFailure, HandleError, SaveCancelled,
       CompleteTable
  <2> QED BY <1>2, <2>1, <2>2, <2>3, <2>4 DEF Work
<1>3. ASSUME NEW t \in Tables, Trouble(t) PROVE SavedFollowsFrom'
  BY <1>3, SavedStays DEF Trouble, WriteFails, ReadFails, CommitFails, PublishFails,
     SaveBatchFails, SaveFailureFails, HandlerFails, CompleteTableFails, Interrupt
<1>4. CASE EndRun \/ Crash
  BY <1>4 DEF EndRun, Crash, Idle, SavedFollowsFrom
<1>5. CASE RequestCancel \/ UNCHANGED vars
  BY <1>5, SavedStays DEF RequestCancel, vars
<1> QED BY <1>1, <1>2, <1>3, <1>4, <1>5 DEF Next

LEMMA RecordedForward ==
  ASSUME TypeOK, NEW t \in Tables, NEW status, NEW rows,
         NEW cursor \in Nat, from[t] <= cursor,
         Record(t, status, cursor, rows) \/ UNCHANGED ckpt
  PROVE  Forward
<1>1. CASE Record(t, status, cursor, rows)
  <2>1. ckpt'[t].cursor = cursor
    BY <1>1 DEF Record, Checkpoint, TypeOK, CheckpointOK
  <2>2. \A u \in Tables : u # t => ckpt'[u] = ckpt[u]
    BY <1>1, RecordOnly
  <2>3. from[t] \in Nat
    BY CursorsOf DEF TypeOK
  <2> QED BY <2>1, <2>2, <2>3 DEF Forward
<1>2. CASE UNCHANGED ckpt
  BY <1>2 DEF Forward
<1> QED BY <1>1, <1>2

LEMMA EveryStepForward ==
  ASSUME TypeOK, SavedFollowsFrom, [Next]_vars
  PROVE  Forward
<1>1. ASSUME NEW t \in Tables, Work(t) \/ Trouble(t) PROVE Forward
  <2>1. /\ from[t] \in Nat /\ base[t] \in Nat /\ latest[t] \in Nat
        /\ from[t] <= base[t] /\ from[t] <= latest[t]
    BY CursorsOf, SMTT(30) DEF TypeOK
  <2>2. SavedNext(t) \in Nat /\ from[t] <= SavedNext(t)
    <3>1. saved[t] \in Nat /\ SavedNext(t) \in Nat /\ saved[t] <= SavedNext(t)
      BY CursorsOf, BatchEndBounds DEF SavedNext, TypeOK
    <3> QED BY <2>1, <3>1 DEF SavedFollowsFrom
  <2>3. CASE SaveFailure(t) \/ HandleError(t) \/ SaveCancelled(t) \/ CompleteTable(t)
    BY <2>1, <2>3, RecordedForward
       DEF SaveFailure, HandleError, SaveCancelled, CompleteTable
  <2>4. CASE SaveBatch(t) \/ PublishFails(t) \/ SaveBatchFails(t)
    BY <2>2, <2>4, RecordedForward DEF SaveBatch, PublishFails, SaveBatchFails, RecordSaved
  <2>5. CASE UNCHANGED ckpt
    BY <2>5 DEF Forward
  <2> QED BY <1>1, <2>3, <2>4, <2>5
       DEF Work, Trouble, StartTable, WriteBatch, EndOfRows, Commit, WriteFails, ReadFails,
           CommitFails, SaveFailureFails, HandlerFails, CompleteTableFails, Interrupt
<1>2. CASE UNCHANGED ckpt
  BY <1>2 DEF Forward
<1> QED BY <1>1, <1>2 DEF Next, StartRun, EndRun, Crash, Idle, RequestCancel, vars

(* No checkpoint a run writes, in whatever order of failures, cancels and  *)
(* Ctrl+C, goes back before the cursor the run started from: for every     *)
(* configuration, commit_interval and batch sizes included.                *)
THEOREM ProgressKept == Spec => ProgressIsKept
<1>1. Init => SavedFollowsFrom
  BY DEF Init, SavedFollowsFrom
<1>2. TypeOK /\ SavedFollowsFrom /\ [Next]_vars => SavedFollowsFrom'
  BY SavedFollowsFromInductive
<1>3. TypeOK /\ SavedFollowsFrom /\ [Next]_vars => [Forward]_vars
  BY EveryStepForward
<1>4. [][Forward]_vars => ProgressIsKept
  BY DEF Forward, ProgressIsKept
<1> QED BY <1>1, <1>2, <1>3, <1>4, TypeCorrect, PTL DEF Spec

-----------------------------------------------------------------------------
(* What a step of one worker leaves of the others.                         *)

(* Between runs no worker runs and no connection is open.                  *)
AtRest ==
  ~running => \A t \in Tables : pc[t] = "done" /\ open[t] = {} /\ ~broken[t]

(* A transaction only gains rows of the table that is being written.       *)
OpenShrinks(t) == \A u \in Tables : u # t => open'[u] \subseteq open[u]

LEMMA CommitShrinks ==
  ASSUME NEW t \in Tables, CommitOpen(t) \/ LoseOpen(t)
  PROVE  /\ OpenShrinks(t)
         /\ open'[t] = {}
         /\ \A u \in Tables : open'[u] \subseteq open[u]
  BY DEF OpenShrinks, CommitOpen, LoseOpen, Peers

LEMMA CloseShrinks ==
  ASSUME TargetOK, NEW t \in Tables, CloseOwn(t)
  PROVE  OpenShrinks(t) /\ open'[t] \subseteq open[t] /\ UNCHANGED copies
  BY DEF OpenShrinks, CloseOwn, TargetOK

LEMMA OwnOpenShrinks ==
  ASSUME TargetOK, NEW t \in Tables, NEW rows, open' = [open EXCEPT ![t] = rows]
  PROVE  OpenShrinks(t) /\ open'[t] = rows
  BY DEF OpenShrinks, TargetOK

LEMMA StillShrinks ==
  ASSUME NEW t \in Tables, UNCHANGED open
  PROVE  OpenShrinks(t) /\ open'[t] \subseteq open[t]
  BY DEF OpenShrinks

LEMMA ReturnShrinks ==
  ASSUME TypeOK, NEW t \in Tables, NEW status, Return(t, status)
  PROVE  /\ OpenShrinks(t) /\ open'[t] \subseteq open[t] /\ UNCHANGED copies
         /\ pc'[t] = "done" /\ \A u \in Tables : u # t => pc'[u] = pc[u]
  BY CloseShrinks, LeaveOnly DEF Return, TypeOK

LEMMA EscapeAndCloseShrinks ==
  ASSUME TypeOK, NEW t \in Tables, NEW handler, EscapeAndClose(t, handler)
  PROVE  /\ OpenShrinks(t) /\ open'[t] \subseteq open[t] /\ UNCHANGED copies
         /\ pc'[t] = (IF tail[t] THEN "done" ELSE handler)
         /\ \A u \in Tables : u # t => pc'[u] = pc[u]
  BY ReturnShrinks, StillShrinks, GotoOnly DEF EscapeAndClose, target, TypeOK

LEMMA EscapeOnly ==
  ASSUME TypeOK, NEW t \in Tables, NEW handler, Escape(t, handler)
  PROVE  /\ pc'[t] = (IF tail[t] THEN "done" ELSE handler)
         /\ \A u \in Tables : u # t => pc'[u] = pc[u]
  BY LeaveOnly, GotoOnly DEF Escape, TypeOK

LEMMA PublishShrinks ==
  ASSUME TypeOK, NEW t \in Tables, NEW status, PublishAndReturn(t, status)
  PROVE  /\ OpenShrinks(t) /\ open'[t] \subseteq open[t] /\ UNCHANGED copies
         /\ pc'[t] = "done" /\ \A u \in Tables : u # t => pc'[u] = pc[u]
  BY ReturnShrinks DEF PublishAndReturn

LEMMA PartialShrinks ==
  ASSUME TypeOK, NEW t \in Tables, PartialWrite(t) \/ BreakingWrite(t)
  PROVE  OpenShrinks(t) /\ UNCHANGED copies
  BY OwnOpenShrinks, CommitShrinks DEF PartialWrite, BreakingWrite, LoseOpen, TypeOK

LEMMA InterruptShrinks ==
  ASSUME TypeOK, NEW t \in Tables, Interrupt(t)
  PROVE  OpenShrinks(t)
<1>1. CASE UNCHANGED target
  BY <1>1, StillShrinks DEF target
<1>2. CASE InterruptedWrite(t)
  BY <1>2, PartialShrinks, OwnOpenShrinks DEF InterruptedWrite, TypeOK
<1>3. CASE InterruptedCommit(t)
  BY <1>3, CommitShrinks DEF InterruptedCommit
<1> QED BY <1>1, <1>2, <1>3 DEF Interrupt

(* A step of worker t is a step of a table that is being run, and leaves   *)
(* the places, checkpoints and cursors of the others as they are.          *)
LEMMA WorkersStep ==
  ASSUME TypeOK, NEW t \in Tables, Work(t) \/ Trouble(t)
  PROVE  /\ OnlyWorker(t)
         /\ OpenShrinks(t)
         /\ UNCHANGED <<running, cancel, from>>
         /\ pc[t] # "done"
<1> USE DEF TypeOK
<1>1. CASE StartTable(t)
  <2>1. OpenShrinks(t) /\ \A u \in Tables : u # t => pc'[u] = pc[u]
    BY <1>1, ReturnShrinks, StillShrinks, GotoOnly DEF StartTable, target
  <2> QED BY <1>1, <2>1, Only DEF StartTable, cursors
<1>2. CASE WriteBatch(t)
  <2>1. OpenShrinks(t) /\ \A u \in Tables : u # t => pc'[u] = pc[u]
    BY <1>2, OwnOpenShrinks, GotoOnly DEF WriteBatch
  <2> QED BY <1>2, <2>1 DEF WriteBatch, OnlyWorker, Reading, CursorsOK
<1>3. CASE EndOfRows(t)
  <2>1. OpenShrinks(t) /\ \A u \in Tables : u # t => pc'[u] = pc[u]
    BY <1>3, StillShrinks, GotoOnly DEF EndOfRows, target
  <2> QED BY <1>3, <2>1 DEF EndOfRows, OnlyWorker, CursorsOK
<1>4. CASE Commit(t)
  <2>1. OpenShrinks(t) /\ \A u \in Tables : u # t => pc'[u] = pc[u]
    BY <1>4, CommitShrinks, GotoOnly DEF Commit
  <2> QED BY <1>4, <2>1 DEF Commit, OnlyWorker, CursorsOK
<1>5. CASE SaveBatch(t)
  <2>1. OpenShrinks(t) /\ \A u \in Tables : u # t => pc'[u] = pc[u]
    BY <1>5, StillShrinks, EscapeAndCloseShrinks, GotoOnly DEF SaveBatch, target
  <2>2. \A u \in Tables : u # t => ckpt'[u] = ckpt[u]
    BY <1>5, RecordOnly DEF SaveBatch, RecordSaved
  <2>3. \A u \in Tables : u # t => base'[u] = base[u]
    BY <1>5 DEF SaveBatch, CursorsOK
  <2> QED BY <1>5, <2>1, <2>2, <2>3 DEF SaveBatch, OnlyWorker, CursorsOK
<1>6. CASE SaveFailure(t)
  <2>1. OpenShrinks(t) /\ \A u \in Tables : u # t => pc'[u] = pc[u]
    BY <1>6, StillShrinks, ReturnShrinks, GotoOnly DEF SaveFailure, target
  <2> QED BY <1>6, <2>1, RecordOnly, Only DEF SaveFailure, cursors
<1>7. CASE HandleError(t) \/ SaveCancelled(t) \/ CompleteTable(t)
  <2>1. OpenShrinks(t) /\ \A u \in Tables : u # t => pc'[u] = pc[u]
    BY <1>7, PublishShrinks DEF HandleError, SaveCancelled, CompleteTable
  <2>2. \A u \in Tables : u # t => ckpt'[u] = ckpt[u]
    BY <1>7, RecordOnly DEF HandleError, SaveCancelled, CompleteTable
  <2> QED BY <1>7, <2>1, <2>2, Only DEF HandleError, SaveCancelled, CompleteTable, cursors
<1>8. CASE WriteFails(t)
  <2>1. OpenShrinks(t) /\ \A u \in Tables : u # t => pc'[u] = pc[u]
    BY <1>8, PartialShrinks, GotoOnly DEF WriteFails
  <2> QED BY <1>8, <2>1, Only DEF WriteFails, Reading, cursors
<1>9. CASE ReadFails(t) \/ SaveFailureFails(t)
  <2>1. OpenShrinks(t) /\ \A u \in Tables : u # t => pc'[u] = pc[u]
    BY <1>9, StillShrinks, GotoOnly DEF ReadFails, SaveFailureFails, target
  <2> QED BY <1>9, <2>1, Only DEF ReadFails, SaveFailureFails, cursors
<1>10. CASE CommitFails(t)
  <2>1. OpenShrinks(t) /\ \A u \in Tables : u # t => pc'[u] = pc[u]
    BY <1>10, CommitShrinks, EscapeOnly DEF CommitFails
  <2> QED BY <1>10, <2>1, Only DEF CommitFails, cursors
<1>11. CASE PublishFails(t) \/ SaveBatchFails(t)
  <2>1. OpenShrinks(t) /\ \A u \in Tables : u # t => pc'[u] = pc[u]
    BY <1>11, EscapeAndCloseShrinks DEF PublishFails, SaveBatchFails
  <2>2. \A u \in Tables : u # t => ckpt'[u] = ckpt[u]
    BY <1>11, RecordOnly DEF PublishFails, SaveBatchFails, RecordSaved
  <2> QED BY <1>11, <2>1, <2>2, Only DEF PublishFails, SaveBatchFails, cursors
<1>12. CASE HandlerFails(t) \/ CompleteTableFails(t)
  <2>1. OpenShrinks(t) /\ \A u \in Tables : u # t => pc'[u] = pc[u]
    BY <1>12, ReturnShrinks DEF HandlerFails, CompleteTableFails
  <2> QED BY <1>12, <2>1, Only DEF HandlerFails, CompleteTableFails, cursors
<1>13. CASE Interrupt(t)
  <2>1. OpenShrinks(t) /\ \A u \in Tables : u # t => pc'[u] = pc[u]
    BY <1>13, InterruptShrinks, LeaveOnly, EscapeOnly DEF Interrupt
  <2> QED BY <1>13, <2>1, Only DEF Interrupt, Active, cursors
<1> QED BY <1>1, <1>2, <1>3, <1>4, <1>5, <1>6, <1>7, <1>8, <1>9, <1>10, <1>11,
           <1>12, <1>13 DEF Work, Trouble

(* Nothing works between runs, and a run starts with all connections new.  *)
LEMMA AtRestInductive ==
  ASSUME TypeOK, AtRest, [Next]_vars
  PROVE  AtRest'
<1>1. ASSUME NEW t \in Tables, Work(t) \/ Trouble(t) PROVE AtRest'
  BY <1>1, WorkersStep DEF AtRest
<1>2. CASE EndRun \/ Crash
  BY <1>2 DEF EndRun, Crash, Idle, AtRest
<1>3. CASE \E m \in AllModes : StartRun(m)
  BY <1>3 DEF StartRun, AtRest
<1>4. CASE RequestCancel \/ UNCHANGED vars
  BY <1>4 DEF RequestCancel, vars, target, AtRest
<1> QED BY <1>1, <1>2, <1>3, <1>4 DEF Next

-----------------------------------------------------------------------------
(* A completed table is left alone.                                        *)

(* A completed table is never run again: the preflight of migrate-data     *)
(* looks at the checkpoints, or migrate-data is run only once.             *)
Trusting == CheckpointResume \/ "migrate" \notin Modes

(* What may be open for a table at each place of its worker, and at which  *)
(* places a completed table, or one without rows, can be.                  *)
SettledTable(t) ==
  /\ Completed(t) => open[t] = {} /\ (pc[t] # "done" => RowCount[t] = 0)
  /\ pc[t] = "waiting" => open[t] = {}
  /\ pc[t] \in {"loop", "commit"} => open[t] \subseteq Between(base[t], latest[t])
  /\ pc[t] \in {"saving", "complete"} => open[t] = {}
  /\ pc[t] \in {"writeFailed", "commit", "saving", "interrupted"} => RowCount[t] > 0

SettledInv == AtRest /\ \A t \in Tables : SettledTable(t)

(* The union of finitely many finite sets, given as a function.            *)
LEMMA FiniteUnion ==
  ASSUME NEW S, IsFiniteSet(S), NEW F, F = [x \in S |-> F[x]],
         \A x \in S : IsFiniteSet(F[x])
  PROVE  IsFiniteSet(UNION {F[x] : x \in S})
<1> DEFINE P == {F[x] : x \in S}
<1>1. F \in Surjection(S, P)
  BY DEF Surjection
<1>2. IsFiniteSet(P)
  BY <1>1, FS_Surjection
<1>3. \A T \in P : IsFiniteSet(T)
  OBVIOUS
<1> QED BY <1>2, <1>3, FS_UNION

(* The copies of a table can be counted.                                   *)
LEMMA TargetRowsFinite ==
  ASSUME TargetOK, NEW t \in Tables
  PROVE  /\ IsFiniteSet(TargetRows(t))
         /\ \A r \in Rows(t) : copies[t][r] > 0 <=> <<r, 1>> \in TargetRows(t)
<1> DEFINE G(r) == {r} \X (1 .. copies[t][r])
           F == [r \in Rows(t) |-> G(r)]
<1>1. IsFiniteSet(Rows(t))
  BY FS_Interval DEF Rows
<1>2. ASSUME NEW r \in Rows(t) PROVE copies[t][r] \in Nat /\ IsFiniteSet(G(r))
  <2>1. copies[t][r] \in Nat
    BY DEF TargetOK
  <2>2. 1 \in Int /\ copies[t][r] \in Int
    BY <2>1
  <2>3. IsFiniteSet({r}) /\ IsFiniteSet(1 .. copies[t][r])
    BY <2>2, FS_Singleton, FS_Interval
  <2> QED BY <2>1, <2>3, FS_Product
<1>3. TargetRows(t) = UNION {G(r) : r \in Rows(t)}
  BY DEF TargetRows
<1>4. ASSUME NEW r \in Rows(t) PROVE copies[t][r] > 0 <=> <<r, 1>> \in G(r)
  <2>1. copies[t][r] > 0 <=> 1 \in 1 .. copies[t][r]
    BY DEF TargetOK
  <2>2. <<r, 1>> \in G(r) <=> r \in {r} /\ 1 \in 1 .. copies[t][r]
    BY Zenon
  <2> QED BY <2>1, <2>2
<1>5. \A r, s \in Rows(t) : <<r, 1>> \in G(s) => r = s
  OBVIOUS
<1> HIDE DEF G
<1>6. IsFiniteSet(UNION {F[r] : r \in Rows(t)})
  <2>1. F = [r \in Rows(t) |-> F[r]] /\ \A r \in Rows(t) : IsFiniteSet(F[r])
    BY <1>2
  <2> HIDE DEF F
  <2> QED BY <1>1, <2>1, FiniteUnion
<1>7. IsFiniteSet(TargetRows(t))
  BY <1>3, <1>6
<1>8. ASSUME NEW r \in Rows(t)
      PROVE  <<r, 1>> \in TargetRows(t) <=> <<r, 1>> \in G(r)
  BY <1>3, <1>5
<1> QED BY <1>4, <1>7, <1>8

(* A target table without rows has no copy of any row (count_target_rows). *)
LEMMA EmptyTarget ==
  ASSUME TargetOK, NEW t \in Tables, TargetRowCount(t) = 0
  PROVE  \A r \in Rows(t) : copies[t][r] = 0
<1>1. TargetRows(t) = {}
  BY TargetRowsFinite, FS_EmptySet DEF TargetRowCount
<1>2. \A r \in Rows(t) : ~(copies[t][r] > 0)
  BY <1>1, TargetRowsFinite
<1> QED BY <1>2 DEF TargetOK

(* A completed table is run again only if it has no rows.                  *)
LEMMA RerunIsEmpty ==
  ASSUME Trusting, IInv, NEW t \in Tables, NEW m \in AllModes, StartRun(m),
         Completed(t), pc'[t] # "done"
  PROVE  RowCount[t] = 0
<1>1. Runs(t, m) /\ m \in Modes
  BY DEF StartRun
<1>2. m = "migrate"
  BY <1>1 DEF Runs, Selected, Completed, AllModes
<1>3. TargetRowCount(t) = 0
  BY <1>1, <1>2 DEF Runs, Preflight, Trusting
<1>4. \A r \in Rows(t) : copies[t][r] = 0
  BY <1>3, EmptyTarget DEF IInv, TypeOK
<1>5. ckpt[t].cursor = RowCount[t] /\ Covered(t, RowCount[t])
  BY DEF IInv, TableInv, CheckpointInv
<1>6. \A r \in 1 .. RowCount[t] : FALSE
  BY <1>4, <1>5 DEF Covered, InTarget, Between, Rows
<1>7. RowCount[t] \in Nat
  OBVIOUS
<1> QED BY <1>6, <1>7

(* A step of worker t leaves the other tables settled.                     *)
LEMMA OthersSettled ==
  ASSUME NEW t \in Tables, OnlyWorker(t), OpenShrinks(t),
         NEW u \in Tables, u # t, SettledTable(u)
  PROVE  SettledTable(u)'
<1>1. /\ pc'[u] = pc[u] /\ ckpt'[u] = ckpt[u] /\ base'[u] = base[u]
      /\ latest'[u] = latest[u] /\ open'[u] \subseteq open[u]
  BY DEF OnlyWorker, OpenShrinks
<1> QED BY <1>1 DEF SettledTable, Completed, Between

(* A checkpoint that is not the one of save_table_completed.               *)
LEMMA NotCompletedNow ==
  ASSUME TypeOK, NEW t \in Tables, NEW status, status # "table_completed",
         NEW cursor, NEW rows, Record(t, status, cursor, rows)
  PROVE  ~Completed(t)'
  BY DEF Record, Checkpoint, Completed, TypeOK, CheckpointOK

(* A worker that leaves or enters a handler settles its table unless it    *)
(* completes one with rows still open.                                     *)
LEMMA LeavesSettled ==
  ASSUME NEW t \in Tables, pc[t] # "done", SettledTable(t), open'[t] \subseteq open[t],
         pc'[t] \in {"done", "except", "interrupted"},
         pc'[t] = "interrupted" => RowCount[t] > 0,
         Completed(t)' => Completed(t) \/ (open[t] = {} /\ pc'[t] = "done")
  PROVE  SettledTable(t)'
  BY DEF SettledTable

LEMMA WorkSettled ==
  ASSUME TypeOK, NEW t \in Tables, SettledTable(t), Work(t)
  PROVE  SettledTable(t)'
<1>1. /\ base[t] \in Nat /\ latest[t] \in Nat /\ RowCount[t] \in Nat
      /\ base[t] <= latest[t] /\ latest[t] <= RowCount[t] /\ saved[t] \in Nat
  BY CursorsOf DEF TypeOK
<1>10. pc[t] # "done"
  BY WorkersStep
<1>2. CASE StartTable(t)
  <2>1. open'[t] \subseteq open[t] /\ pc'[t] \in {"loop", "done"} /\ open[t] = {}
    BY <1>2, ReturnShrinks, GotoOnly DEF StartTable, target, TypeOK, SettledTable
  <2> QED BY <1>2, <2>1 DEF StartTable, SettledTable, Completed
<1>3. CASE WriteBatch(t)
  <2>1. pc[t] = "loop" /\ latest[t] < RowCount[t] /\ ~Completed(t)
    BY <1>1, <1>3 DEF WriteBatch, Reading, SettledTable
  <2>2. /\ open'[t] = open[t] \cup Batch(t) /\ base'[t] = base[t]
        /\ latest'[t] = BatchEnd(t, latest[t]) /\ UNCHANGED ckpt
        /\ pc'[t] \in {"commit", "loop"}
    BY <1>3, GotoOnly DEF WriteBatch, TypeOK, TargetOK, CursorsOK
  <2>3. latest'[t] \in Nat /\ latest[t] <= latest'[t]
    BY <1>1, <2>2, BatchEndBounds
  <2>4. open[t] \subseteq Between(base[t], latest[t])
    BY <2>1 DEF SettledTable
  <2>5. open'[t] \subseteq Between(base'[t], latest'[t])
    BY <1>1, <2>2, <2>3, <2>4, SMTT(30) DEF Batch, Between
  <2> QED BY <1>1, <2>1, <2>2, <2>5 DEF SettledTable, Completed
<1>4. CASE EndOfRows(t)
  <2>1. /\ pc[t] = "loop" /\ latest[t] = RowCount[t]
        /\ UNCHANGED <<open, base, latest, ckpt>>
        /\ pc'[t] = IF latest[t] - base[t] > 0 THEN "commit" ELSE "complete"
    BY <1>4, GotoOnly DEF EndOfRows, Uncommitted, target, TypeOK
  <2>2. open[t] \subseteq Between(base[t], latest[t])
    BY <2>1 DEF SettledTable
  <2>3. base[t] = latest[t] => Between(base[t], latest[t]) = {}
    BY <1>1 DEF Between
  <2>4. pc'[t] = "complete" => base[t] = latest[t]
    BY <1>1, <2>1
  <2>5. pc'[t] = "commit" => RowCount[t] > 0
    BY <1>1, <2>1
  <2> QED BY <2>1, <2>2, <2>3, <2>4, <2>5 DEF SettledTable, Completed
<1>5. CASE Commit(t)
  <2>1. open'[t] = {} /\ pc'[t] = "saving" /\ pc[t] = "commit" /\ UNCHANGED ckpt
    BY <1>5, CommitShrinks, GotoOnly DEF Commit, TypeOK
  <2> QED BY <2>1 DEF SettledTable, Completed
<1>6. CASE SaveBatch(t)
  <2>1. pc[t] = "saving" /\ ~Completed(t)' /\ open[t] = {} /\ RowCount[t] > 0
    BY <1>6, NotCompletedNow DEF SaveBatch, RecordSaved, SettledTable
  <2>2. open'[t] \subseteq open[t]
    BY <1>6, EscapeAndCloseShrinks DEF SaveBatch, target
  <2>3. pc'[t] \in {"done", "interrupted", "saving", "complete", "loop"}
    BY <1>6, <2>1, EscapeAndCloseShrinks, GotoOnly DEF SaveBatch, TypeOK
  <2> QED BY <2>1, <2>2, <2>3 DEF SettledTable
<1>7. CASE SaveFailure(t)
  <2>1. pc[t] = "writeFailed" /\ ~Completed(t)' /\ RowCount[t] > 0
    BY <1>7, NotCompletedNow DEF SaveFailure, SettledTable
  <2>2. open'[t] \subseteq open[t] /\ pc'[t] \in {"done", "interrupted", "except"}
    BY <1>7, ReturnShrinks, GotoOnly DEF SaveFailure, target, TypeOK
  <2> QED BY <2>1, <2>2, <1>10, LeavesSettled
<1>8. CASE HandleError(t) \/ SaveCancelled(t)
  <2>1. Completed(t)' => Completed(t)
    BY <1>8, NotCompletedNow DEF HandleError, SaveCancelled, Completed
  <2>2. open'[t] \subseteq open[t] /\ pc'[t] = "done"
    BY <1>8, PublishShrinks DEF HandleError, SaveCancelled
  <2> QED BY <2>1, <2>2, <1>10, LeavesSettled
<1>9. CASE CompleteTable(t)
  <2>1. open[t] = {} /\ open'[t] \subseteq open[t] /\ pc'[t] = "done"
    BY <1>9, PublishShrinks DEF CompleteTable, SettledTable
  <2> QED BY <2>1, <1>10, LeavesSettled
<1> QED BY <1>2, <1>3, <1>4, <1>5, <1>6, <1>7, <1>8, <1>9 DEF Work

LEMMA TroubleSettled ==
  ASSUME TypeOK, NEW t \in Tables, SettledTable(t), Trouble(t), ~Interrupt(t)
  PROVE  SettledTable(t)'
<1>1. latest[t] \in Nat /\ RowCount[t] \in Nat
  BY CursorsOf DEF TypeOK
<1>10. pc[t] # "done"
  BY WorkersStep
<1>2. CASE WriteFails(t)
  <2>1. /\ RowCount[t] > 0 /\ ~Completed(t) /\ UNCHANGED ckpt
        /\ pc'[t] = "writeFailed"
    BY <1>1, <1>2, GotoOnly DEF WriteFails, Reading, SettledTable, TypeOK
  <2> QED BY <2>1 DEF SettledTable, Completed
<1>3. CASE ReadFails(t) \/ SaveFailureFails(t)
  <2>1. UNCHANGED <<ckpt, open>> /\ pc'[t] = "except"
    BY <1>3, GotoOnly DEF ReadFails, SaveFailureFails, target, TypeOK
  <2> QED BY <2>1, <1>10, LeavesSettled DEF Completed
<1>4. CASE CommitFails(t)
  <2>1. UNCHANGED ckpt /\ pc'[t] \in {"done", "except"} /\ open'[t] \subseteq open[t]
    BY <1>4, CommitShrinks, EscapeOnly DEF CommitFails
  <2> QED BY <2>1, <1>10, LeavesSettled DEF Completed
<1>5. CASE PublishFails(t) \/ SaveBatchFails(t)
  <2>1. /\ pc[t] = "saving" /\ RowCount[t] > 0
        /\ Completed(t)' => Completed(t)
    BY <1>5, NotCompletedNow
       DEF PublishFails, SaveBatchFails, RecordSaved, SettledTable, Completed
  <2>2. open'[t] \subseteq open[t] /\ pc'[t] \in {"done", "except", "interrupted"}
    BY <1>5, EscapeAndCloseShrinks DEF PublishFails, SaveBatchFails
  <2> QED BY <2>1, <2>2, <1>10, LeavesSettled
<1>6. CASE HandlerFails(t) \/ CompleteTableFails(t)
  <2>1. UNCHANGED ckpt /\ pc'[t] = "done" /\ open'[t] \subseteq open[t]
    BY <1>6, ReturnShrinks DEF HandlerFails, CompleteTableFails
  <2> QED BY <2>1, <1>10, LeavesSettled DEF Completed
<1> QED BY <1>2, <1>3, <1>4, <1>5, <1>6 DEF Trouble

LEMMA SettledInductive ==
  ASSUME Durable, Trusting, IInv, SettledInv, [Next]_vars
  PROVE  SettledInv'
<1> USE DEF SettledInv
<1>1. AtRest'
  BY AtRestInductive DEF IInv
<1>2. ASSUME NEW m \in AllModes, StartRun(m), NEW u \in Tables PROVE SettledTable(u)'
  <2>1. open'[u] = {} /\ UNCHANGED ckpt /\ pc'[u] \in {"waiting", "done"}
    BY <1>2 DEF StartRun, AtRest, target
  <2>2. Completed(u) /\ pc'[u] # "done" => RowCount[u] = 0
    BY <1>2, RerunIsEmpty
  <2> QED BY <2>1, <2>2 DEF SettledTable, Completed
<1>3. ASSUME NEW t \in Tables, Work(t) \/ Trouble(t), NEW u \in Tables
      PROVE  SettledTable(u)'
  <2>1. ~Interrupt(t)
    BY DEF Durable, Interrupt, Fault
  <2>2. CASE u = t
    BY <1>3, <2>1, <2>2, WorkSettled, TroubleSettled DEF IInv
  <2>3. CASE u # t
    BY <1>3, <2>3, WorkersStep, OthersSettled DEF IInv
  <2> QED BY <2>2, <2>3
<1>4. ASSUME EndRun \/ Crash, NEW u \in Tables PROVE SettledTable(u)'
  BY <1>4 DEF EndRun, Crash, Idle, SettledTable, Completed
<1>5. ASSUME RequestCancel \/ UNCHANGED vars, NEW u \in Tables PROVE SettledTable(u)'
  BY <1>5 DEF RequestCancel, vars, target, cursors, SettledTable, Completed, Between
<1> QED BY <1>1, <1>2, <1>3, <1>4, <1>5 DEF Next

(* A commit on a shared connection finds nothing of a completed table.     *)
LEMMA CommitLeavesCompleted ==
  ASSUME TypeOK, SettledInv, NEW t \in Tables, CommitOpen(t),
         NEW u \in Tables, Completed(u)
  PROVE  copies'[u] = copies[u]
<1>1. open[u] = {}
  BY DEF SettledInv, SettledTable
<1>2. copies'[u] = [r \in Rows(u) |-> copies[u][r]]
  BY <1>1 DEF CommitOpen
<1>3. copies[u] \in [Rows(u) -> Nat]
  BY DEF TypeOK, TargetOK
<1> QED BY <1>2, <1>3

CompletedStay == \A t \in Tables : Completed(t) => copies'[t] = copies[t]

(* A worker changes the target in a commit only, and breaks only its own   *)
(* connection.                                                             *)
LEMMA WorkerCommits ==
  ASSUME TypeOK, NEW t \in Tables, Work(t) \/ Trouble(t)
  PROVE  /\ \/ UNCHANGED copies
            \/ CommitOpen(t) /\ UNCHANGED ckpt /\ pc[t] = "commit"
         /\ UNCHANGED broken \/ (Break(t) /\ Active(t))
<1>1. CASE WriteFails(t)
  BY <1>1, PartialShrinks DEF WriteFails, PartialWrite, BreakingWrite, Reading, Active
<1>2. CASE CommitFails(t) \/ Interrupt(t) \/ Commit(t)
  BY <1>2 DEF CommitFails, Interrupt, InterruptedWrite, InterruptedCommit, PartialWrite, BreakingWrite,
              Commit, LoseOpen, Active, target
<1>3. CASE SaveBatch(t) \/ PublishFails(t) \/ SaveBatchFails(t)
  BY <1>3 DEF SaveBatch, PublishFails, SaveBatchFails, target, EscapeAndClose, Return,
     CloseOwn
<1>4. CASE HandleError(t) \/ SaveCancelled(t) \/ CompleteTable(t)
  BY <1>4 DEF HandleError, SaveCancelled, CompleteTable, PublishAndReturn, Return, CloseOwn
<1>5. CASE StartTable(t) \/ SaveFailure(t) \/ HandlerFails(t) \/ CompleteTableFails(t)
  BY <1>5 DEF StartTable, SaveFailure, HandlerFails, CompleteTableFails, target, Return,
     CloseOwn
<1>6. CASE WriteBatch(t) \/ EndOfRows(t) \/ ReadFails(t) \/ SaveFailureFails(t)
  BY <1>6 DEF WriteBatch, EndOfRows, ReadFails, SaveFailureFails, target
<1> QED BY <1>1, <1>2, <1>3, <1>4, <1>5, <1>6 DEF Work, Trouble

(* The target changes in a commit only.                                    *)
LEMMA CommitsOnly ==
  ASSUME TypeOK, [Next]_vars
  PROVE  \/ UNCHANGED copies
         \/ \E t \in Tables : CommitOpen(t) /\ UNCHANGED ckpt
<1>1. CASE EndRun \/ Crash \/ RequestCancel \/ UNCHANGED vars
  BY <1>1 DEF EndRun, Crash, Idle, RequestCancel, vars, target
<1>2. CASE \E m \in AllModes : StartRun(m)
  BY <1>2 DEF StartRun, target
<1> QED BY <1>1, <1>2, WorkerCommits DEF Next

LEMMA EveryStepLeavesCompleted ==
  ASSUME TypeOK, SettledInv, [Next]_vars
  PROVE  CompletedStay
  BY CommitsOnly, CommitLeavesCompleted DEF CompletedStay

(* Both invariants together.                                               *)
FinalInv == IInv /\ SettledInv

LEMMA FinalInit ==
  ASSUME Init
  PROVE  FinalInv
<1>1. AtRest
  BY DEF Init, AtRest
<1>2. ASSUME NEW t \in Tables PROVE SettledTable(t)
  BY DEF Init, SettledTable, Completed, NoCheckpoint, Checkpoint
<1> QED BY <1>1, <1>2, InitSafe DEF FinalInv, SettledInv

LEMMA FinalInductive ==
  ASSUME Durable, Trusting
  PROVE  FinalInv /\ TypeOK' /\ [Next]_vars => FinalInv'
  BY IInvInductive, SettledInductive DEF FinalInv

(* Nothing adds a row to a completed table: not a later run of any         *)
(* command, and not the commit of a table that comes after it on the same  *)
(* connection.                                                             *)
THEOREM CompletedLeftAlone ==
  ASSUME Durable, Trusting
  PROVE  Spec => CompletedIsFinal
<1>1. Init => FinalInv
  BY FinalInit
<1>2. FinalInv /\ TypeOK' /\ [Next]_vars => FinalInv'
  BY FinalInductive
<1>3. FinalInv /\ [Next]_vars => [CompletedStay]_vars
  BY EveryStepLeavesCompleted DEF FinalInv, IInv
<1>4. [][CompletedStay]_vars => CompletedIsFinal
  BY DEF CompletedStay, CompletedIsFinal
<1> QED BY <1>1, <1>2, <1>3, <1>4, TypeCorrect, PTL DEF Spec

-----------------------------------------------------------------------------
(* The refinement of ResumableCopy.                                        *)

(* A commit is a copy: it takes no row away and adds none to a completed   *)
(* table.                                                                  *)
LEMMA CommitIsCopy ==
  ASSUME TypeOK, TypeOK', SettledInv, NEW t \in Tables, CommitOpen(t), UNCHANGED ckpt
  PROVE  Promise!Copy
<1>1. Copied' \in [Tables -> SUBSET Nat]
  BY DEF Copied, Rows
<1>2. ASSUME NEW u \in Tables
      PROVE  /\ Copied[u] \subseteq Copied'[u]
             /\ Copied'[u] \subseteq 1 .. RowCount[u]
             /\ Done[u] => Copied'[u] = Copied[u]
  <2>1. ASSUME NEW r \in Rows(u), copies[u][r] > 0 PROVE copies'[u][r] > 0
    <3>1. copies[u][r] \in Nat
      BY DEF TypeOK, TargetOK
    <3>2. copies'[u][r] = IF u \in Peers(t) /\ r \in open[u]
                          THEN copies[u][r] + 1 ELSE copies[u][r]
      BY DEF CommitOpen
    <3> QED BY <2>1, <3>1, <3>2
  <2>2. Completed(u) => copies'[u] = copies[u]
    BY CommitLeavesCompleted
  <2> QED BY <2>1, <2>2 DEF Copied, Done, Rows
<1>3. UNCHANGED <<Claimed, Done>>
  BY DEF Claimed, Done, Completed
<1> QED BY <1>1, <1>2, <1>3 DEF Promise!Copy, Promise!Tables

(* A checkpoint at a covered cursor of a table that is not completed is a  *)
(* claim.                                                                  *)
LEMMA RecordIsClaim ==
  ASSUME TypeOK, UNCHANGED copies, NEW t \in Tables, ~Completed(t),
         NEW status, status # "table_completed", NEW rows,
         NEW cursor \in Nat, cursor <= RowCount[t], Covered(t, cursor),
         Record(t, status, cursor, rows)
  PROVE  Promise!Next
<1>1. cursor \in 0 .. RowCount[t]
  OBVIOUS
<1>2. 1 .. cursor \subseteq Copied[t]
  BY DEF Covered, InTarget, Between, Copied, Rows
<1>3. ckpt' = [ckpt EXCEPT ![t] = Checkpoint(status, cursor, rows)]
  BY DEF Record
<1>4. Claimed' = [Claimed EXCEPT ![t] = cursor]
  BY <1>3 DEF Claimed, Checkpoint, TypeOK, CheckpointOK
<1>5. UNCHANGED <<Copied, Done>>
  <2>1. UNCHANGED Copied
    BY DEF Copied
  <2>2. UNCHANGED Done
    BY <1>3 DEF Done, Completed, Checkpoint, TypeOK, CheckpointOK
  <2> QED BY <2>1, <2>2
<1>6. Promise!Claim(t, cursor)
  BY <1>1, <1>2, <1>4, <1>5 DEF Promise!Claim, Done
<1> QED BY <1>1, <1>6 DEF Promise!Next, Promise!Tables

(* table_completed is the promise's finish, and says nothing new of a      *)
(* table without rows that is completed again.                             *)
LEMMA RecordIsFinish ==
  ASSUME TypeOK, UNCHANGED copies, NEW t \in Tables, NEW rows,
         Covered(t, RowCount[t]), Completed(t) => RowCount[t] = 0,
         Record(t, "table_completed", RowCount[t], rows)
  PROVE  Promise!Next \/ UNCHANGED Promise!vars
<1>1. ckpt' = [ckpt EXCEPT ![t] = Checkpoint("table_completed", RowCount[t], rows)]
  BY DEF Record
<1>2. Claimed' = [Claimed EXCEPT ![t] = RowCount[t]]
  BY <1>1 DEF Claimed, Checkpoint, TypeOK, CheckpointOK
<1>3. Done' = [Done EXCEPT ![t] = TRUE]
  BY <1>1 DEF Done, Completed, Checkpoint, TypeOK, CheckpointOK
<1>4. UNCHANGED Copied
  BY DEF Copied
<1>5. CASE ~Completed(t)
  <2>1. Copied[t] = 1 .. RowCount[t]
    BY DEF Covered, InTarget, Between, Copied, Rows
  <2>2. Promise!Finish(t)
    BY <1>2, <1>3, <1>4, <1>5, <2>1 DEF Promise!Finish, Done
  <2> QED BY <2>2 DEF Promise!Next, Promise!Tables
<1>6. CASE Completed(t)
  <2>1. ckpt[t].cursor = 0 /\ RowCount[t] = 0
    BY <1>6 DEF TypeOK, CheckpointOK
  <2>2. Claimed' = Claimed
    BY <1>2, <2>1 DEF Claimed
  <2>3. Done' = Done
    BY <1>3, <1>6 DEF Done
  <2> QED BY <1>4, <2>2, <2>3 DEF Promise!vars
<1> QED BY <1>5, <1>6

LEMMA NothingSeen ==
  ASSUME UNCHANGED <<copies, ckpt>>
  PROVE  UNCHANGED Promise!vars
  BY DEF Promise!vars, Copied, Claimed, Done, Completed

(* What a worker records, at every place where it records something.       *)
LEMMA WorkerKeepsPromise ==
  ASSUME FinalInv, NEW t \in Tables, Work(t) \/ Trouble(t), UNCHANGED copies
  PROVE  Promise!Next \/ UNCHANGED Promise!vars
<1>1. pc[t] # "done" /\ WorkerInv(t) /\ SettledTable(t) /\ TypeOK
  BY WorkersStep DEF FinalInv, IInv, TableInv, SettledInv
<1>2. /\ base[t] \in Nat /\ latest[t] \in Nat /\ base[t] <= RowCount[t]
      /\ latest[t] <= RowCount[t] /\ Covered(t, base[t]) /\ RowCount[t] \in Nat
  BY <1>1, CursorsOf DEF WorkerInv, Pending, TypeOK
<1>3. CASE SaveFailure(t)
  <2>1. Covered(t, latest[t]) /\ ~Completed(t)
    BY <1>1, <1>2, <1>3 DEF SaveFailure, WorkerInv, SettledTable
  <2> QED BY <1>1, <1>2, <1>3, <2>1, RecordIsClaim DEF SaveFailure
<1>4. CASE SaveCancelled(t)
  <2>1. Covered(t, latest[t]) /\ ~Completed(t)
    BY <1>1, <1>2, <1>4 DEF SaveCancelled, WorkerInv, SettledTable
  <2> QED BY <1>1, <1>2, <1>4, <2>1, RecordIsClaim DEF SaveCancelled
<1>5. CASE HandleError(t)
  <2>1. CASE base[t] < latest[t]
    <3>1. ~Completed(t)
      BY <1>1, <1>2, <2>1 DEF SettledTable
    <3> QED BY <1>1, <1>2, <1>5, <2>1, <3>1, RecordIsClaim DEF HandleError
  <2>2. CASE ~(base[t] < latest[t])
    BY <1>5, <2>2, NothingSeen DEF HandleError
  <2> QED BY <2>1, <2>2
<1>6. CASE SaveBatch(t) \/ PublishFails(t) \/ SaveBatchFails(t)
  <2>1. pc[t] = "saving"
    BY <1>6 DEF SaveBatch, PublishFails, SaveBatchFails
  <2>2. SavedNext(t) = latest[t] /\ Covered(t, latest[t]) /\ ~Completed(t)
    BY <1>1, <1>2, <2>1, SavingOneBatch DEF SettledTable, FinalInv
  <2>3. \/ RecordSaved(t, "completed")
        \/ RecordSaved(t, "checkpoint_failed_after_commit")
        \/ UNCHANGED ckpt
    BY <1>6 DEF SaveBatch, PublishFails, SaveBatchFails
  <2> QED BY <1>1, <1>2, <2>2, <2>3, RecordIsClaim, NothingSeen DEF RecordSaved
<1>7. CASE CompleteTable(t)
  <2>1. /\ latest[t] = RowCount[t] /\ Covered(t, RowCount[t])
        /\ Completed(t) => RowCount[t] = 0
    BY <1>1, <1>7 DEF CompleteTable, WorkerInv, SettledTable
  <2> QED BY <1>1, <1>7, <2>1, RecordIsFinish DEF CompleteTable
<1>8. CASE UNCHANGED ckpt
  BY <1>8, NothingSeen
<1> QED BY <1>3, <1>4, <1>5, <1>6, <1>7, <1>8
     DEF Work, Trouble, StartTable, WriteBatch, EndOfRows, Commit, WriteFails, ReadFails,
         CommitFails, SaveFailureFails, HandlerFails, CompleteTableFails, Interrupt

LEMMA StepKeepsPromise ==
  ASSUME Durable, FinalInv, TypeOK', [Next]_vars
  PROVE  [Promise!Next]_(Promise!vars)
<1>1. TypeOK /\ SettledInv
  BY DEF FinalInv, IInv
<1>2. CASE \E t \in Tables : CommitOpen(t) /\ UNCHANGED ckpt
  BY <1>1, <1>2, CommitIsCopy DEF Promise!Next
<1>3. CASE UNCHANGED copies
  <2>1. CASE \E t \in Tables : Work(t) \/ Trouble(t)
    BY <1>3, <2>1, WorkerKeepsPromise
  <2>2. CASE UNCHANGED ckpt
    BY <1>3, <2>2, NothingSeen
  <2> QED BY <2>1, <2>2 DEF Next, StartRun, EndRun, Crash, Idle, RequestCancel, vars
<1> QED BY <1>1, <1>2, <1>3, CommitsOnly

(* The checkpointed copy is a resumable copy: its target only gains rows,  *)
(* a recorded cursor never passes rows that are missing, and a table       *)
(* declared completed is complete and left alone.                          *)
THEOREM PromiseKept ==
  ASSUME Durable, Trusting
  PROVE  Spec => KeepsPromise
<1>1. Init => FinalInv /\ Promise!Init
  <2>1. ASSUME Init PROVE Promise!Init
    <3>1. Copied = [t \in Tables |-> {}]
      BY <2>1 DEF Init, Copied
    <3>2. Claimed = [t \in Tables |-> 0] /\ Done = [t \in Tables |-> FALSE]
      BY <2>1 DEF Init, Claimed, Done, Completed, NoCheckpoint, Checkpoint
    <3> QED BY <3>1, <3>2 DEF Promise!Init, Promise!Tables
  <2> QED BY <2>1, FinalInit
<1>2. FinalInv /\ TypeOK' /\ [Next]_vars => FinalInv'
  BY FinalInductive
<1>3. FinalInv /\ TypeOK' /\ [Next]_vars => [Promise!Next]_(Promise!vars)
  BY StepKeepsPromise
<1> QED BY <1>1, <1>2, <1>3, TypeCorrect, PTL DEF Spec, KeepsPromise, Promise!Spec

-----------------------------------------------------------------------------
(* Workers with a connection each never double a row.                      *)

(* Several workers, a job that is only resumed or retried, and faults that *)
(* strike reads and writes; if the cancel button is used, at most one      *)
(* batch is left to commit when the rows of a table run out.               *)
Isolated ==
  /\ ~Shared
  /\ "migrate" \notin Modes
  /\ Faults \subseteq {"read", "write", "cancel"}
  /\ "cancel" \in Faults => \A t \in Tables : CommitInterval <= BatchSize[t] + 1

(* The cursor behind which nothing of the table is in the target: where    *)
(* the next attempt at the table will start, unless the worker is about to *)
(* record a later one.                                                     *)
Frontier(t) ==
  IF pc[t] = "done" THEN ckpt[t].cursor
  ELSE IF pc[t] \in {"saving", "interrupted", "complete"} THEN latest[t] ELSE base[t]

Once(t) ==
  \A r \in Rows(t) : copies[t][r] <= 1 /\ (copies[t][r] > 0 => r <= Frontier(t))

OnceTable(t) ==
  /\ Once(t)
  /\ pc[t] \in {"waiting", "loop", "except"} => ckpt[t].cursor = base[t]
  /\ pc[t] \in {"done", "waiting", "saving", "complete"} => open[t] = {}
  /\ pc[t] \in {"loop", "commit"} => open[t] \subseteq Between(base[t], latest[t])
  /\ pc[t] \in {"waiting", "loop", "commit", "saving"} => ~broken[t]
  /\ pc[t] = "waiting" => base[t] = latest[t]
  /\ pc[t] = "loop" => latest[t] - base[t] < CommitInterval
  /\ pc[t] \in {"commit", "saving"} /\ tail[t] =>
       /\ latest[t] = RowCount[t]
       /\ "cancel" \in Faults => latest[t] - base[t] <= BatchSize[t]
  /\ pc[t] \in {"waiting", "loop"} => ~tail[t]
  /\ pc[t] = "saving" => base[t] <= saved[t]

Cancellable == cancel => "cancel" \in Faults

OnceInv == AtRest /\ Cancellable /\ \A t \in Tables : OnceTable(t)

(* A worker with its own connection leaves the other tables alone.         *)
LEMMA OthersOnce ==
  ASSUME ~Shared, TypeOK, NEW t \in Tables, Work(t) \/ Trouble(t),
         NEW u \in Tables, u # t, OnceTable(u)
  PROVE  OnceTable(u)'
<1>1. u \notin Peers(t)
  BY DEF Peers
<1>2. copies'[u] = copies[u]
  <2>1. CASE CommitOpen(t)
    <3>1. copies'[u] = [r \in Rows(u) |-> copies[u][r]]
      BY <1>1, <2>1 DEF CommitOpen
    <3> QED BY <3>1 DEF TypeOK, TargetOK
  <2> QED BY <2>1, WorkerCommits
<1>3. broken'[u] = broken[u]
  BY <1>1, WorkerCommits DEF Break, TypeOK, TargetOK
<1>4. /\ pc'[u] = pc[u] /\ ckpt'[u] = ckpt[u] /\ base'[u] = base[u]
      /\ latest'[u] = latest[u] /\ saved'[u] = saved[u] /\ tail'[u] = tail[u]
      /\ open'[u] \subseteq open[u]
  BY WorkersStep DEF OnlyWorker, OpenShrinks
<1>5. Once(u)'
  BY <1>2, <1>4 DEF OnceTable, Once, Frontier, Rows
<1> QED BY <1>3, <1>4, <1>5 DEF OnceTable, Between

(* The rows of a table stay where they are, and the frontier is not moved  *)
(* back.                                                                   *)
LEMMA OnceStays ==
  ASSUME TypeOK, TypeOK', NEW t \in Tables, Once(t), UNCHANGED copies,
         Frontier(t) <= Frontier(t)'
  PROVE  Once(t)'
<1>1. Frontier(t) \in Nat /\ Frontier(t)' \in Nat
  BY DEF Frontier, TypeOK, CursorsOK, CheckpointOK
<1> QED BY <1>1 DEF Once, Rows

(* Returning closes the worker's own connection.                           *)
LEMMA OwnClosed ==
  ASSUME ~Shared, TypeOK, NEW t \in Tables, NEW status,
         Return(t, status) \/ PublishAndReturn(t, status)
  PROVE  open'[t] = {} /\ pc'[t] = "done" /\ UNCHANGED copies
  BY LeaveOnly DEF Return, PublishAndReturn, CloseOwn, TypeOK, TargetOK

LEMMA RecordedCursor ==
  ASSUME TypeOK, NEW t \in Tables, NEW status, NEW cursor, NEW rows,
         Record(t, status, cursor, rows)
  PROVE  ckpt'[t].cursor = cursor
  BY DEF Record, Checkpoint, TypeOK, CheckpointOK

(* A table that is left with nothing in the target behind its checkpoint.  *)
LEMMA OnceLeft ==
  ASSUME ~Shared, TypeOK, TypeOK', NEW t \in Tables, OnceTable(t), NEW status,
         Return(t, status) \/ PublishAndReturn(t, status),
         Frontier(t) <= ckpt'[t].cursor
  PROVE  OnceTable(t)'
<1>1. open'[t] = {} /\ pc'[t] = "done" /\ UNCHANGED copies
  BY OwnClosed
<1>2. Once(t)'
  BY <1>1, OnceStays DEF OnceTable, Frontier
<1> QED BY <1>1, <1>2 DEF OnceTable

LEMMA WorkOnce ==
  ASSUME Isolated, Cancellable, TypeOK, TypeOK', NEW t \in Tables, OnceTable(t), Work(t)
  PROVE  OnceTable(t)'
<1> USE DEF Isolated
<1>1. /\ base[t] \in Nat /\ latest[t] \in Nat /\ RowCount[t] \in Nat
      /\ base[t] <= latest[t] /\ latest[t] <= RowCount[t] /\ saved[t] \in Nat
  BY CursorsOf DEF TypeOK
<1>11. base[t] <= base[t] /\ latest[t] <= latest[t]
  BY <1>1
<1>2. CASE StartTable(t)
  <2>1. UNCHANGED <<cursors, ckpt>> /\ pc[t] = "waiting"
    BY <1>2 DEF StartTable
  <2>2. CASE Return(t, "raised")
    BY <1>1, <1>11, <2>1, <2>2, OnceLeft DEF OnceTable, Frontier
  <2>3. CASE Goto(t, "loop") /\ UNCHANGED target
    <3>1. pc'[t] = "loop" /\ UNCHANGED <<copies, open, broken>>
      BY <2>3, GotoOnly DEF target, TypeOK
    <3>2. Once(t)'
      BY <1>1, <1>11, <2>1, <3>1, OnceStays DEF OnceTable, Frontier, cursors
    <3>3. latest[t] - base[t] = 0 /\ 0 < CommitInterval
      BY <1>1, <2>1 DEF OnceTable
    <3> QED BY <2>1, <3>1, <3>2, <3>3 DEF OnceTable, cursors
  <2> QED BY <1>2, <2>2, <2>3 DEF StartTable
<1>3. CASE WriteBatch(t)
  <2>1. /\ pc[t] = "loop" /\ latest[t] < RowCount[t]
        /\ open'[t] = open[t] \cup Batch(t) /\ base'[t] = base[t]
        /\ latest'[t] = BatchEnd(t, latest[t]) /\ UNCHANGED <<ckpt, copies, broken, tail>>
        /\ pc'[t] = IF latest'[t] - base[t] >= CommitInterval THEN "commit" ELSE "loop"
    BY <1>3, GotoOnly DEF WriteBatch, Reading, TypeOK, TargetOK, CursorsOK
  <2>6. /\ BatchEnd(t, latest[t]) \in Nat /\ latest[t] <= BatchEnd(t, latest[t])
        /\ BatchEnd(t, latest[t]) <= RowCount[t]
    BY <1>1, BatchEndBounds
  <2>2. latest'[t] \in Nat /\ latest[t] <= latest'[t] /\ latest'[t] <= RowCount[t]
    BY <2>1, <2>6
  <2>7. open[t] \subseteq Between(base[t], latest[t]) /\ base[t] <= latest[t]
    BY <1>1, <2>1 DEF OnceTable
  <2>3. open'[t] \subseteq Between(base'[t], latest'[t])
    <3>1. open'[t] = open[t] \cup Between(latest[t], latest'[t]) /\ base'[t] = base[t]
      BY <2>1 DEF Batch
    <3>2. /\ base[t] \in Nat /\ latest[t] \in Nat /\ latest'[t] \in Nat
          /\ base[t] <= latest[t] /\ latest[t] <= latest'[t]
      BY <1>1, <2>2
    <3>3. open[t] \cup Between(latest[t], latest'[t]) \subseteq Between(base[t], latest'[t])
      <4> DEFINE a == base[t]
                 b == latest[t]
                 c == latest'[t]
      <4>1. a \in Nat /\ b \in Nat /\ c \in Nat /\ a <= b /\ b <= c
        BY <3>2
      <4>2. open[t] \subseteq Between(a, b)
        BY <2>7
      <4> HIDE DEF a, b, c
      <4>3. open[t] \cup Between(b, c) \subseteq Between(a, c)
        BY <4>1, <4>2 DEF Between
      <4> QED BY <4>3 DEF a, b, c
    <3> QED BY <3>1, <3>3
  <2>4. Once(t)'
    BY <1>1, <1>11, <2>1, OnceStays DEF OnceTable, Frontier
  <2>5. ~tail[t]
    BY <2>1 DEF OnceTable
  <2> QED BY <1>1, <2>1, <2>2, <2>3, <2>4, <2>5, SMTT(30) DEF OnceTable
<1>4. CASE EndOfRows(t)
  <2>1. /\ pc[t] = "loop" /\ latest[t] = RowCount[t]
        /\ UNCHANGED <<open, copies, broken, base, latest, saved, ckpt>>
        /\ pc'[t] = IF latest[t] - base[t] > 0 THEN "commit" ELSE "complete"
    BY <1>4, GotoOnly DEF EndOfRows, Uncommitted, target, TypeOK
  <2>2. open[t] \subseteq Between(base[t], latest[t])
    BY <2>1 DEF OnceTable
  <2>3. pc'[t] = "complete" => base[t] = latest[t] /\ Between(base[t], latest[t]) = {}
    BY <1>1, <2>1 DEF Between
  <2>4. ASSUME "cancel" \in Faults PROVE latest[t] - base[t] <= BatchSize[t]
    <3>1. latest[t] - base[t] < CommitInterval /\ CommitInterval <= BatchSize[t] + 1
      BY <2>1, <2>4 DEF OnceTable
    <3>2. CommitInterval \in Nat /\ BatchSize[t] \in Nat
      OBVIOUS
    <3> QED BY <1>1, <3>1, <3>2
  <2>5. Once(t)'
    BY <1>1, <1>11, <2>1, <2>3, OnceStays DEF OnceTable, Frontier
  <2> QED BY <2>1, <2>2, <2>3, <2>4, <2>5 DEF OnceTable
<1>5. CASE Commit(t)
  <2>1. /\ open'[t] = {} /\ pc'[t] = "saving" /\ pc[t] = "commit"
        /\ UNCHANGED <<ckpt, base, latest, tail, broken>> /\ saved'[t] = base[t]
    BY <1>5, CommitShrinks, GotoOnly DEF Commit, TypeOK, CursorsOK
  <2>2. open[t] \subseteq Between(base[t], latest[t])
    BY <2>1 DEF OnceTable
  <2>3. ASSUME NEW r \in Rows(t)
        PROVE  copies'[t][r] <= 1 /\ (copies'[t][r] > 0 => r <= latest[t])
    <3>1. Frontier(t) = base[t]
      BY <2>1 DEF Frontier
    <3>5. copies[t][r] \in Nat /\ r \in Nat
      <4>1. copies[t] \in [Rows(t) -> Nat]
        BY DEF TypeOK, TargetOK
      <4>2. r \in Nat
        BY DEF Rows
      <4> QED BY <4>1, <4>2
    <3>6. copies[t][r] <= 1 /\ (copies[t][r] > 0 => r <= base[t])
      BY <3>1 DEF OnceTable, Once
    <3>2. copies'[t][r] = IF r \in open[t] THEN copies[t][r] + 1 ELSE copies[t][r]
      BY <1>5 DEF Commit, CommitOpen, Peers
    <3>3. CASE r \in open[t]
      <4>1. base[t] < r /\ r <= latest[t]
        BY <1>1, <2>2, <3>3 DEF Between
      <4>2. copies[t][r] = 0
        BY <1>1, <3>5, <3>6, <4>1
      <4> QED BY <3>2, <3>3, <4>1, <4>2
    <3>4. CASE r \notin open[t]
      BY <1>1, <3>2, <3>4, <3>5, <3>6
    <3> QED BY <3>3, <3>4
  <2>4. Once(t)'
    BY <2>1, <2>3 DEF Once, Frontier, Rows
  <2> QED BY <1>1, <2>1, <2>4 DEF OnceTable
<1>6. CASE SaveBatch(t)
  <2>1. /\ pc[t] = "saving" /\ open[t] = {} /\ ckpt'[t].cursor = SavedNext(t)
        /\ UNCHANGED <<latest, tail>> /\ saved'[t] = SavedNext(t) /\ base[t] <= saved[t]
    BY <1>6, RecordedCursor DEF SaveBatch, RecordSaved, OnceTable, TypeOK, CursorsOK
  <2>2. SavedNext(t) \in Nat /\ saved[t] <= SavedNext(t)
    BY <1>1, BatchEndBounds, CursorsOf DEF SavedNext, TypeOK
  <2>3. CASE cancel /\ tail[t]
    <3>1. Return(t, "raised")
      BY <1>6, <2>3 DEF SaveBatch, EscapeAndClose
    <3>2. latest[t] = RowCount[t] /\ latest[t] - base[t] <= BatchSize[t]
      BY <2>1, <2>3 DEF OnceTable, Cancellable
    <3>4. latest[t] <= SavedNext(t)
      BY <1>1, <2>1, <3>2 DEF SavedNext, BatchEnd
    <3> QED BY <2>1, <3>1, <3>4, OnceLeft DEF Frontier
  <2>4. CASE cancel /\ ~tail[t]
    <3>1. Goto(t, "interrupted") /\ UNCHANGED target
      BY <1>6, <2>4 DEF SaveBatch, EscapeAndClose
    <3>2. pc'[t] = "interrupted" /\ UNCHANGED copies
      BY <3>1, GotoOnly DEF target, TypeOK
    <3>3. Once(t)'
      BY <1>1, <1>11, <2>1, <3>2, OnceStays DEF OnceTable, Frontier
    <3> QED BY <3>2, <3>3 DEF OnceTable
  <2>5. CASE ~cancel /\ UNCHANGED <<pc, target, base>>
    <3>1. Once(t)'
      BY <1>1, <1>11, <2>1, <2>5, OnceStays DEF OnceTable, Frontier, target
    <3>2. base'[t] <= saved'[t]
      BY <1>1, <2>1, <2>2, <2>5
    <3> QED BY <2>1, <2>5, <3>1, <3>2 DEF OnceTable, target
  <2>6. CASE /\ SavedNext(t) = latest[t] /\ base' = [base EXCEPT ![t] = latest[t]]
             /\ Goto(t, IF tail[t] THEN "complete" ELSE "loop") /\ UNCHANGED target
    <3>1. /\ pc'[t] \in {"complete", "loop"} /\ UNCHANGED <<copies, open, broken>>
          /\ base'[t] = latest[t]
      BY <2>6, GotoOnly DEF target, TypeOK, CursorsOK
    <3>2. Once(t)'
      BY <1>1, <1>11, <2>1, <3>1, OnceStays DEF OnceTable, Frontier
    <3>3. latest'[t] - base'[t] = 0 /\ 0 < CommitInterval
      BY <1>1, <2>1, <3>1
    <3>4. pc'[t] = "loop" => ~tail[t]
      BY <2>6, GotoOnly DEF TypeOK
    <3>5. pc'[t] = "loop" => ~broken[t]
      BY <2>1, <3>1 DEF OnceTable
    <3> QED BY <2>1, <2>6, <3>1, <3>2, <3>3, <3>4, <3>5 DEF OnceTable
  <2> QED BY <1>6, <2>3, <2>4, <2>5, <2>6 DEF SaveBatch
<1>7. CASE SaveFailure(t)
  <2>1. pc[t] = "writeFailed" /\ ckpt'[t].cursor = latest[t] /\ UNCHANGED cursors
    BY <1>7, RecordedCursor DEF SaveFailure
  <2>2. CASE Goto(t, "interrupted") /\ UNCHANGED target
    <3>1. pc'[t] = "interrupted" /\ UNCHANGED copies
      BY <2>2, GotoOnly DEF target, TypeOK
    <3>2. Once(t)'
      BY <1>1, <1>11, <2>1, <3>1, OnceStays DEF OnceTable, Frontier, cursors
    <3> QED BY <3>1, <3>2 DEF OnceTable
  <2>3. CASE Return(t, "failed")
    BY <1>1, <1>11, <2>1, <2>3, OnceLeft DEF Frontier
  <2> QED BY <1>7, <2>2, <2>3 DEF SaveFailure, Fault
<1>8. CASE HandleError(t)
  <2>1. pc[t] = "except" /\ ckpt'[t].cursor = base[t]
    BY <1>8, RecordedCursor DEF HandleError, OnceTable
  <2> QED BY <1>1, <1>8, <1>11, <2>1, OnceLeft DEF HandleError, Frontier
<1>9. CASE SaveCancelled(t) \/ CompleteTable(t)
  <2>1. pc[t] \in {"interrupted", "complete"} /\ ckpt'[t].cursor = latest[t]
    BY <1>9, RecordedCursor DEF SaveCancelled, CompleteTable
  <2> QED BY <1>1, <1>9, <1>11, <2>1, OnceLeft DEF SaveCancelled, CompleteTable, Frontier
<1> QED BY <1>2, <1>3, <1>4, <1>5, <1>6, <1>7, <1>8, <1>9 DEF Work

LEMMA TroubleOnce ==
  ASSUME Isolated, TypeOK, TypeOK', NEW t \in Tables, OnceTable(t), Trouble(t)
  PROVE  OnceTable(t)'
<1> USE DEF Isolated
<1>1. base[t] \in Nat /\ base[t] <= base[t]
  BY CursorsOf DEF TypeOK
<1>2. CASE WriteFails(t)
  <2>1. pc[t] = "loop" /\ pc'[t] = "writeFailed" /\ UNCHANGED <<copies, cursors>>
    BY <1>2, PartialShrinks, GotoOnly DEF WriteFails, Reading, TypeOK
  <2>2. Once(t)'
    BY <1>1, <2>1, OnceStays DEF OnceTable, Frontier, cursors
  <2> QED BY <2>1, <2>2 DEF OnceTable
<1>3. CASE ReadFails(t)
  <2>1. pc[t] = "loop" /\ pc'[t] = "except" /\ UNCHANGED <<target, cursors, ckpt>>
    BY <1>3, GotoOnly DEF ReadFails, TypeOK
  <2>2. Once(t)'
    BY <1>1, <2>1, OnceStays DEF OnceTable, Frontier, cursors, target
  <2> QED BY <2>1, <2>2 DEF OnceTable, cursors
<1>4. ~CommitFails(t)
  BY DEF CommitFails, Fault, OnceTable
<1>5. /\ ~PublishFails(t) /\ ~SaveBatchFails(t) /\ ~SaveFailureFails(t)
      /\ ~HandlerFails(t) /\ ~CompleteTableFails(t) /\ ~Interrupt(t)
  BY DEF PublishFails, SaveBatchFails, SaveFailureFails, HandlerFails, CompleteTableFails,
         Interrupt, Fault
<1> QED BY <1>2, <1>3, <1>4, <1>5 DEF Trouble

LEMMA OnceInductive ==
  ASSUME Isolated, TypeOK, TypeOK', OnceInv, [Next]_vars
  PROVE  OnceInv'
<1> USE DEF OnceInv
<1>1. AtRest'
  BY AtRestInductive
<1>7. Cancellable'
  <2>1. ASSUME NEW t \in Tables, Work(t) \/ Trouble(t) PROVE UNCHANGED cancel
    BY <2>1, WorkersStep
  <2> QED BY <2>1 DEF Cancellable, Next, StartRun, EndRun, Crash, Idle, RequestCancel,
             Fault, vars
<1>2. ASSUME NEW m \in AllModes, StartRun(m), NEW u \in Tables PROVE OnceTable(u)'
  <2>1. /\ m \in Modes /\ m # "migrate" /\ pc[u] = "done" /\ open[u] = {} /\ ~broken[u]
        /\ UNCHANGED <<copies, open, broken, ckpt>>
        /\ base'[u] = StartCursor(u, m) /\ latest'[u] = base'[u] /\ ~tail'[u]
        /\ pc'[u] = IF Runs(u, m) THEN "waiting" ELSE "done"
    BY <1>2 DEF StartRun, AtRest, target, Isolated
  <2>2. pc'[u] = "waiting" => base'[u] = ckpt[u].cursor
    BY <2>1 DEF StartCursor
  <2>3. Frontier(u)' = ckpt[u].cursor /\ Frontier(u) = ckpt[u].cursor
    BY <2>1, <2>2 DEF Frontier
  <2>4. ckpt[u].cursor \in Nat
    BY DEF TypeOK, CheckpointOK
  <2>5. Once(u)'
    BY <2>1, <2>3, <2>4, OnceStays DEF OnceTable
  <2> QED BY <2>1, <2>2, <2>5 DEF OnceTable
<1>3. ASSUME NEW t \in Tables, Work(t) \/ Trouble(t), NEW u \in Tables
      PROVE  OnceTable(u)'
  <2>1. CASE u = t
    BY <1>3, <2>1, WorkOnce, TroubleOnce
  <2>2. CASE u # t
    BY <1>3, <2>2, OthersOnce DEF Isolated
  <2> QED BY <2>1, <2>2
<1>4. ASSUME EndRun, NEW u \in Tables PROVE OnceTable(u)'
  <2>1. /\ pc[u] \in {"waiting", "done"} /\ pc'[u] = "done" /\ open'[u] = {}
        /\ UNCHANGED <<copies, ckpt>>
    BY <1>4 DEF EndRun, Idle, Active
  <2>2. ckpt[u].cursor \in Nat /\ Frontier(u)' = ckpt[u].cursor
        /\ Frontier(u) = ckpt[u].cursor
    BY <2>1 DEF TypeOK, CheckpointOK, Frontier, OnceTable
  <2>3. Once(u)'
    BY <2>1, <2>2, OnceStays DEF OnceTable
  <2> QED BY <2>1, <2>3 DEF OnceTable
<1>5. ~Crash
  BY DEF Crash, Fault, Isolated
<1>6. ASSUME RequestCancel \/ UNCHANGED vars, NEW u \in Tables PROVE OnceTable(u)'
  BY <1>6 DEF RequestCancel, vars, target, cursors, OnceTable, Once, Frontier, Between, Rows
<1> QED BY <1>1, <1>2, <1>3, <1>4, <1>5, <1>6, <1>7 DEF Next

(* Closing its own connection takes back what a failed worker had not      *)
(* committed, and the cursor it records is where its committed rows end:   *)
(* in a pool no sequence of failing reads and writes, cancels, resumes and *)
(* retries ever puts a second copy of a row in a table, keyed or not.      *)
THEOREM NothingTwice ==
  ASSUME Isolated
  PROVE  Spec => []NoDuplicates
<1>1. Init => OnceInv
  <2> SUFFICES ASSUME Init PROVE OnceInv
    OBVIOUS
  <2>1. AtRest
    BY DEF Init, AtRest
  <2>2. ASSUME NEW t \in Tables PROVE OnceTable(t)
    BY DEF Init, OnceTable, Once
  <2> QED BY <2>1, <2>2 DEF OnceInv, Cancellable, Init
<1>2. TypeOK /\ TypeOK' /\ OnceInv /\ [Next]_vars => OnceInv'
  BY OnceInductive
<1>3. OnceInv => NoDuplicates
  BY DEF OnceInv, OnceTable, Once, NoDuplicates
<1> QED BY <1>1, <1>2, <1>3, TypeCorrect, PTL DEF Spec

-----------------------------------------------------------------------------
(* Every further copy of a row is paid for by a fault.                     *)

(* The copies a row has, or will have once its connection commits.         *)
Weight(t, r) == copies[t][r] + (IF r \in open[t] THEN 1 ELSE 0)

Within(t, n) == \A r \in Rows(t) : Weight(t, r) <= n

Pressed == IF cancel THEN 1 ELSE 0

(* An attempt at a table that fails or is cancelled was ended by a fault   *)
(* that no earlier attempt has used up.                                    *)
Spending(t) ==
  /\ broken[t] => Within(t, faults)
  /\ \A r \in Rows(t) : /\ Weight(t, r) + Pressed <= faults + 1
                        /\ r > latest[t] => Weight(t, r) + Pressed <= faults

PaidTable(t) ==
  /\ pc[t] = "done" => Within(t, IF Completed(t) THEN faults + 1 ELSE faults)
  /\ pc[t] \in {"waiting", "writeFailed", "except", "interrupted"} => Within(t, faults)
  /\ pc[t] \in {"loop", "commit", "saving", "complete"} => Spending(t)

(* A key rejects the second copy of a row.                                 *)
KeyedOnce(t) == Within(t, 1)

Paid(t) == IF t \in Keyed THEN KeyedOnce(t) ELSE PaidTable(t)

PaidInv ==
  /\ TakeTurns
  /\ AtRest
  /\ \A t \in Tables : Paid(t)

Lighter(t) == \A r \in Rows(t) : Weight(t, r)' <= Weight(t, r)

LEMMA WeightType ==
  ASSUME TypeOK, NEW t \in Tables, NEW r \in Rows(t)
  PROVE  Weight(t, r) \in Nat /\ copies[t][r] \in Nat /\ copies[t][r] <= Weight(t, r)
<1>1. copies[t][r] \in Nat
  BY DEF TypeOK, TargetOK
<1> QED BY <1>1 DEF Weight

LEMMA WeightTypeNext ==
  ASSUME TypeOK', NEW t \in Tables, NEW r \in Rows(t)
  PROVE  Weight(t, r)' \in Nat /\ faults' \in Nat
<1>1. copies'[t][r] \in Nat
  BY DEF TypeOK, TargetOK, Rows
<1> QED BY <1>1, SMTT(30) DEF Weight, TypeOK, ControlOK

LEMMA BudgetType ==
  ASSUME TypeOK
  PROVE  faults \in Nat /\ Pressed \in {0, 1}
  BY DEF TypeOK, ControlOK, Pressed

LEMMA CommitWeight ==
  ASSUME TypeOK, NEW t \in Tables, CommitOpen(t), NEW u \in Tables
  PROVE  \A r \in Rows(u) : Weight(u, r)' = Weight(u, r)
<1> SUFFICES ASSUME NEW r \in Rows(u) PROVE Weight(u, r)' = Weight(u, r)
  OBVIOUS
<1>1. copies[u][r] \in Nat
  BY DEF TypeOK, TargetOK
<1>2. copies'[u][r] = IF u \in Peers(t) /\ r \in open[u] THEN copies[u][r] + 1
                                                         ELSE copies[u][r]
  BY DEF CommitOpen
<1>3. open'[u] = IF u \in Peers(t) THEN {} ELSE open[u]
  BY DEF CommitOpen
<1> QED BY <1>1, <1>2, <1>3 DEF Weight

LEMMA ShrinkWeight ==
  ASSUME TypeOK, UNCHANGED copies, NEW u \in Tables, open'[u] \subseteq open[u]
  PROVE  Lighter(u)
<1> SUFFICES ASSUME NEW r \in Rows(u) PROVE Weight(u, r)' <= Weight(u, r)
  BY DEF Lighter, Rows
<1>1. copies[u][r] \in Nat
  BY DEF TypeOK, TargetOK
<1> QED BY <1>1 DEF Weight

LEMMA CommitLighter ==
  ASSUME TypeOK, NEW t \in Tables, CommitOpen(t) \/ LoseOpen(t), NEW u \in Tables
  PROVE  Lighter(u)
<1>1. CASE CommitOpen(t)
  BY <1>1, CommitWeight, WeightType DEF Lighter, Rows
<1>2. CASE LoseOpen(t)
  BY <1>2, CommitShrinks, ShrinkWeight DEF LoseOpen
<1> QED BY <1>1, <1>2

(* Writing a batch adds at most one to the weight of its rows.             *)
LEMMA AddWeight ==
  ASSUME TypeOK, UNCHANGED copies, NEW t \in Tables, NEW rows,
         open' = [open EXCEPT ![t] = @ \cup rows]
  PROVE  \A r \in Rows(t) : /\ Weight(t, r)' <= Weight(t, r) + 1
                            /\ r \notin rows => Weight(t, r)' = Weight(t, r)
<1> SUFFICES ASSUME NEW r \in Rows(t)
             PROVE  /\ Weight(t, r)' <= Weight(t, r) + 1
                    /\ r \notin rows => Weight(t, r)' = Weight(t, r)
  OBVIOUS
<1>1. copies[t][r] \in Nat
  BY DEF TypeOK, TargetOK
<1>2. open'[t] = open[t] \cup rows
  BY DEF TypeOK, TargetOK
<1> QED BY <1>1, <1>2 DEF Weight

(* Faults are only ever added to.                                          *)
LEMMA FaultsStay ==
  ASSUME TypeOK, NEW t \in Tables, Work(t) \/ Trouble(t)
  PROVE  faults' \in Nat /\ (faults' = faults \/ faults' = faults + 1)
<1>1. faults \in Nat
  BY BudgetType
<1>2. faults' = faults \/ faults' = faults + 1
  BY DEF Work, Trouble, StartTable, WriteBatch, EndOfRows, Commit, SaveBatch, SaveFailure,
         HandleError, SaveCancelled, CompleteTable, WriteFails, ReadFails, CommitFails,
         PublishFails, SaveBatchFails, SaveFailureFails, HandlerFails, CompleteTableFails,
         Interrupt, PublishAndReturn, Fault, bounds
<1> QED BY <1>1, <1>2

LEMMA WithinStays ==
  ASSUME TypeOK, TypeOK', NEW t \in Tables, Lighter(t), NEW n \in Nat, NEW m \in Nat,
         Within(t, n), n <= m
  PROVE  \A r \in Rows(t) : Weight(t, r)' <= m
<1> SUFFICES ASSUME NEW r \in Rows(t) PROVE Weight(t, r)' <= m
  OBVIOUS
<1>1. Weight(t, r) \in Nat /\ Weight(t, r)' \in Nat
  BY WeightType, WeightTypeNext
<1>2. Weight(t, r) <= n /\ Weight(t, r)' <= Weight(t, r)
  BY DEF Within, Lighter
<1> QED BY <1>1, <1>2

(* No row of any table has more than one copy more than there were faults. *)
LEMMA AlwaysWithin ==
  ASSUME TypeOK, NEW t \in Tables, PaidTable(t)
  PROVE  Within(t, faults + 1)
<1> SUFFICES ASSUME NEW r \in Rows(t) PROVE Weight(t, r) <= faults + 1
  BY DEF Within
<1>1. Weight(t, r) \in Nat /\ faults \in Nat /\ Pressed \in {0, 1}
  BY WeightType, BudgetType
<1>2. CASE pc[t] = "done"
  BY <1>1, <1>2 DEF PaidTable, Within
<1>3. CASE pc[t] \in {"waiting", "writeFailed", "except", "interrupted"}
  BY <1>1, <1>3 DEF PaidTable, Within
<1>4. CASE pc[t] \in {"loop", "commit", "saving", "complete"}
  BY <1>1, <1>4 DEF PaidTable, Spending
<1>5. pc[t] \in Labels
  BY DEF TypeOK, ControlOK
<1> QED BY <1>2, <1>3, <1>4, <1>5 DEF Labels

(* What a worker has spent when it fails or is cancelled.                  *)
LEMMA SpentWithin ==
  ASSUME TypeOK, NEW t \in Tables, PaidTable(t), pc[t] # "done",
         \/ pc[t] \in {"waiting", "writeFailed", "except", "interrupted"}
         \/ cancel
         \/ broken[t]
  PROVE  Within(t, faults)
<1>1. CASE pc[t] \in {"waiting", "writeFailed", "except", "interrupted"}
  BY <1>1 DEF PaidTable
<1>2. CASE pc[t] \in {"loop", "commit", "saving", "complete"}
  <2>1. CASE broken[t]
    BY <1>2, <2>1 DEF PaidTable, Spending
  <2>2. CASE cancel
    <3> SUFFICES ASSUME NEW r \in Rows(t) PROVE Weight(t, r) <= faults
      BY DEF Within
    <3>1. Weight(t, r) \in Nat /\ faults \in Nat
      BY WeightType, BudgetType
    <3>2. Weight(t, r) + 1 <= faults + 1
      BY <1>2, <2>2 DEF PaidTable, Spending, Pressed
    <3> QED BY <3>1, <3>2
  <2> QED BY <1>2, <2>1, <2>2
<1>3. pc[t] \in Labels
  BY DEF TypeOK, ControlOK
<1> QED BY <1>1, <1>2, <1>3 DEF Labels

(* An attempt that is over without completing its table.                   *)
LEMMA EndsPaid ==
  ASSUME TypeOK, TypeOK', NEW t \in Tables, PaidTable(t), Lighter(t),
         pc'[t] \in {"done", "writeFailed", "except", "interrupted"},
         \/ Within(t, faults) /\ faults <= faults'
         \/ faults' = faults + 1
  PROVE  PaidTable(t)'
<1>1. faults \in Nat /\ faults' \in Nat
  BY DEF TypeOK, ControlOK
<1>2. Within(t, faults)'
  <2>1. CASE Within(t, faults) /\ faults <= faults'
    BY <1>1, <2>1, WithinStays DEF Within, Rows
  <2>2. CASE faults' = faults + 1
    <3>1. faults + 1 \in Nat /\ faults + 1 <= faults'
      BY <1>1, <2>2
    <3>2. \A r \in Rows(t) : Weight(t, r)' <= faults'
      BY <1>1, <3>1, AlwaysWithin, WithinStays
    <3> QED BY <3>2 DEF Within, Rows
  <2> QED BY <2>1, <2>2
<1>3. Within(t, faults + 1)'
  <2> SUFFICES ASSUME NEW r \in Rows(t) PROVE Weight(t, r)' <= faults' + 1
    BY DEF Within, Rows
  <2>1. Weight(t, r)' \in Nat /\ Weight(t, r)' <= faults'
    BY <1>2, WeightTypeNext DEF Within, Rows
  <2> QED BY <1>1, <2>1
<1> QED BY <1>2, <1>3 DEF PaidTable

(* An attempt that goes on.                                                *)
LEMMA GoesOnPaid ==
  ASSUME TypeOK, TypeOK', NEW t \in Tables, Spending(t), Lighter(t),
         pc'[t] \in {"loop", "commit", "saving", "complete"},
         UNCHANGED <<faults, cancel>>, latest'[t] = latest[t], broken'[t] = broken[t]
  PROVE  PaidTable(t)'
<1>1. faults \in Nat /\ Pressed \in {0, 1} /\ Pressed' = Pressed
  BY BudgetType DEF Pressed
<1>2. broken[t] => Within(t, faults)'
  <2>1. faults <= faults
    BY <1>1
  <2> QED BY <1>1, <2>1, WithinStays DEF Spending, Within, Rows
<1>3. ASSUME NEW r \in Rows(t)
      PROVE  /\ Weight(t, r)' + Pressed <= faults + 1
             /\ r > latest[t] => Weight(t, r)' + Pressed <= faults
  <2>1. /\ Weight(t, r) \in Nat /\ Weight(t, r)' \in Nat
        /\ Weight(t, r)' <= Weight(t, r)
    BY WeightType, WeightTypeNext DEF Lighter
  <2>2. /\ Weight(t, r) + Pressed <= faults + 1
        /\ r > latest[t] => Weight(t, r) + Pressed <= faults
    BY DEF Spending
  <2> QED BY <1>1, <2>1, <2>2, SMTT(30)
<1> QED BY <1>1, <1>2, <1>3 DEF PaidTable, Spending, Rows

LEMMA WorkPaid ==
  ASSUME TypeOK, TypeOK', AtRest, NEW t \in Tables, PaidTable(t), Work(t)
  PROVE  PaidTable(t)'
<1>1. /\ pc[t] # "done" /\ UNCHANGED cancel /\ faults \in Nat /\ faults' \in Nat
      /\ faults <= faults' /\ Pressed \in {0, 1}
  BY WorkersStep, FaultsStay, BudgetType
<1>2. CASE StartTable(t)
  <2>1. pc[t] = "waiting" /\ Within(t, faults) /\ UNCHANGED cursors
    BY <1>2 DEF StartTable, PaidTable
  <2>2. CASE Return(t, "raised")
    <3>1. Lighter(t) /\ pc'[t] = "done"
      BY <2>2, ReturnShrinks, ShrinkWeight
    <3> QED BY <1>1, <2>1, <3>1, EndsPaid
  <2>3. CASE ~cancel /\ Goto(t, "loop") /\ UNCHANGED <<target, bounds>>
    <3>1. pc'[t] = "loop" /\ Lighter(t) /\ UNCHANGED <<broken, faults, latest>>
      BY <2>1, <2>3, GotoOnly, ShrinkWeight DEF target, bounds, cursors, TypeOK
    <3>2. Spending(t)
      <4> SUFFICES ASSUME NEW r \in Rows(t) PROVE Weight(t, r) + Pressed <= faults
        BY <1>1, <2>1, WeightType DEF Spending
      <4>1. Weight(t, r) \in Nat /\ Weight(t, r) <= faults
        BY <2>1, WeightType DEF Within
      <4> QED BY <1>1, <2>3, <4>1 DEF Pressed
    <3> QED BY <1>1, <3>1, <3>2, GoesOnPaid
  <2> QED BY <1>2, <2>2, <2>3 DEF StartTable
<1>3. CASE WriteBatch(t)
  <2>1. /\ pc[t] = "loop" /\ pc'[t] \in {"commit", "loop"} /\ ~broken[t]
        /\ latest'[t] = BatchEnd(t, latest[t]) /\ latest[t] \in Nat
        /\ UNCHANGED <<copies, broken, faults, cancel>>
        /\ open' = [open EXCEPT ![t] = @ \cup Between(latest[t], latest'[t])]
    BY <1>3, GotoOnly, CursorsOf
       DEF WriteBatch, Reading, Batch, bounds, TypeOK, CursorsOK
  <2>2. Spending(t)
    BY <2>1 DEF PaidTable
  <2>3. /\ latest'[t] \in Nat /\ latest[t] <= latest'[t]
    BY <2>1, BatchEndBounds, CursorsOf DEF TypeOK
  <2>4. ASSUME NEW r \in Rows(t)
        PROVE  /\ Weight(t, r)' + Pressed <= faults + 1
               /\ r > latest'[t] => Weight(t, r)' + Pressed <= faults
    <3>1. /\ Weight(t, r)' <= Weight(t, r) + 1
          /\ r \notin Between(latest[t], latest'[t]) => Weight(t, r)' = Weight(t, r)
      BY <2>1, AddWeight
    <3>6. r \in Nat
      BY DEF Rows
    <3>2. /\ Weight(t, r) + Pressed <= faults + 1
          /\ r > latest[t] => Weight(t, r) + Pressed <= faults
      BY <2>2 DEF Spending
    <3>3. Weight(t, r) \in Nat /\ Weight(t, r)' \in Nat
      BY WeightType, WeightTypeNext
    <3>4. CASE r > latest[t] /\ r <= latest'[t]
      <4>1. Weight(t, r) + Pressed <= faults
        BY <3>2, <3>4
      <4>2. Weight(t, r)' + Pressed <= faults + 1
        BY <1>1, <3>1, <3>3, <4>1
      <4>3. ~(r > latest'[t])
        BY <2>3, <3>4, <3>6
      <4> QED BY <4>2, <4>3
    <3>5. CASE ~(r > latest[t] /\ r <= latest'[t])
      <4>1. Weight(t, r)' = Weight(t, r)
        BY <2>1, <2>3, <3>1, <3>5, <3>6 DEF Between
      <4>2. r > latest'[t] => r > latest[t]
        BY <2>1, <2>3, <3>6
      <4> QED BY <3>2, <4>1, <4>2
    <3> QED BY <3>4, <3>5
  <2>5. Pressed' = Pressed /\ ~broken'[t]
    BY <2>1 DEF Pressed
  <2> QED BY <2>1, <2>4, <2>5 DEF PaidTable, Spending, Rows
<1>4. CASE EndOfRows(t) \/ Commit(t)
  <2>1. /\ pc[t] \in {"loop", "commit"} /\ pc'[t] \in {"commit", "complete", "saving"}
        /\ UNCHANGED <<latest, broken, faults, cancel>>
    BY <1>4, GotoOnly DEF EndOfRows, Commit, bounds, target, TypeOK
  <2>2. Lighter(t)
    BY <1>4, ShrinkWeight, CommitLighter DEF EndOfRows, Commit, target
  <2>3. Spending(t)
    BY <2>1 DEF PaidTable
  <2> QED BY <2>1, <2>2, <2>3, GoesOnPaid
<1>5. CASE SaveBatch(t)
  <2>1. pc[t] = "saving" /\ UNCHANGED <<latest, faults>>
    BY <1>5 DEF SaveBatch, bounds
  <2>2. CASE cancel
    <3>1. EscapeAndClose(t, "interrupted")
      BY <1>5, <2>2 DEF SaveBatch
    <3>2. Lighter(t) /\ pc'[t] \in {"done", "interrupted"}
      BY <3>1, EscapeAndCloseShrinks, ShrinkWeight
    <3>3. Within(t, faults)
      BY <1>1, <2>2, SpentWithin
    <3> QED BY <1>1, <3>2, <3>3, EndsPaid
  <2>3. CASE ~cancel
    <3>1. UNCHANGED target /\ pc'[t] \in {"saving", "complete", "loop"}
      BY <1>5, <2>1, <2>3, GotoOnly DEF SaveBatch, TypeOK
    <3>2. Lighter(t) /\ UNCHANGED broken
      BY <3>1, ShrinkWeight DEF target
    <3>3. Spending(t)
      BY <2>1 DEF PaidTable
    <3> QED BY <1>1, <2>1, <3>1, <3>2, <3>3, GoesOnPaid
  <2> QED BY <2>2, <2>3
<1>6. CASE SaveFailure(t)
  <2>1. pc[t] = "writeFailed"
    BY <1>6 DEF SaveFailure
  <2>2. Lighter(t) /\ pc'[t] \in {"done", "interrupted", "except"}
    BY <1>6, ReturnShrinks, ShrinkWeight, GotoOnly DEF SaveFailure, target, TypeOK
  <2> QED BY <1>1, <2>1, <2>2, SpentWithin, EndsPaid
<1>7. CASE HandleError(t) \/ SaveCancelled(t)
  <2>1. pc[t] \in {"except", "interrupted"}
    BY <1>7 DEF HandleError, SaveCancelled
  <2>2. Lighter(t) /\ pc'[t] = "done"
    BY <1>7, PublishShrinks, ShrinkWeight DEF HandleError, SaveCancelled
  <2> QED BY <1>1, <2>1, <2>2, SpentWithin, EndsPaid
<1>8. CASE CompleteTable(t)
  <2>1. Lighter(t) /\ pc'[t] = "done"
    BY <1>8, PublishShrinks, ShrinkWeight DEF CompleteTable
  <2>2. ckpt'[t].status = "table_completed"
    BY <1>8 DEF CompleteTable, Record, Checkpoint, TypeOK, CheckpointOK
  <2>3. Within(t, faults + 1)'
    <3>0. faults' \in Nat /\ (faults' = faults \/ faults' = faults + 1)
      BY FaultsStay DEF Work
    <3>1. faults + 1 \in Nat /\ faults' + 1 \in Nat /\ faults + 1 <= faults' + 1
      <4>1. ASSUME NEW a \in Nat, NEW b, b \in Nat, b = a \/ b = a + 1
            PROVE  a + 1 \in Nat /\ b + 1 \in Nat /\ a + 1 <= b + 1
        BY <4>1
      <4>2. faults \in Nat
        BY BudgetType
      <4> HIDE DEF Within, Weight
      <4> QED BY <3>0, <4>1, <4>2
    <3>2. \A r \in Rows(t) : Weight(t, r)' <= faults' + 1
      BY <2>1, <3>1, AlwaysWithin, WithinStays
    <3> QED BY <3>2 DEF Within, Rows
  <2> QED BY <2>1, <2>2, <2>3 DEF PaidTable, Completed, Within
<1> QED BY <1>2, <1>3, <1>4, <1>5, <1>6, <1>7, <1>8 DEF Work

(* A write cut short has added one to rows behind the last batch only.     *)
LEMMA PartialPaid ==
  ASSUME TypeOK, TypeOK', NEW t \in Tables, PaidTable(t), pc[t] = "loop", UNCHANGED copies,
         NEW k \in Nat, open' = [open EXCEPT ![t] = @ \cup Between(latest[t], k)],
         latest[t] \in Nat, faults' = faults + 1,
         pc'[t] \in {"done", "writeFailed", "interrupted"}
  PROVE  PaidTable(t)'
<1>1. faults \in Nat /\ Pressed \in {0, 1}
  BY BudgetType
<1>2. ASSUME NEW r \in Rows(t) PROVE Weight(t, r)' <= faults'
  <2>1. /\ Weight(t, r) + Pressed <= faults + 1
        /\ r > latest[t] => Weight(t, r) + Pressed <= faults
    BY DEF PaidTable, Spending
  <2>2. /\ Weight(t, r)' <= Weight(t, r) + 1
        /\ r \notin Between(latest[t], k) => Weight(t, r)' = Weight(t, r)
    BY AddWeight
  <2>3. Weight(t, r) \in Nat /\ Weight(t, r)' \in Nat /\ r \in Nat
    BY WeightType, WeightTypeNext DEF Rows
  <2>4. CASE r > latest[t]
    <3>1. Weight(t, r) + Pressed <= faults
      BY <2>1, <2>4
    <3> QED BY <1>1, <2>2, <2>3, <3>1, SMTT(30)
  <2>5. CASE ~(r > latest[t])
    <3>1. r \notin Between(latest[t], k)
      BY <2>3, <2>5 DEF Between
    <3>2. Weight(t, r)' = Weight(t, r)
      BY <2>2, <3>1
    <3> QED BY <1>1, <2>1, <2>3, <3>2
  <2> QED BY <2>4, <2>5
<1>3. ASSUME NEW r \in Rows(t) PROVE Weight(t, r)' <= faults' + 1
  BY <1>1, <1>2, WeightTypeNext
<1> QED BY <1>2, <1>3 DEF PaidTable, Within, Rows

LEMMA TroublePaid ==
  ASSUME TypeOK, TypeOK', NEW t \in Tables, t \notin Keyed, PaidTable(t), Trouble(t)
  PROVE  PaidTable(t)'
<1>1. pc[t] # "done" /\ faults \in Nat /\ faults <= faults
  BY WorkersStep, BudgetType
<1>2. CASE WriteFails(t)
  <2>1. pc[t] = "loop" /\ pc'[t] = "writeFailed" /\ latest[t] \in Nat
    BY <1>2, GotoOnly, CursorsOf DEF WriteFails, Reading, TypeOK
  <2>2. CASE BreakingWrite(t)
    <3>1. Lighter(t)
      BY <2>2, CommitLighter DEF BreakingWrite
    <3>2. CASE Fault("write")
      BY <2>1, <3>1, <3>2, EndsPaid DEF Fault
    <3>3. CASE broken[t] /\ UNCHANGED bounds
      <4>1. Within(t, faults) /\ faults' = faults
        BY <1>1, <3>3, SpentWithin DEF bounds
      <4> QED BY <1>1, <2>1, <3>1, <4>1, EndsPaid
    <3> QED BY <1>2, <3>2, <3>3 DEF WriteFails, Fresh
  <2>3. CASE PartialWrite(t)
    <3>1. Fault("write")
      BY <1>2, <2>3 DEF WriteFails, PartialWrite, Fresh
    <3>2. PICK k \in Nat : open' = [open EXCEPT ![t] = @ \cup Between(latest[t], k)]
      <4>1. \A k \in latest[t] .. BatchEnd(t, latest[t]) - 1 : k \in Nat
        BY <2>1
      <4> QED BY <2>3, <4>1 DEF PartialWrite
    <3> QED BY <2>1, <2>3, <3>1, <3>2, PartialPaid DEF PartialWrite, Fault
  <2> QED BY <1>2, <2>2, <2>3 DEF WriteFails
<1>3. CASE ReadFails(t) \/ SaveFailureFails(t)
  <2>1. Lighter(t) /\ pc'[t] = "except" /\ faults' = faults + 1
    BY <1>3, ShrinkWeight, GotoOnly DEF ReadFails, SaveFailureFails, Fault, target, TypeOK
  <2> QED BY <2>1, EndsPaid
<1>4. CASE CommitFails(t)
  <2>1. Lighter(t) /\ pc'[t] \in {"done", "except"}
    BY <1>4, CommitLighter, EscapeOnly DEF CommitFails
  <2>2. CASE Fault("commit")
    BY <2>1, <2>2, EndsPaid DEF Fault
  <2>3. CASE broken[t] /\ UNCHANGED bounds
    <3>1. Within(t, faults) /\ faults' = faults
      BY <1>1, <2>3, SpentWithin DEF bounds
    <3> QED BY <1>1, <2>1, <3>1, EndsPaid
  <2> QED BY <1>4, <2>2, <2>3 DEF CommitFails
<1>5. CASE PublishFails(t) \/ SaveBatchFails(t)
  <2>1. Lighter(t) /\ pc'[t] \in {"done", "except", "interrupted"}
    BY <1>5, EscapeAndCloseShrinks, ShrinkWeight DEF PublishFails, SaveBatchFails
  <2> QED BY <1>5, <2>1, EndsPaid DEF PublishFails, SaveBatchFails, Fault
<1>6. CASE HandlerFails(t) \/ CompleteTableFails(t)
  <2>1. Lighter(t) /\ pc'[t] = "done"
    BY <1>6, ReturnShrinks, ShrinkWeight DEF HandlerFails, CompleteTableFails
  <2> QED BY <1>6, <2>1, EndsPaid DEF HandlerFails, CompleteTableFails, Fault
<1>7. CASE Interrupt(t)
  <2>1. pc'[t] \in {"done", "interrupted"} /\ faults' = faults + 1
    BY <1>7, LeaveOnly, EscapeOnly DEF Interrupt, Fault, TypeOK
  <2>2. CASE UNCHANGED target \/ CommitOpen(t) \/ LoseOpen(t)
    <3>1. Lighter(t)
      BY <2>2, ShrinkWeight, CommitLighter DEF target
    <3> QED BY <2>1, <3>1, EndsPaid
  <2>3. CASE pc[t] = "loop" /\ InterruptedWrite(t) /\ ~LoseOpen(t)
    <3>1. latest[t] \in Nat /\ BatchEnd(t, latest[t]) \in Nat
      BY CursorsOf, BatchEndBounds DEF TypeOK
    <3>2. \A k \in latest[t] .. BatchEnd(t, latest[t]) - 1 : k \in Nat
      BY <3>1
    <3>3. UNCHANGED copies
      BY <2>3 DEF InterruptedWrite, PartialWrite, BreakingWrite
    <3>4. PICK k \in Nat : open' = [open EXCEPT ![t] = @ \cup Between(latest[t], k)]
      BY <2>3, <3>1, <3>2 DEF InterruptedWrite, PartialWrite, BreakingWrite, Batch
    <3> QED BY <2>1, <2>3, <3>1, <3>3, <3>4, PartialPaid
  <2> QED BY <1>7, <2>2, <2>3 DEF Interrupt, InterruptedCommit, InterruptedWrite, BreakingWrite, Reading
<1> QED BY <1>2, <1>3, <1>4, <1>5, <1>6, <1>7 DEF Trouble

(* A step of worker t leaves the account of the other tables balanced.     *)
LEMMA OthersPaid ==
  ASSUME TypeOK, TypeOK', TakeTurns, NEW t \in Tables, Work(t) \/ Trouble(t),
         NEW u \in Tables, u # t, Paid(u)
  PROVE  Paid(u)'
<1>1. /\ pc'[u] = pc[u] /\ ckpt'[u] = ckpt[u] /\ latest'[u] = latest[u]
      /\ UNCHANGED cancel /\ open'[u] \subseteq open[u] /\ pc[t] # "done"
  BY WorkersStep DEF OnlyWorker, OpenShrinks
<1>2. Lighter(u)
  BY <1>1, WorkerCommits, CommitLighter, ShrinkWeight
<1>3. faults \in Nat /\ faults' \in Nat /\ (faults' = faults \/ faults' = faults + 1)
  BY FaultsStay, BudgetType
<1>4. CASE u \in Keyed
  <2>1. \A r \in Rows(u) : Weight(u, r)' <= 1
    BY <1>2, <1>4, WithinStays DEF Paid, KeyedOnce
  <2> QED BY <1>4, <2>1 DEF Paid, KeyedOnce, Within, Rows
<1>5. CASE u \notin Keyed
  <2>1. PaidTable(u)
    BY <1>5 DEF Paid
  <2>2. \A n \in {faults, faults + 1} : Within(u, n) =>
          \A r \in Rows(u) : Weight(u, r)' <= n + (faults' - faults)
    <3> SUFFICES ASSUME NEW n \in {faults, faults + 1}, Within(u, n)
                 PROVE  \A r \in Rows(u) : Weight(u, r)' <= n + (faults' - faults)
      OBVIOUS
    <3>1. n \in Nat
      BY <1>3
    <3>2. CASE faults' = faults
      <4>1. faults' - faults = 0 /\ n + 0 = n /\ n <= n
        BY <1>3, <3>1, <3>2
      <4> QED BY <1>2, <3>1, <4>1, WithinStays
    <3>3. CASE faults' = faults + 1
      <4>1. faults' - faults = 1 /\ n + 1 \in Nat /\ n <= n + 1
        BY <1>3, <3>1, <3>3
      <4> QED BY <1>2, <3>1, <4>1, WithinStays
    <3> QED BY <1>3, <3>2, <3>3
  <2>3. CASE pc[u] = "done"
    <3>1. Within(u, IF Completed(u) THEN faults + 1 ELSE faults)'
      BY <1>1, <1>3, <2>1, <2>2, <2>3 DEF PaidTable, Completed, Within, Rows
    <3> QED BY <1>1, <1>5, <2>3, <3>1 DEF Paid, PaidTable
  <2>4. CASE pc[u] \in {"waiting", "writeFailed", "except", "interrupted"}
    <3>1. Within(u, faults)'
      BY <1>1, <1>3, <2>1, <2>2, <2>4 DEF PaidTable, Within, Rows
    <3> QED BY <1>1, <1>5, <2>4, <3>1 DEF Paid, PaidTable
  <2>5. CASE pc[u] \in {"loop", "commit", "saving", "complete"}
    <3>1. Spending(u)
      BY <2>1, <2>5 DEF PaidTable
    <3>2. broken'[u] = broken[u]
      <4>1. CASE Break(t) /\ Active(t)
        <5>1. u \notin Peers(t)
          BY <2>5, <4>1, PeersIdle DEF Active
        <5> QED BY <4>1, <5>1 DEF Break, TypeOK, TargetOK
      <4> QED BY <4>1, WorkerCommits
    <3>3. broken[u] => Within(u, faults)'
      BY <1>3, <2>2, <3>1 DEF Spending, Within, Rows
    <3>4. ASSUME NEW r \in Rows(u)
          PROVE  /\ Weight(u, r)' + Pressed <= faults' + 1
                 /\ r > latest[u] => Weight(u, r)' + Pressed <= faults'
      <4>1. /\ Weight(u, r) \in Nat /\ Weight(u, r)' \in Nat
            /\ Weight(u, r)' <= Weight(u, r) /\ Pressed \in {0, 1}
        BY <1>2, WeightType, WeightTypeNext, BudgetType DEF Lighter
      <4>2. /\ Weight(u, r) + Pressed <= faults + 1
            /\ r > latest[u] => Weight(u, r) + Pressed <= faults
        BY <3>1 DEF Spending
      <4> QED BY <1>3, <4>1, <4>2
    <3>5. Pressed' = Pressed
      BY <1>1 DEF Pressed
    <3> QED BY <1>1, <1>5, <2>5, <3>2, <3>3, <3>4, <3>5 DEF Paid, PaidTable, Spending, Rows
  <2>6. pc[u] \in Labels
    BY DEF TypeOK, ControlOK
  <2> QED BY <2>3, <2>4, <2>5, <2>6 DEF Labels
<1> QED BY <1>4, <1>5

(* A key rejects a batch of which a row is in the table.                   *)
LEMMA KeyPaid ==
  ASSUME TypeOK, TypeOK', NEW t \in Tables, t \in Keyed, KeyedOnce(t), Work(t) \/ Trouble(t)
  PROVE  KeyedOnce(t)'
<1>1. CASE Lighter(t)
  <2>1. \A r \in Rows(t) : Weight(t, r)' <= 1
    BY <1>1, WithinStays DEF KeyedOnce
  <2> QED BY <2>1 DEF KeyedOnce, Within, Rows
<1>2. CASE /\ UNCHANGED copies
           /\ \E rows : /\ open' = [open EXCEPT ![t] = @ \cup rows]
                        /\ Fresh(t, rows)
  <2>1. PICK rows : open' = [open EXCEPT ![t] = @ \cup rows] /\ Fresh(t, rows)
    BY <1>2
  <2>2. ASSUME NEW r \in Rows(t) PROVE Weight(t, r)' <= 1
    <3>1. CASE r \in rows
      <4>1. copies'[t][r] = 0
        BY <1>2, <2>1, <3>1 DEF Fresh
      <4> QED BY <4>1 DEF Weight
    <3>2. CASE r \notin rows
      <4>1. Weight(t, r)' = Weight(t, r)
        BY <1>2, <2>1, <3>2, AddWeight
      <4> QED BY <4>1 DEF KeyedOnce, Within
    <3> QED BY <3>1, <3>2
  <2> QED BY <2>2 DEF KeyedOnce, Within, Rows
<1>3. CASE WriteBatch(t)
  BY <1>2, <1>3 DEF WriteBatch
<1>4. CASE WriteFails(t)
  <2>1. CASE PartialWrite(t)
    BY <1>2, <2>1 DEF PartialWrite
  <2>2. CASE BreakingWrite(t)
    BY <1>1, <2>2, CommitLighter DEF BreakingWrite
  <2> QED BY <1>4, <2>1, <2>2 DEF WriteFails
<1>5. CASE Interrupt(t)
  <2>1. CASE UNCHANGED target \/ CommitOpen(t) \/ LoseOpen(t)
    BY <1>1, <2>1, CommitLighter, ShrinkWeight DEF target
  <2>2. CASE PartialWrite(t)
    BY <1>2, <2>2 DEF PartialWrite
  <2>3. CASE Fresh(t, Batch(t)) /\ open' = [open EXCEPT ![t] = @ \cup Batch(t)] /\ UNCHANGED copies
    BY <1>2, <2>3
  <2> QED BY <1>5, <2>1, <2>2, <2>3 DEF Interrupt, InterruptedWrite, InterruptedCommit, BreakingWrite
<1>6. CASE CommitFails(t) \/ Commit(t)
  BY <1>1, <1>6, CommitLighter DEF CommitFails, Commit
<1>7. CASE SaveBatch(t) \/ PublishFails(t) \/ SaveBatchFails(t)
  BY <1>1, <1>7, EscapeAndCloseShrinks, ShrinkWeight
     DEF SaveBatch, PublishFails, SaveBatchFails, target
<1>8. CASE HandleError(t) \/ SaveCancelled(t) \/ CompleteTable(t)
  BY <1>1, <1>8, PublishShrinks, ShrinkWeight DEF HandleError, SaveCancelled, CompleteTable
<1>9. CASE StartTable(t) \/ SaveFailure(t) \/ HandlerFails(t) \/ CompleteTableFails(t)
  BY <1>1, <1>9, ReturnShrinks, ShrinkWeight
     DEF StartTable, SaveFailure, HandlerFails, CompleteTableFails, target
<1>10. CASE EndOfRows(t) \/ ReadFails(t) \/ SaveFailureFails(t)
  BY <1>1, <1>10, ShrinkWeight DEF EndOfRows, ReadFails, SaveFailureFails, target
<1> QED BY <1>3, <1>4, <1>5, <1>6, <1>7, <1>8, <1>9, <1>10 DEF Work, Trouble

(* Workers that share a connection go on taking turns.                     *)
LEMMA TakeTurnsInductive ==
  ASSUME TypeOK, TakeTurns, [Next]_vars
  PROVE  TakeTurns'
<1>1. ASSUME NEW t \in Tables, Work(t) \/ Trouble(t) PROVE TakeTurns'
  <2>1. OnlyWorker(t) /\ pc[t] # "done"
    BY <1>1, WorkersStep
  <2>2. CASE Active(t)
    BY <2>1, <2>2, TurnStays
  <2>3. CASE ~Active(t)
    <3>1. StartTable(t)
      BY <1>1, <2>1, <2>3
         DEF Work, Trouble, WriteBatch, EndOfRows, Commit, SaveBatch, SaveFailure,
             HandleError, SaveCancelled, CompleteTable, WriteFails, ReadFails, CommitFails,
             PublishFails, SaveBatchFails, SaveFailureFails, HandlerFails,
             CompleteTableFails, Interrupt, Reading, Active
    <3>2. Shared => \A u \in Tables : ~Active(u)
      BY <3>1, StartsAlone
    <3> QED BY <2>1, <3>2 DEF TakeTurns, OnlyWorker, Active, Shared
  <2> QED BY <2>2, <2>3
<1>2. CASE EndRun \/ Crash \/ \E m \in AllModes : StartRun(m)
  BY <1>2 DEF EndRun, Crash, Idle, StartRun, TakeTurns, Active
<1>3. CASE RequestCancel \/ UNCHANGED vars
  BY <1>3 DEF RequestCancel, vars, TakeTurns, Active, Shared
<1> QED BY <1>1, <1>2, <1>3 DEF Next

LEMMA PaidInductive ==
  ASSUME Trusting, TypeOK, TypeOK', PaidInv, [Next]_vars
  PROVE  PaidInv'
<1> USE DEF PaidInv
<1>1. AtRest' /\ TakeTurns'
  BY AtRestInductive, TakeTurnsInductive
<1>2. faults \in Nat /\ faults <= faults
  BY BudgetType
<1>3. ASSUME NEW u \in Tables, Lighter(u), u \in Keyed PROVE Paid(u)'
  <2>1. \A r \in Rows(u) : Weight(u, r)' <= 1
    BY <1>3, WithinStays DEF Paid, KeyedOnce
  <2> QED BY <1>3, <2>1 DEF Paid, KeyedOnce, Within, Rows
<1>4. ASSUME NEW m \in AllModes, StartRun(m), NEW u \in Tables PROVE Paid(u)'
  <2>1. /\ pc[u] = "done" /\ open[u] = {} /\ UNCHANGED <<copies, open, ckpt, faults>>
        /\ pc'[u] = IF Runs(u, m) THEN "waiting" ELSE "done"
    BY <1>4 DEF StartRun, AtRest, target
  <2>2. Lighter(u)
    BY <2>1, ShrinkWeight
  <2>3. CASE u \notin Keyed /\ ~Runs(u, m)
    <3>1. Within(u, IF Completed(u) THEN faults + 1 ELSE faults)
      BY <2>1, <2>3 DEF Paid, PaidTable
    <3>2. (IF Completed(u) THEN faults + 1 ELSE faults)' = IF Completed(u) THEN faults + 1 ELSE faults
      BY <2>1 DEF Completed
    <3>3. Within(u, IF Completed(u) THEN faults + 1 ELSE faults)'
      BY <1>2, <2>2, <3>1, <3>2, WithinStays, SMTT(30) DEF Within, Rows
    <3> QED BY <2>1, <2>3, <3>3 DEF Paid, PaidTable
  <2>4. CASE u \notin Keyed /\ Runs(u, m)
    <3>1. Within(u, faults)
      <4>1. CASE ~Completed(u)
        BY <2>1, <2>4, <4>1 DEF Paid, PaidTable
      <4>2. CASE Completed(u)
        <5>1. m = "migrate" /\ m \in Modes
          BY <1>4, <2>4, <4>2 DEF Runs, Selected, Completed, AllModes, StartRun
        <5>2. TargetRowCount(u) = 0
          BY <2>4, <4>2, <5>1 DEF Runs, Preflight, Trusting
        <5>3. \A r \in Rows(u) : copies[u][r] = 0
          BY <5>2, EmptyTarget DEF TypeOK
        <5> QED BY <1>2, <2>1, <5>3 DEF Within, Weight
      <4> QED BY <4>1, <4>2
    <3>2. Within(u, faults)'
      BY <1>2, <2>1, <2>2, <3>1, WithinStays DEF Within, Rows
    <3> QED BY <2>1, <2>4, <3>2 DEF Paid, PaidTable
  <2> QED BY <1>3, <2>2, <2>3, <2>4
<1>5. ASSUME NEW t \in Tables, Work(t) \/ Trouble(t), NEW u \in Tables PROVE Paid(u)'
  <2>1. CASE u # t
    BY <1>5, <2>1, OthersPaid
  <2>2. CASE u = t
    BY <1>5, <2>2, KeyPaid, WorkPaid, TroublePaid DEF Paid
  <2> QED BY <2>1, <2>2
<1>6. ASSUME EndRun \/ Crash, NEW u \in Tables PROVE Paid(u)'
  <2>1. open'[u] = {} /\ pc'[u] = "done" /\ UNCHANGED <<copies, ckpt>>
    BY <1>6 DEF EndRun, Crash, Idle
  <2>2. Lighter(u)
    BY <2>1, ShrinkWeight
  <2>3. CASE u \notin Keyed /\ Crash
    BY <2>1, <2>2, <2>3, EndsPaid DEF Crash, Fault, Paid
  <2>4. CASE u \notin Keyed /\ EndRun /\ pc[u] = "waiting"
    <3>1. Within(u, faults) /\ faults <= faults'
      BY <1>2, <2>4 DEF Paid, PaidTable, EndRun
    <3> QED BY <2>1, <2>2, <2>4, <3>1, EndsPaid DEF Paid
  <2>5. CASE u \notin Keyed /\ EndRun /\ pc[u] = "done"
    <3>1. Within(u, IF Completed(u) THEN faults + 1 ELSE faults)
      BY <2>5 DEF Paid, PaidTable
    <3>2. (IF Completed(u) THEN faults + 1 ELSE faults)' = IF Completed(u) THEN faults + 1 ELSE faults
      BY <2>1, <2>5 DEF Completed, EndRun
    <3>3. Within(u, IF Completed(u) THEN faults + 1 ELSE faults)'
      BY <1>2, <2>2, <3>1, <3>2, WithinStays, SMTT(30) DEF Within, Rows
    <3> QED BY <2>1, <2>5, <3>3 DEF Paid, PaidTable
  <2> QED BY <1>3, <1>6, <2>2, <2>3, <2>4, <2>5 DEF EndRun, Active
<1>7. ASSUME RequestCancel, NEW u \in Tables PROVE Paid(u)'
  <2>1. /\ UNCHANGED <<copies, open, broken, pc, ckpt, latest>> /\ faults' = faults + 1
        /\ ~cancel /\ cancel'
    BY <1>7 DEF RequestCancel, Fault, target, cursors
  <2>2. \A r \in Rows(u) : Weight(u, r)' = Weight(u, r) /\ Weight(u, r) \in Nat
    BY <2>1, WeightType DEF Weight
  <2>3. Pressed = 0 /\ Pressed' = 1
    BY <2>1 DEF Pressed
  <2>4. CASE u \in Keyed
    BY <1>3, <2>2, <2>4 DEF Lighter
  <2>5. CASE u \notin Keyed
    <3>1. PaidTable(u)
      BY <2>5 DEF Paid
    <3>2. PaidTable(u)'
      BY <1>2, <2>1, <2>2, <2>3, <3>1, SMTT(30) DEF PaidTable, Spending, Within, Completed, Rows
    <3> QED BY <2>5, <3>2 DEF Paid
  <2> QED BY <2>4, <2>5
<1>8. ASSUME UNCHANGED vars, NEW u \in Tables PROVE Paid(u)'
  BY <1>8 DEF vars, target, cursors, bounds, Paid, KeyedOnce, PaidTable, Spending, Within,
     Weight, Pressed, Completed, Rows
<1> QED BY <1>1, <1>4, <1>5, <1>6, <1>7, <1>8 DEF Next

(* A row is copied again only after a fault, and each fault, of whatever   *)
(* kind and wherever it strikes, accounts for at most one more copy of a   *)
(* row: for every commit_interval, and with Ctrl+C.                        *)
THEOREM CopiesArePaidFor ==
  ASSUME Trusting
  PROVE  Spec => []DuplicatesArePaidFor
<1>1. Init => PaidInv
  <2> SUFFICES ASSUME Init PROVE PaidInv
    OBVIOUS
  <2>1. AtRest /\ TakeTurns
    BY DEF Init, AtRest, TakeTurns, Active
  <2>2. ASSUME NEW t \in Tables PROVE Paid(t)
    BY DEF Init, Paid, KeyedOnce, PaidTable, Within, Weight
  <2> QED BY <2>1, <2>2 DEF PaidInv
<1>2. TypeOK /\ TypeOK' /\ PaidInv /\ [Next]_vars => PaidInv'
  BY PaidInductive
<1>3. TypeOK /\ PaidInv => DuplicatesArePaidFor
  <2> SUFFICES ASSUME TypeOK, PaidInv, NEW t \in Tables, NEW r \in Rows(t)
               PROVE  copies[t][r] <= 1 + faults
    BY DEF DuplicatesArePaidFor
  <2>1. /\ Weight(t, r) \in Nat /\ copies[t][r] \in Nat /\ copies[t][r] <= Weight(t, r)
        /\ faults \in Nat
    BY WeightType, BudgetType
  <2>2. CASE t \in Keyed
    BY <2>1, <2>2 DEF PaidInv, Paid, KeyedOnce, Within
  <2>3. CASE t \notin Keyed
    BY <2>1, <2>3, AlwaysWithin DEF PaidInv, Paid, Within
  <2> QED BY <2>2, <2>3
<1> QED BY <1>1, <1>2, <1>3, TypeCorrect, PTL DEF Spec

-----------------------------------------------------------------------------
(* A checkpoint never counts more rows than the table has.                 *)
RowsBound == \A t \in Tables : ckpt[t].rows <= RowCount[t]

LEMMA RecordBounded ==
  ASSUME TypeOK, RowsBound, NEW t \in Tables, NEW status, NEW cursor, NEW rows,
         rows <= RowCount[t], Record(t, status, cursor, rows)
  PROVE  RowsBound'
  BY DEF RowsBound, Record, Checkpoint, TypeOK, CheckpointOK

LEMMA RowsBoundInductive ==
  ASSUME TypeOK, RowsBound, SavedFollowsFrom, [Next]_vars
  PROVE  RowsBound'
<1>1. ASSUME UNCHANGED ckpt PROVE RowsBound'
  BY <1>1 DEF RowsBound
<1>2. ASSUME NEW t \in Tables, Work(t) \/ Trouble(t) PROVE RowsBound'
  <2>1. /\ RowCount[t] \in Nat /\ saved[t] \in Nat /\ SavedNext(t) \in Nat
        /\ SavedNext(t) <= RowCount[t]
    BY CursorsOf, BatchEndBounds DEF SavedNext, TypeOK, CursorsOK
  <2>2. /\ from[t] \in Nat /\ latest[t] \in Nat /\ latest[t] <= RowCount[t]
    BY CursorsOf DEF TypeOK
  <2>3. SavedNext(t) - saved[t] <= RowCount[t] /\ latest[t] - from[t] <= RowCount[t]
        /\ 0 <= RowCount[t]
    BY <2>1, <2>2, SMTT(30)
  <2>4. CASE SaveBatch(t) \/ PublishFails(t) \/ SaveBatchFails(t)
    <3>1. CASE UNCHANGED ckpt
      BY <1>1, <3>1
    <3>2. CASE \E status : RecordSaved(t, status)
      BY <2>3, <3>2, RecordBounded DEF RecordSaved
    <3> QED BY <2>4, <3>1, <3>2 DEF SaveBatch, PublishFails, SaveBatchFails
  <2>5. CASE SaveFailure(t) \/ HandleError(t) \/ SaveCancelled(t)
    <3>1. CASE UNCHANGED ckpt
      BY <1>1, <3>1
    <3>2. CASE \E status, cursor : Record(t, status, cursor, 0)
      BY <2>3, <3>2, RecordBounded
    <3> QED BY <2>5, <3>1, <3>2 DEF SaveFailure, HandleError, SaveCancelled
  <2>6. CASE CompleteTable(t)
    BY <2>3, <2>6, RecordBounded DEF CompleteTable
  <2>7. CASE StartTable(t) \/ WriteBatch(t) \/ EndOfRows(t) \/ Commit(t)
    BY <1>1, <2>7 DEF StartTable, WriteBatch, EndOfRows, Commit
  <2>8. CASE \/ WriteFails(t) \/ ReadFails(t) \/ CommitFails(t) \/ SaveFailureFails(t)
             \/ HandlerFails(t) \/ CompleteTableFails(t) \/ Interrupt(t)
    BY <1>1, <2>8 DEF WriteFails, ReadFails, CommitFails, SaveFailureFails, HandlerFails,
                      CompleteTableFails, Interrupt
  <2> QED BY <1>2, <2>4, <2>5, <2>6, <2>7, <2>8 DEF Work, Trouble
<1>3. CASE \/ EndRun \/ Crash \/ RequestCancel \/ UNCHANGED vars
           \/ \E m \in AllModes : StartRun(m)
  BY <1>1, <1>3 DEF EndRun, Crash, Idle, RequestCancel, StartRun, vars
<1> QED BY <1>2, <1>3 DEF Next

(* A target that has every source row has at least as many rows.           *)
LEMMA CopiedCount ==
  ASSUME TypeOK, NEW t \in Tables, InTarget(t, Rows(t))
  PROVE  TargetRowCount(t) \in Nat /\ RowCount[t] <= TargetRowCount(t)
<1> DEFINE f == [r \in Rows(t) |-> <<r, 1>>]
<1>1. RowCount[t] \in Nat
  OBVIOUS
<1>2. IsFiniteSet(TargetRows(t)) /\ \A r \in Rows(t) : <<r, 1>> \in TargetRows(t)
  BY TargetRowsFinite DEF TypeOK, InTarget
<1>3. f \in Injection(Rows(t), TargetRows(t))
  <2>1. f \in [Rows(t) -> TargetRows(t)]
    BY <1>2
  <2>2. \A r, s \in Rows(t) : f[r] = f[s] => r = s
    OBVIOUS
  <2> QED BY <2>1, <2>2 DEF Injection, IsInjective
<1>4. Cardinality(Rows(t)) = RowCount[t]
  <2>1. 1 \in Int /\ RowCount[t] \in Int
    BY <1>1
  <2>2. Cardinality(1 .. RowCount[t]) =
          IF 1 > RowCount[t] THEN 0 ELSE RowCount[t] - 1 + 1
    BY <2>1, FS_Interval
  <2> QED BY <1>1, <2>2 DEF Rows
<1> HIDE DEF f
<1>5. Cardinality(Rows(t)) <= Cardinality(TargetRows(t))
  BY <1>2, <1>3, FS_Injection
<1>6. Cardinality(TargetRows(t)) \in Nat
  BY <1>2, FS_CardinalityType
<1> QED BY <1>4, <1>5, <1>6 DEF TargetRowCount

(* Between runs, migrate-data skips every table of the job that has been   *)
(* copied completely, and never reports it as changed: committed_rows      *)
(* counts the last run only and never exceeds what the target holds        *)
(* (_preflight_table_result).                                              *)
THEOREM RerunSkipsCompleted ==
  ASSUME Durable, CheckpointResume
  PROVE  Spec => []CompletedRerunIsSkipped
<1>1. Init => RowsBound /\ SavedFollowsFrom
  BY DEF Init, RowsBound, SavedFollowsFrom, NoCheckpoint, Checkpoint
<1>2. TypeOK /\ SavedFollowsFrom /\ [Next]_vars => SavedFollowsFrom'
  BY SavedFollowsFromInductive
<1>3. TypeOK /\ RowsBound /\ SavedFollowsFrom /\ [Next]_vars => RowsBound'
  BY RowsBoundInductive
<1>4. TypeOK /\ RowsBound /\ CompletedMeansCopied => CompletedRerunIsSkipped
  <2> SUFFICES ASSUME TypeOK, RowsBound, CompletedMeansCopied, NEW t \in Tables,
                      Completed(t), RowCount[t] > 0, t \notin Unresolved
               PROVE  Preflight(t, "migrate") = "skipped"
    BY DEF CompletedRerunIsSkipped
  <2>1. TargetRowCount(t) \in Nat /\ RowCount[t] <= TargetRowCount(t)
    BY CopiedCount DEF CompletedMeansCopied
  <2>2. ckpt[t].rows \in Nat /\ ckpt[t].rows <= RowCount[t] /\ RowCount[t] \in Nat
    BY DEF RowsBound, TypeOK, CheckpointOK
  <2>3. ~(TargetRowCount(t) < ckpt[t].rows) /\ TargetRowCount(t) # 0
    BY <2>1, <2>2
  <2> QED BY <2>3 DEF Preflight
<1> QED BY <1>1, <1>2, <1>3, <1>4, TypeCorrect, CompletedIsCopied, PTL DEF Spec
=============================================================================
