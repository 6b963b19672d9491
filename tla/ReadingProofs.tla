---------------------------- MODULE ReadingProofs ----------------------------
(***************************************************************************)
(* What is proved of the components that read both servers to decide what  *)
(* to do or to say.                                                        *)
(*  - Module Incremental, for any number of tables, rows, windows, runs    *)
(*    and faults: what a completed window means for the target             *)
(*    (CompletedWindowsHold), and whose rows the end of a run can lose     *)
(*    (LostRowsAreReported).                                               *)
(*  - Module Validation, for any contents, sample size and choice of       *)
(*    parts: what a matched table is (MatchedIsMatched), that a faithful   *)
(*    copy is never called different (FaithfulCopiesMatch), and that a     *)
(*    statement fails only after every attempt lost its connection         *)
(*    (RetriesSuffice).                                                    *)
(*  - Module SchemaScan, for any catalog: the snapshot of a scan that      *)
(*    nobody disturbs is what the catalog holds (QuietScansTellTheTruth).  *)
(*  - Module KeysetReader, for any table, key, order and batch size: a     *)
(*    read that was interrupted and resumed copies every row exactly once  *)
(*    (ResumedReadsAreWhole).                                              *)
(***************************************************************************)
EXTENDS Incremental, Validation, SchemaScan, KeysetReader, TableOrderProofs

-----------------------------------------------------------------------------
(* Incremental: the type invariant.                                        *)

RowStamps == [IncTables -> [IncRows -> Nat]]

RunOK ==
  /\ run \in [active : BOOLEAN, todo : Seq(IncTables), reading : BOOLEAN,
              rows : Seq(IncRows \X Nat), uncommitted : Nat, until : Nat]
  /\ ~run.active => run = NoRun
  /\ ~run.reading => run.rows = << >> /\ run.uncommitted = 0
  /\ run.uncommitted < IncCommitInterval
  /\ run.until <= clock
  /\ \A i \in 1 .. Len(run.rows) : run.rows[i][2] <= clock

IncTypeInv ==
  /\ clock \in 1 .. MaxStamp
  /\ stamps \in RowStamps /\ copied \in RowStamps /\ opened \in RowStamps
  /\ \A t \in IncTables, r \in IncRows :
       1 <= stamps[t][r] /\ stamps[t][r] <= clock /\ copied[t][r] <= clock /\ opened[t][r] <= clock
  /\ connection \in {"fine", "aborted", "lost"}
  /\ windows \in [IncTables -> [from : Nat, to : Nat]]
  /\ RunOK
  /\ results \in [IncTables -> {"none", "skipped", "completed", "failed"}]
  /\ covered \in [IncTables -> SUBSET (0 .. clock)]

(* A table is done once in a run, and what the transaction holds belongs   *)
(* to the table that is being done, or to one that has failed.             *)
OnceEach ==
  /\ \A i \in 1 .. Len(run.todo) : results[run.todo[i]] = "none"
  /\ \A i, j \in 1 .. Len(run.todo) : run.todo[i] = run.todo[j] => i = j

OpenInv ==
  /\ OnceEach
  /\ ~run.active => opened = NoneOpen
  /\ \A t \in IncTables :
       opened[t] # NoneOpen[t] =>
         results[t] = "failed" \/ (Reading(t) /\ run.uncommitted > 0)

(* What is read but not yet committed is no older than what a window       *)
(* reported as completed, or the query that goes on, has seen.             *)
Current(t, r) == stamps[t][r] \in covered[t] \/ (Reading(t) /\ stamps[t][r] <= run.until)

FreshInv ==
  \A t \in IncTables, r \in IncRows :
    Current(t, r) =>
      /\ opened[t][r] # 0 => opened[t][r] = stamps[t][r]
      /\ Reading(t) => \A i \in 1 .. Len(run.rows) : run.rows[i][1] = r => run.rows[i][2] = stamps[t][r]

Alone1(t) == \A u \in IncTables \ {t} : TableName[u] # TableName[t]

(* A row of the window that is being read is still to be upserted, or it   *)
(* has been.                                                               *)
Underway(t, r) ==
  \/ copied[t][r] = stamps[t][r] \/ opened[t][r] = stamps[t][r]
  \/ \E i \in 1 .. Len(run.rows) : run.rows[i][1] = r

ReadInv ==
  \A t \in IncTables, r \in IncRows :
    Reading(t) /\ Alone1(t) /\ stamps[t][r] \in Stamps(windows[t], run.until) => Underway(t, r)
-----------------------------------------------------------------------------
(* The rows that a window reads, in the order they are read.               *)

LEMMA RowsWithinEnumerates ==
  ASSUME IncrementalAssumption, IncTypeInv, NEW t \in IncTables, NEW window
  PROVE  LET found == {r \in IncRows : Within(stamps[t][r], window)}
         IN  /\ RowsWithin(t, window) \in Seq(found)
             /\ \A r \in found : \E i \in 1 .. Len(RowsWithin(t, window)) : RowsWithin(t, window)[i] = r
<1> DEFINE found == {r \in IncRows : Within(stamps[t][r], window)}
           R == {p \in found \X found : Earlier(t, p[1], p[2])}
<1>1. IsFiniteSet(found)
  BY FS_Subset DEF IncrementalAssumption
<1>2. \A r \in IncRows : r \in Nat /\ stamps[t][r] \in Nat
  BY DEF IncrementalAssumption, IncTypeInv, RowStamps
<1> DEFINE After(a) == {b \in found : Earlier(t, b, a)}
<1>3. \A a, b \in found : <<a, b>> \in R <=> Earlier(t, a, b)
  OBVIOUS
<1>4. \A a \in found : {b \in found : <<b, a>> \in R} = After(a)
  OBVIOUS
<1>5. \A a \in found : a \in Nat /\ stamps[t][a] \in Nat
  BY <1>2
<1> HIDE DEF R, found
<1>6. StrictOrder(found, R)
  <2>1. \A a \in found : ~Earlier(t, a, a)
    BY <1>5 DEF Earlier
  <2>2. \A a, b \in found : a # b => Earlier(t, a, b) \/ Earlier(t, b, a)
    BY <1>5 DEF Earlier
  <2>3. \A a, b, c \in found : Earlier(t, a, b) /\ Earlier(t, b, c) => Earlier(t, a, c)
    BY <1>5 DEF Earlier
  <2> QED BY <1>3, <2>1, <2>2, <2>3 DEF StrictOrder
<1>7. \A a \in found : RankBy(a, found, R) = Cardinality(After(a))
  BY <1>4 DEF RankBy
<1>8. \A k : (CHOOSE a \in found : RankBy(a, found, R) = k) = CHOOSE a \in found : Cardinality(After(a)) = k
  BY <1>7
<1>9. ByRank(found, R) = RowsWithin(t, window)
  <2>1. RowsWithin(t, window) = [i \in 1 .. Cardinality(found) |->
          CHOOSE a \in found : Cardinality(After(a)) = i - 1]
    BY DEF RowsWithin, found
  <2> HIDE DEF After
  <2>2. ByRank(found, R) = [i \in 1 .. Cardinality(found) |->
          CHOOSE a \in found : RankBy(a, found, R) = i - 1]
    BY DEF ByRank
  <2>3. \A i \in 1 .. Cardinality(found) :
          (CHOOSE a \in found : RankBy(a, found, R) = i - 1)
          = CHOOSE a \in found : Cardinality(After(a)) = i - 1
    BY <1>8
  <2> QED BY <2>1, <2>2, <2>3
<1>10. /\ RowsWithin(t, window) \in Seq(found)
       /\ \A r \in found : \E i \in 1 .. Len(RowsWithin(t, window)) : RowsWithin(t, window)[i] = r
  BY <1>1, <1>6, <1>9, ByRankEnumerates
<1> QED BY <1>10 DEF found

-----------------------------------------------------------------------------
(* What the steps do to the rows.                                          *)

LEMMA RunIs ==
  ASSUME RunOK
  PROVE  /\ run = [active |-> run.active, todo |-> run.todo, reading |-> run.reading, rows |-> run.rows,
                   uncommitted |-> run.uncommitted, until |-> run.until]
         /\ run.active \in BOOLEAN /\ run.todo \in Seq(IncTables) /\ run.reading \in BOOLEAN
         /\ run.rows \in Seq(IncRows \X Nat) /\ run.uncommitted \in Nat /\ run.until \in Nat
         /\ Len(run.rows) \in Nat /\ Len(run.todo) \in Nat
         /\ \A i \in 1 .. Len(run.rows) : run.rows[i][1] \in IncRows /\ run.rows[i][2] \in Nat
  BY LenProperties, ElementOfSeq DEF RunOK

LEMMA UpsertedRows ==
  ASSUME IncTypeInv, NEW t \in IncTables, NEW n \in 0 .. Len(run.rows)
  PROVE  /\ Upserted(t, n) \in RowStamps
         /\ \A u \in IncTables \ {t} : Upserted(t, n)[u] = opened[u]
         /\ \A r \in IncRows :
              \/ \E i \in 1 .. n : run.rows[i][1] = r /\ Upserted(t, n)[t][r] = run.rows[i][2]
              \/ /\ \A i \in 1 .. n : run.rows[i][1] # r
                 /\ Upserted(t, n)[t][r] = opened[t][r]
         /\ \A u \in IncTables, r \in IncRows : Upserted(t, n)[u][r] <= clock
<1> DEFINE written(r) == {i \in 1 .. n : run.rows[i][1] = r}
           chosen(r) == CHOOSE i \in written(r) : TRUE
           f == [r \in IncRows |-> IF written(r) = {} THEN opened[t][r] ELSE run.rows[chosen(r)][2]]
<1>1. Upserted(t, n) = [opened EXCEPT ![t] = f]
  BY DEF Upserted
<1>2. opened \in RowStamps
  BY DEF IncTypeInv
<1>3. Len(run.rows) \in Nat /\ (\A i \in 1 .. Len(run.rows) : run.rows[i][2] \in Nat /\ run.rows[i][2] <= clock)
  BY RunIs DEF IncTypeInv, RunOK
<1>4. ASSUME NEW r \in IncRows
      PROVE  /\ f[r] \in Nat /\ f[r] <= clock
             /\ \/ \E i \in 1 .. n : run.rows[i][1] = r /\ f[r] = run.rows[i][2]
                \/ (\A i \in 1 .. n : run.rows[i][1] # r) /\ f[r] = opened[t][r]
  <2>1. CASE written(r) = {}
    <3>1. f[r] = opened[t][r]
      BY <2>1
    <3>2. opened[t][r] \in Nat /\ opened[t][r] <= clock
      BY <1>2 DEF RowStamps, IncTypeInv
    <3> QED BY <2>1, <3>1, <3>2
  <2>2. CASE written(r) # {}
    <3>1. chosen(r) \in written(r)
      BY <2>2
    <3>2. f[r] = run.rows[chosen(r)][2]
      BY <2>2
    <3> HIDE DEF chosen, f
    <3>3. chosen(r) \in 1 .. n /\ run.rows[chosen(r)][1] = r /\ chosen(r) \in 1 .. Len(run.rows)
      BY <1>3, <3>1
    <3>4. run.rows[chosen(r)][2] \in Nat /\ run.rows[chosen(r)][2] <= clock
      BY <1>3, <3>3
    <3> QED BY <3>2, <3>3, <3>4
  <2> QED BY <2>1, <2>2
<1>5. f \in [IncRows -> Nat]
  BY <1>4
<1> HIDE DEF f
<1>6. Upserted(t, n) \in RowStamps /\ Upserted(t, n)[t] = f
      /\ \A u \in IncTables \ {t} : Upserted(t, n)[u] = opened[u]
  BY <1>1, <1>2, <1>5 DEF RowStamps
<1>7. \A u \in IncTables, r \in IncRows : Upserted(t, n)[u][r] <= clock
  BY <1>4, <1>6 DEF IncTypeInv
<1> QED BY <1>4, <1>6, <1>7

LEMMA CommittedRows ==
  ASSUME IncTypeInv, NEW open \in RowStamps, \A u \in IncTables, r \in IncRows : open[u][r] <= clock
  PROVE  /\ Committed(open) \in RowStamps
         /\ \A u \in IncTables, r \in IncRows :
              /\ Committed(open)[u][r] = IF open[u][r] = 0 THEN copied[u][r] ELSE open[u][r]
              /\ Committed(open)[u][r] <= clock
  BY DEF Committed, RowStamps, IncTypeInv

LEMMA NoneOpenRows ==
  /\ NoneOpen \in RowStamps
  /\ \A u \in IncTables, r \in IncRows : NoneOpen[u][r] = 0
  BY DEF NoneOpen, RowStamps

LEMMA Batch ==
  ASSUME IncrementalAssumption, RunOK, run.rows # << >>
  PROVE  BatchLength \in 1 .. Len(run.rows)
<1>1. Len(run.rows) \in Nat /\ Len(run.rows) # 0
  BY RunIs, EmptySeq
<1> QED BY <1>1 DEF BatchLength, Least, IncrementalAssumption

LEMMA RestOfRows ==
  ASSUME RunOK, NEW n \in 0 .. Len(run.rows)
  PROVE  LET rest == SubSeq(run.rows, n + 1, Len(run.rows))
         IN  /\ rest \in Seq(IncRows \X Nat) /\ Len(rest) = Len(run.rows) - n
             /\ \A i \in 1 .. Len(rest) : n + i \in 1 .. Len(run.rows) /\ rest[i] = run.rows[n + i]
             /\ \A i \in 1 .. Len(run.rows) : i > n => i - n \in 1 .. Len(rest) /\ rest[i - n] = run.rows[i]
<1> DEFINE rest == SubSeq(run.rows, n + 1, Len(run.rows))
           len == Len(run.rows)
<1>1. len \in Nat /\ \A i \in 1 .. len : run.rows[i] \in IncRows \X Nat
  BY RunIs, ElementOfSeq
<1> HIDE DEF len
<1>2. n \in 0 .. len /\ n + 1 \in Int /\ len \in Int
  BY <1>1 DEF len
<1>3. \A i \in n + 1 .. len : run.rows[i] \in IncRows \X Nat
  BY <1>1, <1>2
<1>4. /\ rest \in Seq(IncRows \X Nat)
      /\ Len(rest) = IF n + 1 <= len THEN len - (n + 1) + 1 ELSE 0
      /\ \A i \in 1 .. len - (n + 1) + 1 : rest[i] = run.rows[n + 1 + i - 1]
  BY <1>2, <1>3, SubSeqProperties DEF len
<1> HIDE DEF rest
<1>5. Len(rest) = len - n
  BY <1>1, <1>2, <1>4
<1>6. ASSUME NEW i \in 1 .. Len(rest) PROVE n + i \in 1 .. len /\ rest[i] = run.rows[n + i]
  <2>1. i \in 1 .. len - (n + 1) + 1 /\ n + 1 + i - 1 = n + i /\ n + i \in 1 .. len
    BY <1>1, <1>2, <1>5
  <2> QED BY <1>4, <2>1
<1>7. ASSUME NEW i \in 1 .. len, i > n PROVE i - n \in 1 .. Len(rest) /\ rest[i - n] = run.rows[i]
  <2>1. i - n \in 1 .. Len(rest) /\ n + (i - n) = i
    BY <1>1, <1>2, <1>5, <1>7
  <2> QED BY <1>6, <2>1
<1> QED BY <1>4, <1>5, <1>6, <1>7 DEF rest, len

-----------------------------------------------------------------------------
LEMMA IncTypeInit ==
  ASSUME IncrementalAssumption, IncrementalInit
  PROVE  IncTypeInv
<1>1. NoneOpen \in RowStamps /\ \A t \in IncTables, r \in IncRows : NoneOpen[t][r] = 0
  BY NoneOpenRows
<1>2. RunOK
  <2>1. << >> \in Seq(IncTables) /\ << >> \in Seq(IncRows \X Nat) /\ Len(<< >>) = 0
    BY EmptySeq
  <2> QED BY <2>1 DEF RunOK, IncrementalInit, NoRun, IncrementalAssumption
<1>3. stamps \in RowStamps /\ \A t \in IncTables, r \in IncRows : stamps[t][r] = 1
  BY DEF IncrementalInit, RowStamps
<1>4. windows \in [IncTables -> [from : Nat, to : Nat]]
  BY DEF IncrementalInit, NoWindow
<1>5. results \in [IncTables -> {"none", "skipped", "completed", "failed"}]
  BY DEF IncrementalInit, NoResults
<1>6. covered \in [IncTables -> SUBSET (0 .. clock)]
  BY DEF IncrementalInit
<1>7. clock = 1 /\ copied = NoneOpen /\ opened = NoneOpen /\ connection = "fine"
  BY DEF IncrementalInit
<1>8. clock \in 1 .. MaxStamp
  BY <1>7 DEF IncrementalAssumption
<1>9. \A t \in IncTables, r \in IncRows :
        1 <= stamps[t][r] /\ stamps[t][r] <= clock /\ copied[t][r] <= clock /\ opened[t][r] <= clock
  <2>1. \A t \in IncTables, r \in IncRows : stamps[t][r] = 1 /\ copied[t][r] = 0 /\ opened[t][r] = 0
    BY <1>1, <1>3, <1>7
  <2>2. clock = 1 /\ 1 <= 1 /\ 0 <= 1
    BY <1>7
  <2> QED BY <2>1, <2>2
<1> QED BY <1>1, <1>2, <1>3, <1>4, <1>5, <1>6, <1>7, <1>8, <1>9 DEF IncTypeInv

(* The run after a table is done.                                          *)
LEMMA DoneRun ==
  ASSUME IncrementalAssumption, RunOK, NEW t \in IncTables, NEW status \in {"skipped", "completed", "failed"},
         Doing(t), Done(t, status), clock' = clock
  PROVE  RunOK' /\ ~run'.reading /\ run'.active /\ run'.todo = Tail(run.todo)
<1> USE RunIs
<1>1. run' = [active |-> TRUE, todo |-> Tail(run.todo), reading |-> FALSE, rows |-> << >>,
              uncommitted |-> 0, until |-> run.until]
  BY DEF Done, Doing
<1>2. Tail(run.todo) \in Seq(IncTables)
  BY HeadTailProperties DEF Doing
<1>3. << >> \in Seq(IncRows \X Nat) /\ Len(<< >>) = 0
  BY EmptySeq
<1>4. 0 < IncCommitInterval
  BY DEF IncrementalAssumption
<1>5. run.until <= clock'
  BY DEF RunOK
<1> QED BY <1>1, <1>2, <1>3, <1>4, <1>5 DEF RunOK

LEMMA DoneResults ==
  ASSUME IncTypeInv, NEW t \in IncTables, NEW status \in {"skipped", "completed", "failed"}, Done(t, status)
  PROVE  /\ results' \in [IncTables -> {"none", "skipped", "completed", "failed"}]
         /\ results'[t] = status
         /\ \A u \in IncTables \ {t} : results'[u] = results[u]
  BY DEF IncTypeInv, Done

LEMMA NoRunOK ==
  ASSUME IncrementalAssumption, run' = NoRun, clock' \in Nat
  PROVE  RunOK'
<1>1. << >> \in Seq(IncTables) /\ << >> \in Seq(IncRows \X Nat) /\ Len(<< >>) = 0
  BY EmptySeq
<1> QED BY <1>1 DEF RunOK, NoRun, IncrementalAssumption

(* Types of the rows when a step writes, commits or drops.                 *)
RowsOK(c, k, s, f, o) ==
  /\ k \in 1 .. MaxStamp
  /\ s \in RowStamps /\ f \in RowStamps /\ o \in RowStamps
  /\ \A t \in IncTables, r \in IncRows : 1 <= s[t][r] /\ s[t][r] <= k /\ f[t][r] <= k /\ o[t][r] <= k
  /\ c \in [IncTables -> SUBSET (0 .. k)]

LEMMA TypesAreThese ==
  IncTypeInv <=>
    /\ RowsOK(covered, clock, stamps, copied, opened)
    /\ connection \in {"fine", "aborted", "lost"}
    /\ windows \in [IncTables -> [from : Nat, to : Nat]]
    /\ RunOK
    /\ results \in [IncTables -> {"none", "skipped", "completed", "failed"}]
  BY DEF IncTypeInv, RowsOK

LEMMA TypesWillBeThese ==
  ASSUME RowsOK(covered', clock', stamps', copied', opened'),
         connection' \in {"fine", "aborted", "lost"},
         windows' \in [IncTables -> [from : Nat, to : Nat]],
         RunOK',
         results' \in [IncTables -> {"none", "skipped", "completed", "failed"}]
  PROVE  IncTypeInv'
  BY DEF IncTypeInv, RowsOK

LEMMA RowsOKWritten ==
  ASSUME IncrementalAssumption, IncTypeInv, NEW t \in IncTables, NEW n \in 0 .. Len(run.rows)
  PROVE  /\ RowsOK(covered, clock, stamps, copied, Upserted(t, n))
         /\ RowsOK(covered, clock, stamps, Committed(Upserted(t, n)), NoneOpen)
         /\ RowsOK(covered, clock, stamps, Committed(opened), NoneOpen)
         /\ RowsOK(covered, clock, stamps, copied, NoneOpen)
<1>1. RowsOK(covered, clock, stamps, copied, opened)
  BY TypesAreThese
<1>2. Upserted(t, n) \in RowStamps /\ \A u \in IncTables, r \in IncRows : Upserted(t, n)[u][r] <= clock
  BY UpsertedRows
<1>3. Committed(Upserted(t, n)) \in RowStamps
      /\ \A u \in IncTables, r \in IncRows : Committed(Upserted(t, n))[u][r] <= clock
  BY <1>2, CommittedRows
<1>4. Committed(opened) \in RowStamps /\ \A u \in IncTables, r \in IncRows : Committed(opened)[u][r] <= clock
  BY CommittedRows DEF IncTypeInv
<1>5. NoneOpen \in RowStamps /\ \A u \in IncTables, r \in IncRows : NoneOpen[u][r] <= clock
  <2>1. 0 <= clock
    BY <1>1 DEF RowsOK
  <2> QED BY <2>1, NoneOpenRows
<1> QED BY <1>1, <1>2, <1>3, <1>4, <1>5 DEF RowsOK

LEMMA IncTypeNext ==
  ASSUME IncrementalAssumption, IncTypeInv, [IncrementalNext]_incVars
  PROVE  IncTypeInv'
<1> USE TypesAreThese
<1> DEFINE RS == [IncTables -> {"none", "skipped", "completed", "failed"}]
           WS == [IncTables -> [from : Nat, to : Nat]]
<1>1. ASSUME NEW t \in IncTables, NEW r \in IncRows, ChangeRow(t, r) PROVE IncTypeInv'
  <2>1. clock' = clock + 1 /\ clock \in Nat /\ clock' \in 1 .. MaxStamp
    BY <1>1 DEF ChangeRow, IncTypeInv, IncrementalAssumption
  <2>2. stamps' = [stamps EXCEPT ![t][r] = clock + 1] /\ stamps' \in RowStamps
    BY <1>1, <2>1 DEF ChangeRow, IncTypeInv, RowStamps
  <2>3. \A u \in IncTables, q \in IncRows : stamps'[u][q] = stamps[u][q] \/ stamps'[u][q] = clock'
    BY <1>1, <2>1, <2>2 DEF IncTypeInv, RowStamps
  <2>4. \A n \in Nat : n <= clock => n <= clock'
    BY <2>1
  <2>5. 1 <= clock' /\ clock' <= clock'
    BY <2>1
  <2>6. \A u \in IncTables, q \in IncRows :
          stamps[u][q] \in Nat /\ copied[u][q] \in Nat /\ opened[u][q] \in Nat
    BY DEF IncTypeInv, RowStamps
  <2>7. copied' = copied /\ opened' = opened /\ covered' = covered
    BY <1>1 DEF ChangeRow
  <2>8. \A u \in IncTables, q \in IncRows :
          1 <= stamps'[u][q] /\ stamps'[u][q] <= clock' /\ copied'[u][q] <= clock' /\ opened'[u][q] <= clock'
    BY <2>3, <2>4, <2>5, <2>6, <2>7 DEF IncTypeInv
  <2>9. covered' \in [IncTables -> SUBSET (0 .. clock')]
    <3>1. 0 .. clock \subseteq 0 .. clock'
      BY <2>1
    <3> QED BY <2>7, <3>1 DEF IncTypeInv
  <2>10. RowsOK(covered', clock', stamps', copied', opened')
    BY <2>1, <2>2, <2>7, <2>8, <2>9 DEF RowsOK, IncTypeInv
  <2>11. RunOK'
    <3>1. run' = run
      BY <1>1 DEF ChangeRow
    <3>2. run.until <= clock' /\ \A i \in 1 .. Len(run.rows) : run.rows[i][2] <= clock'
      BY <2>4, RunIs DEF RunOK
    <3> QED BY <3>1, <3>2 DEF RunOK
  <2>12. connection' = connection /\ windows' = windows /\ results' = results
    BY <1>1 DEF ChangeRow
  <2> QED BY <2>10, <2>11, <2>12, TypesWillBeThese
<1>2. CASE StartIncremental
  <2>1. /\ clock' = clock /\ stamps' = stamps /\ copied' = copied /\ opened' = opened /\ covered' = covered
        /\ connection' = "fine" /\ results' = NoResults
    BY <1>2 DEF StartIncremental
  <2>2. windows' \in WS
    BY <1>2 DEF StartIncremental, IncrementalAssumption, NoWindow
  <2>3. NoResults \in RS
    BY DEF NoResults
  <2>4. RunOK'
    <3>1. run' = [active |-> TRUE, todo |-> Sorted(IncTables), reading |-> FALSE, rows |-> << >>,
                  uncommitted |-> 0, until |-> 0]
      BY <1>2 DEF StartIncremental, NoRun
    <3>2. Sorted(IncTables) \in Seq(IncTables)
      BY SortedEnumerates DEF IncrementalAssumption
    <3>3. << >> \in Seq(IncRows \X Nat) /\ Len(<< >>) = 0
      BY EmptySeq
    <3>4. 0 < IncCommitInterval /\ 0 <= clock'
      BY <2>1 DEF IncrementalAssumption, IncTypeInv
    <3> QED BY <3>1, <3>2, <3>3, <3>4 DEF RunOK
  <2>5. RowsOK(covered', clock', stamps', copied', opened')
    BY <2>1
  <2> QED BY <2>1, <2>2, <2>3, <2>4, <2>5, TypesWillBeThese
<1>3. ASSUME NEW t \in IncTables, TableStep(t) PROVE IncTypeInv'
  <2> DEFINE DoneIs(status) == Done(t, status) /\ Doing(t)
  <2>1. clock' = clock /\ stamps' = stamps /\ windows' = windows
    BY <1>3 DEF TableStep, SkipTable, QueryRows, UpsertBatch, FinishTable, ReadFailure, UpsertFailure,
                BrokenUpsert, CommitFailure, BatchCommitFailure, CommitIsLost
  <2>2. ASSUME NEW status \in {"skipped", "completed", "failed"}, DoneIs(status)
        PROVE  RunOK' /\ results' \in RS
    BY <2>1, <2>2, DoneRun, DoneResults
  <2>3. 0 \in 0 .. Len(run.rows) /\ BatchLength \in Nat
        /\ (run.rows # << >> => BatchLength \in 1 .. Len(run.rows))
    <3>1. Len(run.rows) \in Nat
      BY RunIs
    <3> QED BY <3>1, Batch DEF BatchLength, Least, IncrementalAssumption
  <2>4. CASE SkipTable(t)
    <3>1. DoneIs("skipped")
      BY <2>4 DEF SkipTable
    <3>2. RowsOK(covered', clock', stamps', copied', opened') /\ connection' = connection
      BY <2>4 DEF SkipTable
    <3> QED BY <2>1, <2>2, <3>1, <3>2, TypesWillBeThese
  <2>5. CASE QueryRows(t)
    <3> DEFINE found == RowsWithin(t, Watermark(t))
               batch == [i \in 1 .. Len(found) |-> <<found[i], stamps[t][found[i]]>>]
    <3>1. run' = [run EXCEPT !.reading = TRUE, !.until = clock, !.rows = batch]
      BY <2>5 DEF QueryRows
    <3>2. found \in Seq(IncRows)
      <4>1. found \in Seq({r \in IncRows : Within(stamps[t][r], Watermark(t))})
        BY RowsWithinEnumerates
      <4> QED BY <4>1, SeqMonotonic
    <3>3. Len(found) \in Nat /\ \A i \in 1 .. Len(found) : found[i] \in IncRows
      BY <3>2, LenProperties, ElementOfSeq
    <3> HIDE DEF found
    <3>4. \A i \in 1 .. Len(found) : batch[i] \in IncRows \X Nat /\ batch[i][2] <= clock
      <4>1. \A r \in IncRows : stamps[t][r] \in Nat /\ stamps[t][r] <= clock
        BY DEF IncTypeInv, RowStamps
      <4> QED BY <3>3, <4>1
    <3>5. batch \in Seq(IncRows \X Nat) /\ Len(batch) = Len(found)
      BY <3>3, <3>4
    <3> HIDE DEF batch
    <3>6. RunOK'
      <4>1. clock <= clock /\ clock \in Nat
        BY DEF IncTypeInv
      <4>2. run.uncommitted < IncCommitInterval /\ run.active
        BY <2>5 DEF RunOK, QueryRows, Doing
      <4>3. run' = [active |-> run.active, todo |-> run.todo, reading |-> TRUE, rows |-> batch,
                    uncommitted |-> run.uncommitted, until |-> clock]
        BY <3>1, RunIs
      <4> QED BY <2>1, <3>4, <3>5, <4>1, <4>2, <4>3, RunIs DEF RunOK
    <3>7. UNCHANGED <<copied, opened, connection, windows, results, covered>>
      BY <2>5 DEF QueryRows
    <3>8. RowsOK(covered', clock', stamps', copied', opened')
      BY <2>1, <3>7
    <3> QED BY <3>6, <3>7, <3>8, TypesWillBeThese
  <2>6. CASE UpsertBatch(t)
    <3> DEFINE open == Upserted(t, BatchLength)
               uncommitted == run.uncommitted + BatchLength
    <3>1. run.rows # << >> /\ BatchLength \in 1 .. Len(run.rows) /\ BatchLength \in 0 .. Len(run.rows)
      BY <2>3, <2>6 DEF UpsertBatch
    <3>2. run' = [active |-> run.active, todo |-> run.todo, reading |-> run.reading,
                  rows |-> SubSeq(run.rows, BatchLength + 1, Len(run.rows)),
                  uncommitted |-> IF uncommitted >= IncCommitInterval THEN 0 ELSE uncommitted,
                  until |-> run.until]
      BY <2>6, RunIs DEF UpsertBatch
    <3>3. RowsOK(covered', clock', stamps', copied', opened')
      BY <2>1, <2>6, <3>1, RowsOKWritten, SMTT(30) DEF UpsertBatch
    <3>4. RunOK'
      <4> DEFINE rest == SubSeq(run.rows, BatchLength + 1, Len(run.rows))
      <4>1. rest \in Seq(IncRows \X Nat)
            /\ \A i \in 1 .. Len(rest) : BatchLength + i \in 1 .. Len(run.rows) /\ rest[i] = run.rows[BatchLength + i]
        BY <3>1, RestOfRows
      <4>2. \A i \in 1 .. Len(rest) : rest[i][2] <= clock
        BY <4>1 DEF RunOK
      <4>3. (IF uncommitted >= IncCommitInterval THEN 0 ELSE uncommitted) \in Nat
            /\ (IF uncommitted >= IncCommitInterval THEN 0 ELSE uncommitted) < IncCommitInterval
        BY <2>3, RunIs DEF IncrementalAssumption
      <4>4. run.active /\ run.reading
        BY <2>6 DEF UpsertBatch, Reading, Doing
      <4> HIDE DEF rest, uncommitted
      <4> QED BY <2>1, <3>2, <4>1, <4>2, <4>3, <4>4, RunIs DEF RunOK, rest, uncommitted
    <3>5. results' \in RS
      BY <2>6 DEF UpsertBatch, IncTypeInv
    <3>6. connection' = connection
      BY <2>6 DEF UpsertBatch
    <3> QED BY <2>1, <3>3, <3>4, <3>5, <3>6, TypesWillBeThese
  <2>7. CASE FinishTable(t)
    <3>1. DoneIs("completed")
      BY <2>7 DEF FinishTable, Reading
    <3>2. connection' = connection
      BY <2>7 DEF FinishTable
    <3>3. RowsOK(covered, clock, stamps, copied', opened')
      BY <2>7, <2>3, RowsOKWritten DEF FinishTable
    <3>4. covered' \in [IncTables -> SUBSET (0 .. clock)]
      <4>1. Stamps(windows[t], run.until) \subseteq 0 .. clock
        BY RunIs DEF Stamps, RunOK, IncTypeInv
      <4> QED BY <2>7, <4>1 DEF FinishTable, IncTypeInv
    <3>5. RowsOK(covered', clock', stamps', copied', opened')
      BY <2>1, <3>3, <3>4 DEF RowsOK
    <3> QED BY <2>1, <2>2, <3>1, <3>2, <3>5, TypesWillBeThese
  <2>8. CASE ReadFailure(t)
    <3>1. DoneIs("failed")
      BY <2>8 DEF ReadFailure, Reading
    <3>2. RowsOK(covered', clock', stamps', copied', opened') /\ connection' = connection
      BY <2>1, <2>8 DEF ReadFailure
    <3> QED BY <2>1, <2>2, <3>1, <3>2, TypesWillBeThese
  <2>9. CASE UpsertFailure(t)
    <3>1. DoneIs("failed")
      BY <2>9 DEF UpsertFailure, Reading
    <3>2. connection' \in {"fine", "aborted", "lost"}
      BY <2>9 DEF UpsertFailure
    <3>3. covered' = covered /\ copied' = copied
          /\ (opened' = NoneOpen \/ \E n \in 0 .. BatchLength - 1 : opened' = Upserted(t, n))
      BY <2>9 DEF UpsertFailure
    <3>4. RowsOK(covered', clock', stamps', copied', opened')
      <4>1. CASE opened' = NoneOpen
        BY <2>1, <2>3, <3>3, <4>1, RowsOKWritten
      <4>2. ASSUME NEW n \in 0 .. BatchLength - 1, opened' = Upserted(t, n)
            PROVE  RowsOK(covered', clock', stamps', copied', opened')
        <5>1. run.rows # << >>
          BY <2>9 DEF UpsertFailure
        <5>2. n \in 0 .. Len(run.rows)
          <6>1. Len(run.rows) \in Nat
            BY RunIs
          <6> QED BY <2>3, <5>1, <6>1
        <5> QED BY <2>1, <3>3, <4>2, <5>2, RowsOKWritten
      <4> QED BY <3>3, <4>1, <4>2
    <3> QED BY <2>1, <2>2, <3>1, <3>2, <3>4, TypesWillBeThese
  <2>10. CASE BrokenUpsert(t)
    <3>1. DoneIs("failed")
      BY <2>10 DEF BrokenUpsert, Reading
    <3>2. RowsOK(covered', clock', stamps', copied', opened') /\ connection' = connection
      BY <2>1, <2>10 DEF BrokenUpsert
    <3> QED BY <2>1, <2>2, <3>1, <3>2, TypesWillBeThese
  <2>11. CASE CommitFailure(t)
    <3>1. DoneIs("failed")
      BY <2>11 DEF CommitFailure, CommitIsLost, Reading
    <3>2. RowsOK(covered', clock', stamps', copied', opened') /\ connection' = "lost"
      BY <2>1, <2>3, <2>11, RowsOKWritten DEF CommitFailure, CommitIsLost
    <3> QED BY <2>1, <2>2, <3>1, <3>2, TypesWillBeThese
  <2>12. CASE BatchCommitFailure(t)
    <3>1. DoneIs("failed") /\ run.rows # << >>
      BY <2>12 DEF BatchCommitFailure, CommitIsLost, Reading
    <3>2. BatchLength \in 0 .. Len(run.rows)
      BY <2>3, <3>1, RunIs
    <3>3. RowsOK(covered', clock', stamps', copied', opened') /\ connection' = "lost"
      BY <2>1, <2>3, <2>12, <3>2, RowsOKWritten DEF BatchCommitFailure, CommitIsLost
    <3> QED BY <2>1, <2>2, <3>1, <3>3, TypesWillBeThese
  <2> QED BY <1>3, <2>4, <2>5, <2>6, <2>7, <2>8, <2>9, <2>10, <2>11, <2>12 DEF TableStep
<1>4. ASSUME EndIncremental \/ CrashIncremental PROVE IncTypeInv'
  <2>1. /\ clock' = clock /\ stamps' = stamps /\ copied' = copied /\ covered' = covered
        /\ connection' = connection /\ windows' = windows /\ results' = results
        /\ run' = NoRun /\ opened' = NoneOpen
    BY <1>4 DEF EndIncremental, CrashIncremental
  <2>2. \A t \in IncTables, r \in IncRows : opened'[t][r] = 0
    BY <2>1, NoneOpenRows
  <2>3. clock \in Nat /\ 0 <= clock
    BY DEF IncTypeInv
  <2>4. RowsOK(covered', clock', stamps', copied', opened')
    BY <2>1, <2>2, <2>3, NoneOpenRows DEF RowsOK
  <2>5. RunOK'
    BY <2>1, <2>3, NoRunOK
  <2> QED BY <2>1, <2>4, <2>5, TypesWillBeThese
<1>5. CASE UNCHANGED incVars
  BY <1>5 DEF incVars, IncTypeInv, RunOK
<1> QED BY <1>1, <1>2, <1>3, <1>4, <1>5 DEF IncrementalNext

(* The types of an incremental run: no row of either database, and none    *)
(* that was read, is from the future, and between two batches fewer rows   *)
(* than commit_interval are uncommitted (core/incremental.py).             *)
THEOREM IncTypes ==
  ASSUME IncrementalAssumption
  PROVE  IncrementalSpec => []IncTypeInv
<1>1. IncrementalInit => IncTypeInv
  BY IncTypeInit
<1>2. IncTypeInv /\ [IncrementalNext]_incVars => IncTypeInv'
  BY IncTypeNext
<1> QED BY <1>1, <1>2, PTL DEF IncrementalSpec

-----------------------------------------------------------------------------
(* Whose rows are open.                                                    *)

LEMMA OnceAfterDone ==
  ASSUME IncTypeInv, OnceEach, NEW t \in IncTables, Doing(t),
         NEW status \in {"skipped", "completed", "failed"}, Done(t, status)
  PROVE  OnceEach' /\ results[t] = "none"
<1>1. run.todo \in Seq(IncTables) /\ run.todo # << >> /\ Head(run.todo) = t
  BY RunIs DEF Doing, IncTypeInv
<1>2. /\ run'.todo = Tail(run.todo) /\ Len(Tail(run.todo)) = Len(run.todo) - 1 /\ Len(run.todo) \in Nat \ {0}
      /\ Tail(run.todo) \in Seq(IncTables)
      /\ \A i \in 1 .. Len(Tail(run.todo)) : Tail(run.todo)[i] = run.todo[i + 1]
  <2>1. run'.todo = Tail(run.todo)
    BY RunIs DEF Done, IncTypeInv
  <2> QED BY <1>1, <2>1, HeadTailProperties, EmptySeq, LenProperties
<1>3. 1 \in 1 .. Len(run.todo) /\ run.todo[1] = t
  BY <1>1, <1>2
<1>4. results[t] = "none"
  BY <1>3 DEF OnceEach
<1>5. \A i \in 1 .. Len(Tail(run.todo)) :
        /\ i + 1 \in 1 .. Len(run.todo) /\ i + 1 # 1
        /\ Tail(run.todo)[i] = run.todo[i + 1] /\ run.todo[i + 1] \in IncTables
  BY <1>1, <1>2, ElementOfSeq
<1>6. \A i \in 1 .. Len(Tail(run.todo)) : Tail(run.todo)[i] # t /\ results[Tail(run.todo)[i]] = "none"
  BY <1>3, <1>5 DEF OnceEach
<1>7. \A i, j \in 1 .. Len(Tail(run.todo)) : Tail(run.todo)[i] = Tail(run.todo)[j] => i = j
  <2> SUFFICES ASSUME NEW i \in 1 .. Len(Tail(run.todo)), NEW j \in 1 .. Len(Tail(run.todo)),
                      Tail(run.todo)[i] = Tail(run.todo)[j]
               PROVE  i = j
    OBVIOUS
  <2>1. i + 1 = j + 1
    BY <1>5 DEF OnceEach
  <2> QED BY <2>1
<1>8. \A u \in IncTables \ {t} : results'[u] = results[u]
  BY DoneResults
<1>9. \A i \in 1 .. Len(Tail(run.todo)) : results'[Tail(run.todo)[i]] = "none"
  BY <1>5, <1>6, <1>8
<1> QED BY <1>2, <1>4, <1>7, <1>9 DEF OnceEach

(* A table that fails may leave rows open; one that does not has none.     *)
LEMMA OpenAfterDone ==
  ASSUME IncrementalAssumption, IncTypeInv, OpenInv, NEW t \in IncTables, Doing(t), clock' = clock,
         NEW status \in {"skipped", "completed", "failed"}, Done(t, status),
         \A u \in IncTables \ {t} : opened'[u] \in {opened[u], NoneOpen[u]},
         status # "failed" => opened'[t] = NoneOpen[t]
  PROVE  OpenInv'
<1>1. OnceEach' /\ results[t] = "none"
  BY OnceAfterDone DEF OpenInv
<1>2. run'.active
  BY DoneRun DEF IncTypeInv
<1>3. /\ \A u \in IncTables \ {t} : results'[u] = results[u]
      /\ results'[t] = status
  BY DoneResults
<1>4. NoneOpen' = NoneOpen
  BY DEF NoneOpen
<1>5. ASSUME NEW u \in IncTables, opened'[u] # NoneOpen[u] PROVE results'[u] = "failed"
  <2>1. CASE u = t
    BY <1>3, <1>5, <2>1
  <2>2. CASE u # t
    <3>1. opened[u] # NoneOpen[u]
      BY <1>5, <2>2
    <3>2. ~Reading(u)
      BY <2>2 DEF Reading, Doing
    <3> QED BY <1>3, <2>2, <3>1, <3>2 DEF OpenInv
  <2> QED BY <2>1, <2>2
<1> QED BY <1>1, <1>2, <1>4, <1>5 DEF OpenInv

LEMMA OpenNext ==
  ASSUME IncrementalAssumption, IncTypeInv, OpenInv, [IncrementalNext]_incVars
  PROVE  OpenInv'
<1>0. NoneOpen' = NoneOpen
  BY DEF NoneOpen
<1>1. ASSUME NEW t \in IncTables, NEW r \in IncRows, ChangeRow(t, r) PROVE OpenInv'
  <2>1. opened' = opened /\ run' = run /\ results' = results
    BY <1>1 DEF ChangeRow
  <2> QED BY <1>0, <2>1 DEF OpenInv, OnceEach, Reading, Doing
<1>2. CASE StartIncremental
  <2>1. opened' = opened /\ opened = NoneOpen /\ results' = NoResults /\ run'.active /\ run'.todo = Sorted(IncTables)
    BY <1>2, RunIs DEF StartIncremental, OpenInv, NoRun
  <2>2. /\ \A i, j \in 1 .. Len(Sorted(IncTables)) : Sorted(IncTables)[i] = Sorted(IncTables)[j] => i = j
        /\ \A i \in 1 .. Len(Sorted(IncTables)) : Sorted(IncTables)[i] \in IncTables
    BY SortedEnumerates, ElementOfSeq DEF IncrementalAssumption
  <2>3. OnceEach'
    BY <2>1, <2>2 DEF OnceEach, NoResults
  <2> QED BY <1>0, <2>1, <2>3 DEF OpenInv
<1>3. ASSUME NEW t \in IncTables, TableStep(t) PROVE OpenInv'
  <2>1. clock' = clock
    BY <1>3 DEF TableStep, SkipTable, QueryRows, UpsertBatch, FinishTable, ReadFailure, UpsertFailure,
                BrokenUpsert, CommitFailure, BatchCommitFailure, CommitIsLost
  <2>2. Doing(t) => results[t] = "none"
    <3> SUFFICES ASSUME Doing(t) PROVE results[t] = "none"
      OBVIOUS
    <3>1. run.todo \in Seq(IncTables) /\ run.todo # << >> /\ Head(run.todo) = t
      BY RunIs DEF Doing, IncTypeInv
    <3>2. 1 \in 1 .. Len(run.todo) /\ run.todo[1] = t
      BY <3>1, EmptySeq, LenProperties
    <3> QED BY <3>2 DEF OpenInv, OnceEach
  <2>3. Doing(t) /\ (~run.reading \/ run.uncommitted = 0) => opened[t] = NoneOpen[t]
    <3> SUFFICES ASSUME Doing(t), ~run.reading \/ run.uncommitted = 0 PROVE opened[t] = NoneOpen[t]
      OBVIOUS
    <3>1. ~(run.uncommitted > 0 /\ run.reading)
      OBVIOUS
    <3> QED BY <2>2, <3>1 DEF OpenInv, Reading
  <2>4. CASE SkipTable(t)
    <3>1. Doing(t) /\ Done(t, "skipped") /\ opened' = opened /\ opened'[t] = NoneOpen[t]
      BY <2>3, <2>4 DEF SkipTable
    <3> QED BY <2>1, <3>1, OpenAfterDone
  <2>5. CASE QueryRows(t)
    <3>1. opened' = opened /\ results' = results /\ run'.todo = run.todo /\ run'.active = run.active
      BY <2>5, RunIs DEF QueryRows, IncTypeInv
    <3>2. \A u \in IncTables : opened[u] # NoneOpen[u] => results[u] = "failed"
      BY <2>5 DEF OpenInv, QueryRows, Reading
    <3>3. run.active
      BY <2>5 DEF QueryRows, Doing
    <3> QED BY <1>0, <3>1, <3>2, <3>3 DEF OpenInv, OnceEach
  <2>6. CASE UpsertBatch(t)
    <3> DEFINE uncommitted == run.uncommitted + BatchLength
    <3>1. /\ run'.todo = run.todo /\ run'.active = run.active /\ run'.reading = run.reading
          /\ run'.uncommitted = IF uncommitted >= IncCommitInterval THEN 0 ELSE uncommitted
      BY <2>6, RunIs DEF UpsertBatch, IncTypeInv
    <3>2. BatchLength \in 1 .. Len(run.rows) /\ BatchLength \in 0 .. Len(run.rows) /\ uncommitted > 0
      <4>1. BatchLength \in 1 .. Len(run.rows) /\ run.uncommitted \in Nat /\ Len(run.rows) \in Nat
        BY <2>6, Batch, RunIs DEF UpsertBatch, IncTypeInv
      <4> QED BY <4>1
    <3>3. Reading(t) /\ run.active
      BY <2>6 DEF UpsertBatch, Reading, Doing
    <3>4. Reading(t)'
      BY <3>1, <3>3 DEF Reading, Doing
    <3>5. /\ \A u \in IncTables : results'[u] = results[u]
      BY <2>6 DEF UpsertBatch, IncTypeInv
    <3>6. OnceEach'
      <4>1. \A i \in 1 .. Len(run.todo) : run.todo[i] \in IncTables
        BY RunIs, ElementOfSeq DEF IncTypeInv
      <4> QED BY <3>1, <3>5, <4>1 DEF OnceEach, OpenInv
    <3>7. CASE uncommitted >= IncCommitInterval
      <4>1. opened' = NoneOpen
        BY <2>6, <3>7 DEF UpsertBatch
      <4> QED BY <1>0, <3>1, <3>3, <3>6, <4>1 DEF OpenInv
    <3>8. CASE ~(uncommitted >= IncCommitInterval)
      <4>1. opened' = Upserted(t, BatchLength)
        BY <2>6, <3>8 DEF UpsertBatch
      <4>2. \A u \in IncTables \ {t} : opened'[u] = opened[u]
        BY <3>2, <4>1, UpsertedRows
      <4>3. run'.uncommitted > 0
        BY <3>1, <3>2, <3>8
      <4>4. ASSUME NEW u \in IncTables, opened'[u] # NoneOpen[u], u # t PROVE results'[u] = "failed"
        <5>1. opened[u] # NoneOpen[u]
          BY <4>2, <4>4
        <5>2. ~Reading(u)
          BY <3>3, <4>4 DEF Reading, Doing
        <5> QED BY <3>5, <5>1, <5>2 DEF OpenInv
      <4> QED BY <1>0, <3>1, <3>3, <3>4, <3>6, <4>3, <4>4 DEF OpenInv
    <3> QED BY <3>7, <3>8
  <2>7. CASE FinishTable(t)
    <3>1. Doing(t) /\ Done(t, "completed")
      BY <2>7 DEF FinishTable, Reading
    <3>2. opened' = NoneOpen \/ (opened' = opened /\ ~(run.uncommitted > 0))
      BY <2>7 DEF FinishTable
    <3>3. opened'[t] = NoneOpen[t]
      <4>1. run.uncommitted \in Nat
        BY RunIs DEF IncTypeInv
      <4>2. ~(run.uncommitted > 0) => run.uncommitted = 0
        BY <4>1
      <4> QED BY <2>3, <3>1, <3>2, <4>2
    <3> QED BY <2>1, <3>1, <3>2, <3>3, OpenAfterDone
  <2>8. CASE ReadFailure(t) \/ BrokenUpsert(t)
    <3>1. Doing(t) /\ Done(t, "failed") /\ opened' = opened
      BY <2>8 DEF ReadFailure, BrokenUpsert, Reading
    <3> QED BY <2>1, <3>1, OpenAfterDone
  <2>9. CASE UpsertFailure(t)
    <3>1. Doing(t) /\ Done(t, "failed") /\ run.rows # << >>
          /\ (opened' = NoneOpen \/ \E n \in 0 .. BatchLength - 1 : opened' = Upserted(t, n))
      BY <2>9 DEF UpsertFailure, Reading
    <3>2. \A n \in 0 .. BatchLength - 1 : n \in 0 .. Len(run.rows)
      <4>1. BatchLength \in 1 .. Len(run.rows) /\ Len(run.rows) \in Nat
        BY <3>1, Batch, RunIs DEF IncTypeInv
      <4> QED BY <4>1
    <3>3. \A u \in IncTables \ {t} : opened'[u] \in {opened[u], NoneOpen[u]}
      <4>1. CASE opened' = NoneOpen
        BY <4>1
      <4>2. ASSUME NEW n \in 0 .. BatchLength - 1, opened' = Upserted(t, n)
            PROVE  \A u \in IncTables \ {t} : opened'[u] = opened[u]
        BY <3>2, <4>2, UpsertedRows
      <4> QED BY <3>1, <4>1, <4>2
    <3> QED BY <2>1, <3>1, <3>3, OpenAfterDone
  <2>10. CASE CommitFailure(t) \/ BatchCommitFailure(t)
    <3>1. Doing(t) /\ Done(t, "failed") /\ opened' = NoneOpen
      BY <2>10 DEF CommitFailure, BatchCommitFailure, CommitIsLost, Reading
    <3> QED BY <2>1, <3>1, OpenAfterDone
  <2> QED BY <1>3, <2>4, <2>5, <2>6, <2>7, <2>8, <2>9, <2>10 DEF TableStep
<1>4. ASSUME EndIncremental \/ CrashIncremental PROVE OpenInv'
  <2>1. run' = NoRun /\ opened' = NoneOpen
    BY <1>4 DEF EndIncremental, CrashIncremental
  <2>2. OnceEach'
    BY <2>1, EmptySeq DEF OnceEach, NoRun
  <2> QED BY <1>0, <2>1, <2>2 DEF OpenInv
<1>5. CASE UNCHANGED incVars
  BY <1>0, <1>5 DEF incVars, OpenInv, OnceEach, Reading, Doing
<1> QED BY <1>1, <1>2, <1>3, <1>4, <1>5 DEF IncrementalNext

(* OnlyFailedTablesLoseRows: what the end of a run drops belongs to tables *)
(* that the report shows as failed (core/incremental.py,                   *)
(* _migrate_table and its commit interval).                                *)
THEOREM LostRowsAreReported ==
  ASSUME IncrementalAssumption
  PROVE  IncrementalSpec => []OnlyFailedTablesLoseRows
<1>1. IncrementalInit => OpenInv
  <2> SUFFICES ASSUME IncrementalInit PROVE OpenInv
    OBVIOUS
  <2>1. opened = NoneOpen /\ run = NoRun
    BY DEF IncrementalInit
  <2>2. OnceEach
    BY <2>1, EmptySeq DEF OnceEach, NoRun
  <2> QED BY <2>1, <2>2 DEF OpenInv
<1>2. IncTypeInv /\ OpenInv /\ [IncrementalNext]_incVars => OpenInv'
  BY OpenNext
<1>3. OpenInv => OnlyFailedTablesLoseRows
  BY DEF OpenInv, OnlyFailedTablesLoseRows, Reading, Doing
<1> QED BY <1>1, <1>2, <1>3, IncTypes, PTL DEF IncrementalSpec

-----------------------------------------------------------------------------
(* What completed windows mean.                                            *)

(* What may be committed keeps what is there and adds what is current.     *)
Fresh(open) ==
  \A t \in IncTables, r \in IncRows : Current(t, r) /\ open[t][r] # 0 => open[t][r] = stamps[t][r]

LEMMA UpsertedFresh ==
  ASSUME IncTypeInv, FreshInv, NEW t \in IncTables, Reading(t), NEW n \in 0 .. Len(run.rows)
  PROVE  Fresh(Upserted(t, n))
<1> SUFFICES ASSUME NEW u \in IncTables, NEW r \in IncRows, Current(u, r), Upserted(t, n)[u][r] # 0
             PROVE  Upserted(t, n)[u][r] = stamps[u][r]
  BY DEF Fresh
<1>1. CASE u # t
  <2>1. Upserted(t, n)[u] = opened[u]
    BY <1>1, UpsertedRows
  <2> QED BY <2>1 DEF FreshInv
<1>2. CASE u = t
  <2>1. ASSUME NEW i \in 1 .. n, run.rows[i][1] = r, Upserted(t, n)[t][r] = run.rows[i][2]
        PROVE  Upserted(t, n)[u][r] = stamps[u][r]
    <3>1. i \in 1 .. Len(run.rows)
      BY RunIs DEF IncTypeInv
    <3> QED BY <1>2, <2>1, <3>1 DEF FreshInv
  <2>2. ASSUME Upserted(t, n)[t][r] = opened[t][r] PROVE Upserted(t, n)[u][r] = stamps[u][r]
    BY <1>2, <2>2 DEF FreshInv
  <2> QED BY <2>1, <2>2, UpsertedRows
<1> QED BY <1>1, <1>2

LEMMA OthersFresh ==
  ASSUME FreshInv
  PROVE  Fresh(opened) /\ Fresh(NoneOpen)
  BY NoneOpenRows DEF Fresh, FreshInv

LEMMA CommittedFresh ==
  ASSUME IncTypeInv, NEW open \in RowStamps, \A u \in IncTables, r \in IncRows : open[u][r] <= clock,
         Fresh(open), NEW t \in IncTables, NEW r \in IncRows, Current(t, r),
         copied[t][r] = stamps[t][r] \/ open[t][r] = stamps[t][r]
  PROVE  Committed(open)[t][r] = stamps[t][r]
<1>1. stamps[t][r] # 0
  BY DEF IncTypeInv, RowStamps
<1>2. Committed(open)[t][r] = IF open[t][r] = 0 THEN copied[t][r] ELSE open[t][r]
  BY CommittedRows
<1> QED BY <1>1, <1>2 DEF Fresh

(* A step that neither changes the source nor reads on nor covers.         *)
LEMMA FreshAfterDone ==
  ASSUME FreshInv, stamps' = stamps,
         \A u \in IncTables, r \in IncRows : Current(u, r)' => Current(u, r),
         \A u \in IncTables : ~Reading(u)',
         Fresh(opened')
  PROVE  FreshInv'
  BY DEF FreshInv, Fresh

LEMMA FreshNext ==
  ASSUME IncrementalAssumption, IncTypeInv, OpenInv, FreshInv, [IncrementalNext]_incVars
  PROVE  FreshInv'
<1>1. ASSUME NEW t \in IncTables, NEW r \in IncRows, ChangeRow(t, r) PROVE FreshInv'
  <2>1. /\ opened' = opened /\ run' = run /\ covered' = covered /\ stamps' = [stamps EXCEPT ![t][r] = clock + 1]
    BY <1>1 DEF ChangeRow
  <2>2. \A u \in IncTables : Reading(u)' <=> Reading(u)
    BY <2>1 DEF Reading, Doing
  <2>3. ~Current(t, r)'
    <3>1. stamps'[t][r] = clock + 1
      BY <2>1 DEF IncTypeInv, RowStamps
    <3>2. clock + 1 \notin covered[t] /\ ~(clock + 1 <= run.until)
      BY RunIs DEF IncTypeInv, RunOK
    <3> QED BY <2>1, <3>1, <3>2 DEF Current
  <2>4. ASSUME NEW u \in IncTables, NEW q \in IncRows, u # t \/ q # r
        PROVE  stamps'[u][q] = stamps[u][q]
    BY <2>1, <2>4 DEF IncTypeInv, RowStamps
  <2>5. ASSUME NEW u \in IncTables, NEW q \in IncRows, Current(u, q)'
        PROVE  /\ opened'[u][q] # 0 => opened'[u][q] = stamps'[u][q]
               /\ Reading(u)' => \A i \in 1 .. Len(run'.rows) : run'.rows[i][1] = q => run'.rows[i][2] = stamps'[u][q]
    <3>1. u # t \/ q # r
      BY <2>3, <2>5
    <3>2. stamps'[u][q] = stamps[u][q]
      BY <2>4, <3>1
    <3>3. Current(u, q)
      BY <2>1, <2>2, <2>5, <3>2 DEF Current
    <3> QED BY <2>1, <2>2, <3>2, <3>3 DEF FreshInv
  <2> QED BY <2>5 DEF FreshInv
<1>2. CASE StartIncremental
  <2>1. opened' = opened /\ opened = NoneOpen /\ ~run'.reading
    BY <1>2, RunIs DEF StartIncremental, OpenInv, NoRun
  <2> QED BY <2>1, NoneOpenRows DEF FreshInv, Reading
<1>3. ASSUME NEW t \in IncTables, TableStep(t) PROVE FreshInv'
  <2>1. clock' = clock /\ stamps' = stamps /\ windows' = windows
    BY <1>3 DEF TableStep, SkipTable, QueryRows, UpsertBatch, FinishTable, ReadFailure, UpsertFailure,
                BrokenUpsert, CommitFailure, BatchCommitFailure, CommitIsLost
  <2>2. ASSUME NEW status, Done(t, status), Fresh(opened'),
               \A r \in IncRows : stamps[t][r] \in covered'[t] => Current(t, r),
               \A u \in IncTables \ {t} : covered'[u] = covered[u]
        PROVE  FreshInv'
    <3>1. \A u \in IncTables : ~Reading(u)'
      BY <2>2, RunIs DEF Reading, Done, IncTypeInv
    <3>2. \A u \in IncTables, r \in IncRows : Current(u, r)' => Current(u, r)
      BY <2>1, <2>2, <3>1 DEF Current
    <3> QED BY <2>1, <2>2, <3>1, <3>2, FreshAfterDone
  <2>3. covered' = covered => /\ \A r \in IncRows : stamps[t][r] \in covered'[t] => Current(t, r)
                              /\ \A u \in IncTables \ {t} : covered'[u] = covered[u]
    BY DEF Current
  <2>4. CASE SkipTable(t)
    <3>1. Done(t, "skipped") /\ opened' = opened /\ covered' = covered
      BY <2>4 DEF SkipTable
    <3> QED BY <2>2, <2>3, <3>1, OthersFresh
  <2>5. CASE QueryRows(t)
    <3> DEFINE found == RowsWithin(t, Watermark(t))
               batch == [i \in 1 .. Len(found) |-> <<found[i], stamps[t][found[i]]>>]
    <3>1. run'.rows = batch /\ run'.todo = run.todo
      BY <2>5, RunIs DEF QueryRows, IncTypeInv
    <3>2. opened' = opened /\ covered' = covered /\ Doing(t) /\ ~run.reading
      BY <2>5 DEF QueryRows
    <3>3. \A u \in IncTables : Reading(u)' => u = t
      BY <3>1, <3>2 DEF Reading, Doing
    <3>4. \A u \in IncTables : ~Reading(u)
      BY <3>2 DEF Reading
    <3>5. opened[t] = NoneOpen[t]
      <4>1. run.todo \in Seq(IncTables) /\ run.todo # << >> /\ Head(run.todo) = t
        BY <3>2, RunIs DEF Doing, IncTypeInv
      <4>2. 1 \in 1 .. Len(run.todo) /\ run.todo[1] = t
        BY <4>1, EmptySeq, LenProperties
      <4> QED BY <3>4, <4>2 DEF OpenInv, OnceEach
    <3>6. ASSUME NEW u \in IncTables, NEW r \in IncRows, Current(u, r)'
          PROVE  /\ opened'[u][r] # 0 => opened'[u][r] = stamps'[u][r]
                 /\ Reading(u)' => \A i \in 1 .. Len(run'.rows) : run'.rows[i][1] = r => run'.rows[i][2] = stamps'[u][r]
      <4>1. CASE u = t
        <5>1. opened'[u][r] = 0
          BY <3>2, <3>5, <4>1, NoneOpenRows
        <5>2. Len(found) \in Nat
          <6>1. found \in Seq({q \in IncRows : Within(stamps[t][q], Watermark(t))})
            BY RowsWithinEnumerates
          <6> QED BY <6>1, LenProperties
        <5> HIDE DEF found
        <5>3. Len(batch) = Len(found)
          BY <5>2
        <5>4. \A i \in 1 .. Len(batch) : batch[i][1] = r => batch[i][2] = stamps[t][r]
          BY <5>3
        <5> HIDE DEF batch
        <5> QED BY <2>1, <3>1, <4>1, <5>1, <5>4
      <4>2. CASE u # t
        <5>1. Current(u, r)
          BY <2>1, <3>2, <3>3, <3>6, <4>2 DEF Current
        <5> QED BY <2>1, <3>2, <3>3, <4>2, <5>1 DEF FreshInv
      <4> QED BY <4>1, <4>2
    <3> QED BY <3>6 DEF FreshInv
  <2>6. CASE UpsertBatch(t)
    <3> DEFINE rest == SubSeq(run.rows, BatchLength + 1, Len(run.rows))
    <3>1. /\ run'.todo = run.todo /\ run'.active = run.active /\ run'.reading = run.reading
          /\ run'.until = run.until /\ run'.rows = rest
      BY <2>6, RunIs DEF UpsertBatch, IncTypeInv
    <3>2. BatchLength \in 0 .. Len(run.rows)
      <4>1. BatchLength \in 1 .. Len(run.rows) /\ Len(run.rows) \in Nat
        BY <2>6, Batch, RunIs DEF UpsertBatch, IncTypeInv
      <4> QED BY <4>1
    <3>3. covered' = covered /\ Reading(t)
      BY <2>6 DEF UpsertBatch
    <3>4. \A u \in IncTables : Reading(u)' <=> Reading(u)
      BY <3>1 DEF Reading, Doing
    <3>5. \A u \in IncTables, r \in IncRows : Current(u, r)' => Current(u, r)
      BY <2>1, <3>1, <3>3, <3>4 DEF Current
    <3>6. opened' = NoneOpen \/ opened' = Upserted(t, BatchLength)
      BY <2>6 DEF UpsertBatch
    <3>7. Fresh(opened')
      BY <3>2, <3>3, <3>6, UpsertedFresh, OthersFresh
    <3>8. \A i \in 1 .. Len(rest) : BatchLength + i \in 1 .. Len(run.rows) /\ rest[i] = run.rows[BatchLength + i]
      BY <3>2, RestOfRows DEF IncTypeInv
    <3> HIDE DEF rest
    <3>9. ASSUME NEW u \in IncTables, NEW r \in IncRows, Current(u, r)'
          PROVE  /\ opened'[u][r] # 0 => opened'[u][r] = stamps'[u][r]
                 /\ Reading(u)' => \A i \in 1 .. Len(run'.rows) : run'.rows[i][1] = r => run'.rows[i][2] = stamps'[u][r]
      <4>1. Current(u, r)
        BY <3>5, <3>9
      <4>2. opened'[u][r] # 0 => opened'[u][r] = stamps'[u][r]
        BY <2>1, <3>7, <4>1 DEF Fresh
      <4>3. Reading(u) => \A i \in 1 .. Len(run.rows) : run.rows[i][1] = r => run.rows[i][2] = stamps[u][r]
        BY <4>1 DEF FreshInv
      <4> QED BY <2>1, <3>1, <3>4, <3>8, <4>2, <4>3
    <3> QED BY <3>9 DEF FreshInv
  <2>7. CASE FinishTable(t)
    <3>1. Done(t, "completed") /\ Reading(t)
          /\ covered' = [covered EXCEPT ![t] = @ \cup Stamps(windows[t], run.until)]
      BY <2>7 DEF FinishTable
    <3>2. Fresh(opened')
      BY <2>7, OthersFresh DEF FinishTable
    <3>3. \A r \in IncRows : stamps[t][r] \in covered'[t] => Current(t, r)
      <4>1. covered'[t] = covered[t] \cup Stamps(windows[t], run.until)
        BY <3>1 DEF IncTypeInv
      <4>2. \A s \in Stamps(windows[t], run.until) : s <= run.until
        BY DEF Stamps
      <4> QED BY <3>1, <4>1, <4>2 DEF Current
    <3>4. \A u \in IncTables \ {t} : covered'[u] = covered[u]
      BY <3>1 DEF IncTypeInv
    <3> QED BY <2>2, <3>1, <3>2, <3>3, <3>4
  <2>8. CASE ReadFailure(t) \/ BrokenUpsert(t)
    <3>1. Done(t, "failed") /\ opened' = opened /\ covered' = covered
      BY <2>8 DEF ReadFailure, BrokenUpsert
    <3> QED BY <2>2, <2>3, <3>1, OthersFresh
  <2>9. CASE UpsertFailure(t)
    <3>1. Done(t, "failed") /\ Reading(t) /\ run.rows # << >> /\ covered' = covered
          /\ (opened' = NoneOpen \/ \E n \in 0 .. BatchLength - 1 : opened' = Upserted(t, n))
      BY <2>9 DEF UpsertFailure
    <3>2. \A n \in 0 .. BatchLength - 1 : n \in 0 .. Len(run.rows)
      <4>1. BatchLength \in 1 .. Len(run.rows) /\ Len(run.rows) \in Nat
        BY <3>1, Batch, RunIs DEF IncTypeInv
      <4> QED BY <4>1
    <3>3. Fresh(opened')
      BY <3>1, <3>2, UpsertedFresh, OthersFresh
    <3> QED BY <2>2, <2>3, <3>1, <3>3
  <2>10. CASE CommitFailure(t) \/ BatchCommitFailure(t)
    <3>1. Done(t, "failed") /\ opened' = NoneOpen /\ covered' = covered
      BY <2>10 DEF CommitFailure, BatchCommitFailure, CommitIsLost
    <3> QED BY <2>2, <2>3, <3>1, OthersFresh
  <2> QED BY <1>3, <2>4, <2>5, <2>6, <2>7, <2>8, <2>9, <2>10 DEF TableStep
<1>4. ASSUME EndIncremental \/ CrashIncremental PROVE FreshInv'
  <2>1. run' = NoRun /\ opened' = NoneOpen
    BY <1>4 DEF EndIncremental, CrashIncremental
  <2> QED BY <2>1, NoneOpenRows DEF FreshInv, Reading, NoRun
<1>5. CASE UNCHANGED incVars
  <2>1. stamps' = stamps /\ opened' = opened /\ covered' = covered /\ run' = run
    BY <1>5 DEF incVars
  <2>2. \A u \in IncTables : Reading(u)' <=> Reading(u)
    BY <2>1 DEF Reading, Doing
  <2>3. \A u \in IncTables, r \in IncRows : Current(u, r)' <=> Current(u, r)
    BY <2>1, <2>2 DEF Current
  <2>4. ASSUME NEW t \in IncTables, NEW r \in IncRows, Current(t, r)'
        PROVE  /\ opened'[t][r] # 0 => opened'[t][r] = stamps'[t][r]
               /\ Reading(t)' => \A i \in 1 .. Len(run'.rows) : run'.rows[i][1] = r => run'.rows[i][2] = stamps'[t][r]
    <3>1. Current(t, r)
      BY <2>3, <2>4
    <3>2. /\ opened[t][r] # 0 => opened[t][r] = stamps[t][r]
          /\ Reading(t) => \A i \in 1 .. Len(run.rows) : run.rows[i][1] = r => run.rows[i][2] = stamps[t][r]
      BY <3>1 DEF FreshInv
    <3> QED BY <2>1, <2>2, <3>2
  <2> QED BY <2>4 DEF FreshInv
<1> QED BY <1>1, <1>2, <1>3, <1>4, <1>5 DEF IncrementalNext

(* Watermarks are found by name: a table that shares its name with no      *)
(* other one gets its own.                                                 *)
LEMMA OwnWatermark ==
  ASSUME IncrementalAssumption, NEW t \in IncTables, Alone1(t), Watermark(t) # NoWindow
  PROVE  Watermark(t) = windows[t]
<1>1. Namesakes(t) \subseteq {t} /\ Namesakes(t) # {}
  BY DEF Namesakes, Alone1, Watermark
<1>2. Namesakes(t) = {t}
  BY <1>1
<1>3. t <= t
  BY DEF IncrementalAssumption
<1>4. (CHOOSE u \in {t} : \A v \in {t} : v <= u) = t
  BY <1>3
<1> QED BY <1>2, <1>4 DEF Watermark

LEMMA ReadNext ==
  ASSUME IncrementalAssumption, IncTypeInv, FreshInv, ReadInv, [IncrementalNext]_incVars
  PROVE  ReadInv'
<1>0. \A u \in IncTables : Alone1(u)' <=> Alone1(u)
  BY DEF Alone1
<1>1. ASSUME NEW t \in IncTables, NEW r \in IncRows, ChangeRow(t, r) PROVE ReadInv'
  <2>1. /\ opened' = opened /\ copied' = copied /\ run' = run /\ windows' = windows
        /\ stamps' = [stamps EXCEPT ![t][r] = clock + 1]
    BY <1>1 DEF ChangeRow
  <2>2. \A u \in IncTables : Reading(u)' <=> Reading(u)
    BY <2>1 DEF Reading, Doing
  <2>3. clock + 1 \notin Stamps(windows[t], run.until)
    BY RunIs DEF Stamps, IncTypeInv, RunOK
  <2>4. stamps'[t][r] = clock + 1
    BY <2>1 DEF IncTypeInv, RowStamps
  <2>5. ASSUME NEW u \in IncTables, NEW q \in IncRows, u # t \/ q # r
        PROVE  stamps'[u][q] = stamps[u][q]
    BY <2>1, <2>5 DEF IncTypeInv, RowStamps
  <2>6. ASSUME NEW u \in IncTables, NEW q \in IncRows,
               Reading(u)' /\ Alone1(u)' /\ stamps'[u][q] \in Stamps(windows[u], run.until)
        PROVE  Underway(u, q)'
    <3>1. u # t \/ q # r
      BY <2>3, <2>4, <2>6
    <3>2. stamps'[u][q] = stamps[u][q]
      BY <2>5, <3>1
    <3>3. Underway(u, q)
      BY <1>0, <2>2, <2>6, <3>2 DEF ReadInv
    <3> QED BY <2>1, <3>2, <3>3 DEF Underway
  <2>7. \A u \in IncTables : Stamps(windows'[u], run'.until) = Stamps(windows[u], run.until)
    BY <2>1
  <2>8. \A u \in IncTables : Stamps(windows[u], run.until)' = Stamps(windows[u], run.until)
    BY <2>1
  <2> QED BY <2>6, <2>8 DEF ReadInv
<1>2. CASE StartIncremental \/ EndIncremental \/ CrashIncremental
  <2>1. CASE StartIncremental
    <3>1. run' = [NoRun EXCEPT !.active = TRUE, !.todo = Sorted(IncTables)]
      BY <2>1 DEF StartIncremental
    <3>2. ~run'.reading
      BY <3>1 DEF NoRun
    <3> QED BY <3>2 DEF ReadInv, Reading
  <2>2. CASE EndIncremental \/ CrashIncremental
    <3>1. run' = NoRun
      BY <2>2 DEF EndIncremental, CrashIncremental
    <3>2. ~run'.reading
      BY <3>1 DEF NoRun
    <3> QED BY <3>2 DEF ReadInv, Reading
  <2> QED BY <1>2, <2>1, <2>2
<1>3. ASSUME NEW t \in IncTables, NEW status, Done(t, status) PROVE ReadInv'
  <2>1. ~run'.reading
    BY <1>3, RunIs DEF Done, IncTypeInv
  <2> QED BY <2>1 DEF ReadInv, Reading
<1>4. ASSUME NEW t \in IncTables, QueryRows(t) PROVE ReadInv'
  <2> DEFINE found == RowsWithin(t, Watermark(t))
             batch == [i \in 1 .. Len(found) |-> <<found[i], stamps[t][found[i]]>>]
  <2>1. run'.rows = batch /\ run'.until = clock /\ run'.todo = run.todo
    BY <1>4, RunIs DEF QueryRows, IncTypeInv
  <2>2. windows' = windows /\ stamps' = stamps /\ Doing(t) /\ Watermark(t) # NoWindow
    BY <1>4 DEF QueryRows
  <2>3. ASSUME NEW u \in IncTables, NEW r \in IncRows, Reading(u)', Alone1(u)',
               stamps'[u][r] \in Stamps(windows'[u], run'.until)
        PROVE  Underway(u, r)'
    <3>1. u = t
      BY <2>1, <2>2, <2>3 DEF Reading, Doing
    <3>2. Watermark(t) = windows[t]
      BY <1>0, <2>2, <2>3, <3>1, OwnWatermark
    <3>3. Within(stamps[t][r], Watermark(t))
      BY <2>2, <2>3, <3>1, <3>2 DEF Stamps
    <3>4. Len(found) \in Nat /\ \E i \in 1 .. Len(found) : found[i] = r
      <4>1. /\ found \in Seq({q \in IncRows : Within(stamps[t][q], Watermark(t))})
            /\ \A q \in {p \in IncRows : Within(stamps[t][p], Watermark(t))} :
                 \E i \in 1 .. Len(found) : found[i] = q
        BY RowsWithinEnumerates, SMTT(30)
      <4> HIDE DEF found
      <4> QED BY <3>3, <4>1, LenProperties
    <3> HIDE DEF found
    <3>5. Len(batch) = Len(found) /\ \A i \in 1 .. Len(found) : batch[i][1] = found[i]
      BY <3>4
    <3>6. \E i \in 1 .. Len(batch) : batch[i][1] = r
      BY <3>4, <3>5
    <3> HIDE DEF batch
    <3> QED BY <2>1, <3>6 DEF Underway
  <2>4. \A u \in IncTables : Stamps(windows[u], run.until)' = Stamps(windows'[u], run'.until)
    OBVIOUS
  <2> QED BY <2>3, <2>4 DEF ReadInv
<1>5. ASSUME NEW t \in IncTables, UpsertBatch(t) PROVE ReadInv'
  <2> DEFINE rest == SubSeq(run.rows, BatchLength + 1, Len(run.rows))
             open == Upserted(t, BatchLength)
  <2>1. /\ run'.todo = run.todo /\ run'.active = run.active /\ run'.reading = run.reading
        /\ run'.until = run.until /\ run'.rows = rest
    BY <1>5, RunIs DEF UpsertBatch, IncTypeInv
  <2>2. BatchLength \in 0 .. Len(run.rows) /\ Len(run.rows) \in Nat
    <3>1. BatchLength \in 1 .. Len(run.rows) /\ Len(run.rows) \in Nat
      BY <1>5, Batch, RunIs DEF UpsertBatch, IncTypeInv
    <3> QED BY <3>1
  <2>3. stamps' = stamps /\ windows' = windows /\ Reading(t)
    BY <1>5 DEF UpsertBatch
  <2>4. \/ copied' = Committed(open) /\ opened' = NoneOpen
        \/ copied' = copied /\ opened' = open
    BY <1>5 DEF UpsertBatch
  <2>5. Fresh(open)
    BY <2>2, <2>3, UpsertedFresh
  <2>6. open \in RowStamps /\ \A u \in IncTables, r \in IncRows : open[u][r] <= clock
    BY <2>2, UpsertedRows
  <2>7. \A r \in IncRows :
          \/ \E i \in 1 .. BatchLength : run.rows[i][1] = r /\ open[t][r] = run.rows[i][2]
          \/ (\A i \in 1 .. BatchLength : run.rows[i][1] # r) /\ open[t][r] = opened[t][r]
    BY <2>2, UpsertedRows
  <2>8. \A i \in 1 .. Len(run.rows) :
          i > BatchLength => i - BatchLength \in 1 .. Len(rest) /\ rest[i - BatchLength] = run.rows[i]
    BY <2>2, RestOfRows DEF IncTypeInv
  <2> HIDE DEF open, rest
  <2>9. ASSUME NEW u \in IncTables, NEW r \in IncRows, Reading(u)', Alone1(u)',
               stamps'[u][r] \in Stamps(windows'[u], run'.until)
        PROVE  Underway(u, r)'
    <3>1. u = t
      BY <2>1, <2>3, <2>9 DEF Reading, Doing
    <3>2. stamps[t][r] \in Stamps(windows[t], run.until) /\ Alone1(t)
      BY <1>0, <2>1, <2>3, <2>9, <3>1
    <3>3. Underway(t, r)
      BY <2>3, <3>2 DEF ReadInv
    <3>4. Current(t, r)
      <4>1. stamps[t][r] <= run.until
        BY <3>2 DEF Stamps
      <4> QED BY <2>3, <4>1 DEF Current
    <3>5. \/ copied[t][r] = stamps[t][r] \/ open[t][r] = stamps[t][r]
          \/ \E i \in 1 .. Len(rest) : rest[i][1] = r
      <4>1. ASSUME NEW i \in 1 .. BatchLength, run.rows[i][1] = r, open[t][r] = run.rows[i][2]
            PROVE  open[t][r] = stamps[t][r]
        <5>1. i \in 1 .. Len(run.rows)
          BY <2>2
        <5> QED BY <2>3, <3>4, <4>1, <5>1 DEF FreshInv
      <4>2. ASSUME \A i \in 1 .. BatchLength : run.rows[i][1] # r, open[t][r] = opened[t][r],
                   copied[t][r] # stamps[t][r], open[t][r] # stamps[t][r]
            PROVE  \E i \in 1 .. Len(rest) : rest[i][1] = r
        <5>1. PICK i \in 1 .. Len(run.rows) : run.rows[i][1] = r
          BY <3>3, <4>2 DEF Underway
        <5>2. i > BatchLength
          BY <2>2, <4>2, <5>1
        <5> QED BY <2>8, <5>1, <5>2
      <4> QED BY <2>7, <4>1, <4>2
    <3>6. CASE \E i \in 1 .. Len(rest) : rest[i][1] = r
      BY <2>1, <3>1, <3>6 DEF Underway
    <3>7. CASE copied[t][r] = stamps[t][r] \/ open[t][r] = stamps[t][r]
      <4>1. CASE copied' = copied /\ opened' = open
        BY <2>3, <3>1, <3>7, <4>1 DEF Underway
      <4>2. CASE copied' = Committed(open) /\ opened' = NoneOpen
        <5>1. copied'[t][r] = stamps[t][r]
          BY <2>5, <2>6, <3>4, <3>7, <4>2, CommittedFresh
        <5> QED BY <2>3, <3>1, <5>1 DEF Underway
      <4> QED BY <2>4, <4>1, <4>2
    <3> QED BY <3>5, <3>6, <3>7
  <2>10. \A u \in IncTables : Stamps(windows[u], run.until)' = Stamps(windows'[u], run'.until)
    OBVIOUS
  <2> QED BY <2>9, <2>10 DEF ReadInv
<1>6. ASSUME NEW t \in IncTables, TableStep(t) PROVE ReadInv'
  BY <1>3, <1>4, <1>5, <1>6 DEF TableStep, SkipTable, FinishTable, ReadFailure, UpsertFailure, BrokenUpsert,
                               CommitFailure, BatchCommitFailure, CommitIsLost
<1>7. CASE UNCHANGED incVars
  <2>1. /\ stamps' = stamps /\ opened' = opened /\ copied' = copied /\ run' = run /\ windows' = windows
    BY <1>7 DEF incVars
  <2>2. \A u \in IncTables : Reading(u)' <=> Reading(u)
    BY <2>1 DEF Reading, Doing
  <2>3. \A u \in IncTables, r \in IncRows : Underway(u, r)' <=> Underway(u, r)
    BY <2>1 DEF Underway
  <2>4. \A u \in IncTables : Stamps(windows[u], run.until)' = Stamps(windows[u], run.until)
    BY <2>1
  <2> QED BY <1>0, <2>1, <2>2, <2>3, <2>4 DEF ReadInv
<1> QED BY <1>1, <1>2, <1>6, <1>7 DEF IncrementalNext

LEMMA CoveredNext ==
  ASSUME IncrementalAssumption, IncTypeInv, OpenInv, FreshInv, ReadInv, CompletedWindowsAreCopied,
         [IncrementalNext]_incVars
  PROVE  CompletedWindowsAreCopied'
<1> DEFINE Good(t, r) == stamps[t][r] \in covered[t] => copied[t][r] = stamps[t][r]
<1>0. SUFFICES ASSUME NEW t \in IncTables, Alone1(t), NEW r \in IncRows, stamps'[t][r] \in covered'[t]
               PROVE  copied'[t][r] = stamps'[t][r]
  BY DEF CompletedWindowsAreCopied, Alone1
<1>1. Good(t, r)
  BY <1>0 DEF CompletedWindowsAreCopied, Alone1
<1> DEFINE Goal == copied'[t][r] = stamps'[t][r]
<1>2. ASSUME copied' = copied, stamps' = stamps, covered' = covered PROVE Goal
  BY <1>0, <1>1, <1>2
<1>3. ASSUME NEW open \in RowStamps, \A u \in IncTables, q \in IncRows : open[u][q] <= clock, Fresh(open),
             copied' = Committed(open), stamps' = stamps, covered' = covered
      PROVE  Goal
  <2>1. Current(t, r) /\ copied[t][r] = stamps[t][r]
    BY <1>0, <1>1, <1>3 DEF Current
  <2> QED BY <1>3, <2>1, CommittedFresh
<1>4. /\ opened \in RowStamps /\ Fresh(opened)
      /\ \A u \in IncTables, q \in IncRows : opened[u][q] <= clock
  BY OthersFresh DEF IncTypeInv
<1>5. ASSUME NEW u \in IncTables, NEW q \in IncRows, ChangeRow(u, q) PROVE Goal
  <2>1. copied' = copied /\ covered' = covered /\ stamps' = [stamps EXCEPT ![u][q] = clock + 1]
    BY <1>5 DEF ChangeRow
  <2>2. clock + 1 \notin covered[t]
    BY DEF IncTypeInv
  <2>3. stamps'[t][r] = stamps[t][r] \/ stamps'[t][r] = clock + 1
    BY <2>1 DEF IncTypeInv, RowStamps
  <2> QED BY <1>0, <1>1, <2>1, <2>2, <2>3
<1>6. CASE StartIncremental \/ EndIncremental \/ CrashIncremental \/ UNCHANGED incVars
  BY <1>2, <1>6 DEF StartIncremental, EndIncremental, CrashIncremental, incVars
<1>7. ASSUME NEW u \in IncTables, TableStep(u) PROVE Goal
  <2>1. CASE SkipTable(u) \/ QueryRows(u) \/ ReadFailure(u) \/ UpsertFailure(u) \/ BrokenUpsert(u)
    BY <1>2, <2>1 DEF SkipTable, QueryRows, ReadFailure, UpsertFailure, BrokenUpsert
  <2>2. CASE UpsertBatch(u) \/ BatchCommitFailure(u)
    <3>1. /\ copied' = copied \/ copied' = Committed(Upserted(u, BatchLength))
          /\ stamps' = stamps /\ covered' = covered /\ Reading(u) /\ run.rows # << >>
      BY <2>2 DEF UpsertBatch, BatchCommitFailure, CommitIsLost
    <3>2. BatchLength \in 0 .. Len(run.rows)
      <4>1. BatchLength \in 1 .. Len(run.rows) /\ Len(run.rows) \in Nat
        BY <3>1, Batch, RunIs DEF IncTypeInv
      <4> QED BY <4>1
    <3>3. /\ Upserted(u, BatchLength) \in RowStamps /\ Fresh(Upserted(u, BatchLength))
          /\ \A v \in IncTables, q \in IncRows : Upserted(u, BatchLength)[v][q] <= clock
      BY <3>1, <3>2, UpsertedRows, UpsertedFresh
    <3> QED BY <1>2, <1>3, <3>1, <3>3
  <2>3. CASE CommitFailure(u)
    <3>1. copied' \in {copied, Committed(opened)} /\ stamps' = stamps /\ covered' = covered
      BY <2>3 DEF CommitFailure, CommitIsLost
    <3> QED BY <1>2, <1>3, <1>4, <3>1
  <2>4. CASE FinishTable(u)
    <3>1. /\ stamps' = stamps /\ covered' = [covered EXCEPT ![u] = @ \cup Stamps(windows[u], run.until)]
          /\ copied' = IF run.uncommitted > 0 THEN Committed(opened) ELSE copied
          /\ Reading(u) /\ run.rows = << >>
      BY <2>4 DEF FinishTable
    <3>2. CASE stamps[t][r] \in covered[t]
      <4>1. Current(t, r) /\ copied[t][r] = stamps[t][r]
        BY <1>1, <3>2 DEF Current
      <4> QED BY <1>4, <3>1, <4>1, CommittedFresh
    <3>3. CASE stamps[t][r] \notin covered[t]
      <4>1. u = t /\ stamps[t][r] \in Stamps(windows[t], run.until)
        BY <1>0, <3>1, <3>3 DEF IncTypeInv
      <4>2. Current(t, r)
        <5>1. stamps[t][r] <= run.until
          BY <4>1 DEF Stamps
        <5> QED BY <3>1, <4>1, <5>1 DEF Current
      <4>3. copied[t][r] = stamps[t][r] \/ opened[t][r] = stamps[t][r]
        <5>1. Underway(t, r)
          BY <1>0, <3>1, <4>1 DEF ReadInv
        <5> QED BY <3>1, <5>1, EmptySeq DEF Underway
      <4>4. CASE run.uncommitted > 0
        BY <1>4, <3>1, <4>2, <4>3, <4>4, CommittedFresh
      <4>5. CASE ~(run.uncommitted > 0)
        <5>1. run.todo \in Seq(IncTables) /\ run.todo # << >> /\ Head(run.todo) = t
          BY <3>1, <4>1, RunIs DEF Reading, Doing, IncTypeInv
        <5>2. 1 \in 1 .. Len(run.todo) /\ run.todo[1] = t
          BY <5>1, EmptySeq, LenProperties
        <5>3. opened[t] = NoneOpen[t]
          BY <4>5, <5>2 DEF OpenInv, OnceEach
        <5>4. opened[t][r] = 0 /\ stamps[t][r] # 0
          BY <5>3, NoneOpenRows DEF IncTypeInv, RowStamps
        <5> QED BY <3>1, <4>3, <4>5, <5>4
      <4> QED BY <4>4, <4>5
    <3> QED BY <3>2, <3>3
  <2> QED BY <1>7, <2>1, <2>2, <2>3, <2>4 DEF TableStep
<1> QED BY <1>5, <1>6, <1>7 DEF IncrementalNext

(* CompletedWindowsAreCopied: a row whose last change lies in a window     *)
(* that was reported as completed is in the target and committed, for any  *)
(* windows, commit interval and batch size, whatever the source does       *)
(* meanwhile and whichever tables fail (core/incremental.py).              *)
THEOREM CompletedWindowsHold ==
  ASSUME IncrementalAssumption
  PROVE  IncrementalSpec => []CompletedWindowsAreCopied
<1> DEFINE IInv == OpenInv /\ FreshInv /\ ReadInv /\ CompletedWindowsAreCopied
<1>1. IncrementalInit => IInv
  <2> SUFFICES ASSUME IncrementalInit PROVE IInv
    OBVIOUS
  <2>1. opened = NoneOpen /\ run = NoRun /\ covered = [t \in IncTables |-> {}]
    BY DEF IncrementalInit
  <2>2. ~run.active /\ ~run.reading
    BY <2>1 DEF NoRun
  <2>3. OnceEach
    BY <2>1, EmptySeq DEF OnceEach, NoRun
  <2>4. \A t \in IncTables, r \in IncRows : opened[t][r] = 0
    BY <2>1, NoneOpenRows
  <2>5. \A t \in IncTables : ~Reading(t)
    BY <2>2 DEF Reading
  <2>6. OpenInv
    BY <2>1, <2>3 DEF OpenInv
  <2>7. FreshInv
    BY <2>4, <2>5 DEF FreshInv
  <2>8. ReadInv
    BY <2>5 DEF ReadInv
  <2>9. CompletedWindowsAreCopied
    BY <2>1 DEF CompletedWindowsAreCopied
  <2> QED BY <2>6, <2>7, <2>8, <2>9
<1>2. IncTypeInv /\ IInv /\ [IncrementalNext]_incVars => IInv'
  BY OpenNext, FreshNext, ReadNext, CoveredNext
<1>3. IInv => CompletedWindowsAreCopied
  OBVIOUS
<1> HIDE DEF IInv
<1> QED BY <1>1, <1>2, <1>3, IncTypes, PTL DEF IncrementalSpec


-----------------------------------------------------------------------------
(* Validation: statement by statement.  What is known meanwhile:           *)

Parts == {"row_count", "checksum"}
Sides == {"source", "target"}
Verdicts == {"none", "reading", "skipped", "failed", "mismatched", "matched"}

ValTypeInv ==
  /\ rows \in [source : Contents, target : Contents \cup {NoRows}]
  /\ choice \in Requests
  /\ artifacts \in BOOLEAN
  /\ link \in [Sides -> {"none", "open", "broken"}]
  /\ attempt \in Nat \ {0}
  /\ (\E A : got \in Seq(A)) /\ Len(got) \in 0 .. Len(Queries)
  /\ verdict \in [{"row_count", "checksum", "report"} -> Verdicts]
  /\ losses \in Seq(Sides)
  /\ foreign \in Nat

(* A broken connection is noticed once: by then it has cost one attempt.   *)
Broken(side) == IF link[side] = "broken" THEN 1 ELSE 0

LossInv ==
  /\ (attempt - 1) + Broken("source") + Broken("target") <= Len(losses)
  /\ \A side \in Sides : link[side] = "broken" => \E i \in DOMAIN losses : losses[i] = side

LEMMA QueriesAre ==
  /\ Len(Counts) = 2 /\ Len(Queries) = 6
  /\ \A i \in 1 .. 6 : Queries[i].side \in Sides
  /\ \A i \in 1 .. 6 : Part(i) \in Parts
  /\ Queries[1] = Query("count", "source") /\ Queries[2] = Query("count", "target")
  /\ Queries[3] = Query("first", "source") /\ Queries[4] = Query("last", "source")
  /\ Queries[5] = Query("first", "target") /\ Queries[6] = Query("last", "target")
<1>1. Len(Counts) = 2 /\ Counts[1] = Query("count", "source") /\ Counts[2] = Query("count", "target")
  BY DEF Counts
<1>2. /\ Len(Samples) = 4
      /\ Samples[1] = Query("first", "source") /\ Samples[2] = Query("last", "source")
      /\ Samples[3] = Query("first", "target") /\ Samples[4] = Query("last", "target")
  BY DEF Samples
<1> DEFINE Q == {Query(w, s) : w \in {"count", "first", "last"}, s \in Sides}
<1>3. Counts \in Seq(Q) /\ Samples \in Seq(Q)
  BY DEF Counts, Samples, Sides
<1> HIDE DEF Q
<1>4. /\ Len(Queries) = 6
      /\ \A i \in 1 .. 6 : Queries[i] = IF i <= 2 THEN Counts[i] ELSE Samples[i - 2]
  <2>1. /\ Len(Queries) = Len(Counts) + Len(Samples)
        /\ \A i \in 1 .. Len(Counts) + Len(Samples) :
             Queries[i] = IF i <= Len(Counts) THEN Counts[i] ELSE Samples[i - Len(Counts)]
    BY <1>3, ConcatProperties DEF Queries
  <2>2. Len(Counts) + Len(Samples) = 6
    BY <1>1, <1>2
  <2> QED BY <1>1, <2>1, <2>2
<1>5. /\ Queries[1] = Counts[1] /\ Queries[2] = Counts[2] /\ Queries[3] = Samples[1]
      /\ Queries[4] = Samples[2] /\ Queries[5] = Samples[3] /\ Queries[6] = Samples[4]
  BY <1>4
<1>6. \A i \in 1 .. 6 : i = 1 \/ i = 2 \/ i = 3 \/ i = 4 \/ i = 5 \/ i = 6
  OBVIOUS
<1>7. \A i \in 1 .. 6 : Queries[i].side \in Sides
  BY <1>1, <1>2, <1>5, <1>6 DEF Query, Sides
<1>8. \A i \in 1 .. 6 : Part(i) \in Parts
  BY DEF Part, Parts
<1> QED BY <1>1, <1>2, <1>4, <1>5, <1>7, <1>8

LEMMA AppendIs ==
  ASSUME NEW s, \E A : s \in Seq(A), NEW x
  PROVE  /\ \E A : Append(s, x) \in Seq(A)
         /\ Len(s) \in Nat /\ Len(Append(s, x)) = Len(s) + 1
         /\ \A i \in 1 .. Len(s) : Append(s, x)[i] = s[i]
         /\ Append(s, x)[Len(s) + 1] = x
<1>1. PICK A : s \in Seq(A)
  OBVIOUS
<1>2. s \in Seq(A \cup {x}) /\ x \in A \cup {x}
  BY <1>1, SeqMonotonic
<1> HIDE <1>1
<1> DEFINE B == A \cup {x}
<1>3. s \in Seq(B) /\ x \in B
  BY <1>2
<1> HIDE DEF B
<1>4. Append(s, x) \in Seq(B)
  BY <1>3, AppendProperties
<1> QED BY <1>3, <1>4, AppendProperties, LenProperties

LEMMA SomeSide == ASSUME ValTypeInv, Reading1
                  PROVE  /\ Next1 \in 1 .. 6 /\ Queries[Next1].side \in Sides /\ Part(Next1) \in Parts
                         /\ Len(got) \in Nat
<1>1. Len(got) \in 0 .. 6 /\ Next1 <= 6
  BY QueriesAre DEF ValTypeInv, Reading1
<1>2. Next1 \in 1 .. 6
  BY <1>1 DEF Next1
<1> QED BY <1>1, <1>2, QueriesAre

LEMMA PartVerdictIs ==
  ASSUME NEW p, NEW a
  PROVE  PartVerdict(p, a) \in {"matched", "mismatched"}
BY DEF PartVerdict

LEMMA ReportVerdictIs == ReportVerdict \in {"failed", "mismatched", "matched"}
BY DEF ReportVerdict

LEMMA Verdict ==
  ASSUME ValTypeInv, NEW p \in {"row_count", "checksum", "report"}, NEW v \in Verdicts
  PROVE  /\ [verdict EXCEPT ![p] = v] \in [{"row_count", "checksum", "report"} -> Verdicts]
         /\ [verdict EXCEPT ![p] = v][p] = v
         /\ \A q \in {"row_count", "checksum", "report"} \ {p} : [verdict EXCEPT ![p] = v][q] = verdict[q]
BY DEF ValTypeInv

(* The next answer.                                                        *)
LEMMA Answered ==
  ASSUME ValTypeInv, Reading1, NEW x, got' = Append(got, x)
  PROVE  /\ \E A : got' \in Seq(A)
         /\ Len(got') = Next1 /\ Len(got') \in 0 .. Len(Queries)
         /\ \A i \in 1 .. Len(got) : got'[i] = got[i]
         /\ got'[Next1] = x
<1>1. \E A : got \in Seq(A)
  BY DEF ValTypeInv
<1>2. /\ \E A : got' \in Seq(A)
      /\ Len(got') = Len(got) + 1
      /\ \A i \in 1 .. Len(got) : got'[i] = got[i]
      /\ got'[Len(got) + 1] = x
  BY <1>1, AppendIs
<1>3. Next1 \in 1 .. 6 /\ Len(got) \in Nat
  BY SomeSide
<1> QED BY <1>2, <1>3, QueriesAre DEF Next1

LEMMA ValTypeNext ==
  ASSUME ValidationAssumption, ValTypeInv, [ValidationNext]_valVars
  PROVE  ValTypeInv'
<1> DEFINE V == [{"row_count", "checksum", "report"} -> Verdicts]
<1>1. CASE UNCHANGED valVars
  BY <1>1 DEF valVars, ValTypeInv
<1>2. CASE LoadEvidence
  <2>1. verdict' \in V
    BY <1>2, Verdict DEF LoadEvidence, Verdicts
  <2>2. artifacts' \in BOOLEAN /\ UNCHANGED <<rows, choice, link, attempt, got, losses, foreign>>
    BY <1>2 DEF LoadEvidence
  <2> QED BY <2>1, <2>2 DEF ValTypeInv
<1>3. CASE PassOver
  <2>1. Reading1 /\ got' = Append(got, 0) /\ attempt' = 1
        /\ UNCHANGED <<rows, choice, artifacts, objects, link, losses, foreign>>
    BY <1>3 DEF PassOver
  <2>2. verdict' = verdict \/ verdict' = [verdict EXCEPT ![Part(Next1)] = "skipped"]
    BY <1>3 DEF PassOver
  <2>3. verdict' \in V
    <3>1. Part(Next1) \in {"row_count", "checksum", "report"}
      BY <2>1, SomeSide DEF Parts
    <3>2. verdict \in V
      BY DEF ValTypeInv
    <3> QED BY <2>2, <3>1, <3>2, Verdict DEF Verdicts
  <2>4. (\E A : got' \in Seq(A)) /\ Len(got') \in 0 .. Len(Queries)
    BY <2>1, Answered
  <2> QED BY <2>1, <2>3, <2>4 DEF ValTypeInv
<1>4. CASE ReadRows
  <2> DEFINE q == Queries[Next1]
  <2>1. Reading1 /\ got' = Append(got, Answer(q)) /\ attempt' = 1
        /\ link' = [link EXCEPT ![q.side] = "open"]
        /\ UNCHANGED <<rows, choice, artifacts, objects, losses, foreign>>
    BY <1>4 DEF ReadRows, Asked
  <2>2. \/ verdict' = verdict
        \/ verdict' = [verdict EXCEPT ![Part(Next1)] = PartVerdict(Part(Next1), got')]
    BY <1>4 DEF ReadRows
  <2>3. verdict' \in V
    <3>1. Part(Next1) \in {"row_count", "checksum", "report"}
      BY <2>1, SomeSide DEF Parts
    <3>2. verdict \in V
      BY DEF ValTypeInv
    <3>3. PartVerdict(Part(Next1), got') \in Verdicts
      BY PartVerdictIs DEF Verdicts
    <3> QED BY <2>2, <3>1, <3>2, <3>3, Verdict
  <2>4. (\E A : got' \in Seq(A)) /\ Len(got') \in 0 .. Len(Queries)
    BY <2>1, Answered
  <2>5. link' \in [Sides -> {"none", "open", "broken"}]
    BY <2>1 DEF ValTypeInv
  <2> QED BY <2>1, <2>3, <2>4, <2>5 DEF ValTypeInv
<1>5. CASE ReadRefused
  <2> DEFINE q == Queries[Next1]
  <2>1. Reading1 /\ UNCHANGED <<rows, choice, artifacts, objects, losses, foreign>>
    BY <1>5 DEF ReadRefused, Asked
  <2>2. link' \in [Sides -> {"none", "open", "broken"}]
    BY <1>5 DEF ReadRefused, Forget, ValTypeInv
  <2>3. \/ attempt' = attempt + 1 /\ got' = got /\ verdict' = verdict
        \/ attempt' = 1 /\ got' = Append(got, 0) /\ verdict' = [verdict EXCEPT ![Part(Next1)] = "failed"]
    BY <1>5 DEF ReadRefused
  <2>4. Part(Next1) \in {"row_count", "checksum", "report"}
    BY <2>1, SomeSide DEF Parts
  <2>5. CASE attempt' = attempt + 1 /\ got' = got /\ verdict' = verdict
    BY <2>1, <2>2, <2>5 DEF ValTypeInv
  <2>6. CASE attempt' = 1 /\ got' = Append(got, 0) /\ verdict' = [verdict EXCEPT ![Part(Next1)] = "failed"]
    <3>1. (\E A : got' \in Seq(A)) /\ Len(got') \in 0 .. Len(Queries)
      BY <2>1, <2>6, Answered
    <3>2. verdict' \in V
      BY <2>4, <2>6, Verdict DEF Verdicts
    <3> QED BY <2>1, <2>2, <2>6, <3>1, <3>2 DEF ValTypeInv
  <2> QED BY <2>3, <2>5, <2>6
<1>6. CASE Conclude
  <2>1. verdict' \in V
    BY <1>6, ReportVerdictIs, Verdict DEF Conclude, Verdicts
  <2>2. UNCHANGED <<rows, choice, artifacts, objects, link, attempt, got, losses, foreign>>
    BY <1>6 DEF Conclude
  <2> QED BY <2>1, <2>2 DEF ValTypeInv
<1>7. CASE OtherWrites
  <2>1. PICK c \in Contents \cup {NoRows} : rows' = [rows EXCEPT !.target = c]
    BY <1>7 DEF OtherWrites
  <2>2. foreign' = foreign + 1
        /\ UNCHANGED <<choice, artifacts, objects, link, attempt, got, verdict, losses>>
    BY <1>7 DEF OtherWrites
  <2>3. rows' \in [source : Contents, target : Contents \cup {NoRows}]
    BY <2>1 DEF ValTypeInv
  <2> QED BY <2>2, <2>3 DEF ValTypeInv
<1>8. CASE LoseConnection
  <2>1. PICK side \in Sides : link' = [link EXCEPT ![side] = "broken"] /\ losses' = Append(losses, side)
    BY <1>8 DEF LoseConnection, Sides
  <2>2. UNCHANGED <<rows, choice, artifacts, objects, attempt, got, verdict, foreign>>
    BY <1>8 DEF LoseConnection
  <2>3. losses' \in Seq(Sides) /\ link' \in [Sides -> {"none", "open", "broken"}]
    BY <2>1 DEF ValTypeInv
  <2> QED BY <2>2, <2>3 DEF ValTypeInv
<1> QED BY <1>1, <1>2, <1>3, <1>4, <1>5, <1>6, <1>7, <1>8 DEF ValidationNext

LEMMA ValTypeInit == ValidationInit => ValTypeInv
<1> SUFFICES ASSUME ValidationInit PROVE ValTypeInv
  OBVIOUS
<1>1. got \in Seq({}) /\ Len(got) = 0 /\ losses \in Seq(Sides)
  BY DEF ValidationInit
<1>2. Len(got) \in 0 .. Len(Queries)
  BY <1>1, QueriesAre
<1>3. \E A : got \in Seq(A)
  BY <1>1
<1>4. /\ link \in [Sides -> {"none", "open", "broken"}]
      /\ verdict \in [{"row_count", "checksum", "report"} -> Verdicts]
  BY DEF ValidationInit, Verdicts, Sides
<1>5. /\ rows \in [source : Contents, target : Contents \cup {NoRows}] /\ choice \in Requests
      /\ artifacts = FALSE /\ attempt = 1 /\ foreign = 0
  BY Zenon DEF ValidationInit
<1>6. artifacts \in BOOLEAN
  BY <1>5
<1>7. attempt \in Nat \ {0} /\ foreign \in Nat
  BY <1>5
<1> QED BY <1>1, <1>2, <1>3, <1>4, <1>5, <1>6, <1>7, Zenon DEF ValTypeInv

-----------------------------------------------------------------------------
(* Lost connections.                                                       *)

(* Without foreign writes the tables stay as they are.                     *)
LEMMA QuietRows ==
  ASSUME ValTypeInv, [ValidationNext]_valVars, foreign' = 0
  PROVE  foreign = 0 /\ rows' = rows
<1>1. ~OtherWrites
  BY DEF OtherWrites, ValTypeInv
<1> QED BY <1>1 DEF ValidationNext, valVars, LoadEvidence, PassOver, ReadRows, ReadRefused, Conclude, LoseConnection

LEMMA ChoiceStays ==
  ASSUME [ValidationNext]_valVars
  PROVE  choice' = choice
BY DEF ValidationNext, valVars, LoadEvidence, PassOver, ReadRows, ReadRefused, Conclude, LoseConnection, OtherWrites

RetryInv == ValTypeInv /\ LossInv /\ LostConnectionsAreRetried

LEMMA LossNext ==
  ASSUME ValidationAssumption, RetryInv, [ValidationNext]_valVars
  PROVE  LossInv'
<1> USE DEF RetryInv
<1>1. Len(losses) \in Nat /\ attempt \in Nat \ {0} /\ link \in [Sides -> {"none", "open", "broken"}]
  BY DEF ValTypeInv
<1>2. ASSUME attempt' = attempt \/ attempt' = 1, UNCHANGED <<link, losses>> PROVE LossInv'
  BY <1>1, <1>2 DEF LossInv, Broken
<1>3. CASE UNCHANGED valVars \/ LoadEvidence \/ PassOver \/ Conclude \/ OtherWrites
  BY <1>2, <1>3 DEF valVars, LoadEvidence, PassOver, Conclude, OtherWrites
<1>4. CASE ReadRows
  <2> DEFINE q == Queries[Next1]
  <2>1. Reading1 /\ attempt' = 1 /\ link' = [link EXCEPT ![q.side] = "open"] /\ losses' = losses
    BY <1>4 DEF ReadRows, Asked
  <2>2. q.side \in Sides
    BY <2>1, SomeSide
  <2> HIDE DEF q
  <2>3. \A side \in Sides : link'[side] = "broken" => link[side] = "broken"
    BY <1>1, <2>1, <2>2
  <2>4. "source" \in Sides /\ "target" \in Sides
    BY DEF Sides
  <2> QED BY <1>1, <2>1, <2>3, <2>4 DEF LossInv, Broken
<1>5. CASE ReadRefused
  <2> DEFINE q == Queries[Next1]
  <2>1. Reading1 /\ losses' = losses
    BY <1>5 DEF ReadRefused, Asked
  <2>2. q.side \in Sides
    BY <2>1, SomeSide
  <2>3. CASE link[q.side] = "broken" /\ attempt' = attempt + 1
    <3>1. link' = [link EXCEPT ![q.side] = "none"]
      BY <1>5, <2>3 DEF ReadRefused, Forget
    <3> HIDE DEF q
    <3>2. q.side = "source" \/ q.side = "target"
      BY <2>2 DEF Sides
    <3>3. "source" \in Sides /\ "target" \in Sides
      BY DEF Sides
    <3> QED BY <1>1, <2>1, <2>2, <2>3, <3>1, <3>2, <3>3 DEF LossInv, Broken
  <2>4. CASE attempt' = 1
    <3>1. \/ link' = [link EXCEPT ![q.side] = "none"]
          \/ link' = [link EXCEPT ![q.side] = "open"]
      BY <1>5 DEF ReadRefused, Forget
    <3> HIDE DEF q
    <3>2. \A side \in Sides : link'[side] = "broken" => link[side] = "broken"
      BY <1>1, <2>2, <3>1
    <3>3. "source" \in Sides /\ "target" \in Sides
      BY DEF Sides
    <3> QED BY <1>1, <2>1, <2>4, <3>2, <3>3 DEF LossInv, Broken
  <2>5. (link[q.side] = "broken" /\ attempt' = attempt + 1) \/ attempt' = 1
    BY <1>5 DEF ReadRefused
  <2> QED BY <2>3, <2>4, <2>5
<1>6. CASE LoseConnection
  <2>1. PICK side \in Sides : /\ link[side] # "broken"
                              /\ link' = [link EXCEPT ![side] = "broken"] /\ losses' = Append(losses, side)
    BY <1>6 DEF LoseConnection, Sides
  <2>2. attempt' = attempt
    BY <1>6 DEF LoseConnection
  <2>3. losses \in Seq(Sides)
    BY DEF ValTypeInv
  <2>4. Len(losses') = Len(losses) + 1 /\ losses'[Len(losses) + 1] = side
        /\ \A i \in 1 .. Len(losses) : losses'[i] = losses[i]
    BY <2>1, <2>3, AppendProperties
  <2>5. DOMAIN losses = 1 .. Len(losses) /\ DOMAIN losses' = 1 .. Len(losses')
    <3>1. losses' \in Seq(Sides)
      BY <2>1, <2>3
    <3> QED BY <2>3, <3>1, LenProperties
  <2>6. (attempt' - 1) + Broken("source")' + Broken("target")' <= Len(losses')
    <3>1. side = "source" \/ side = "target"
      BY DEF Sides
    <3>2. "source" \in Sides /\ "target" \in Sides
      BY DEF Sides
    <3> QED BY <1>1, <2>1, <2>2, <2>4, <3>1, <3>2 DEF LossInv, Broken
  <2>7. ASSUME NEW s \in Sides, link'[s] = "broken" PROVE \E i \in DOMAIN losses' : losses'[i] = s
    <3>1. CASE s = side
      BY <1>1, <2>4, <2>5, <3>1
    <3>2. CASE s # side
      <4>1. link[s] = "broken"
        BY <1>1, <2>1, <2>7, <3>2
      <4>2. PICK i \in DOMAIN losses : losses[i] = s
        BY <4>1 DEF LossInv
      <4> QED BY <1>1, <2>4, <2>5, <4>2
    <3> QED BY <3>1, <3>2
  <2> QED BY <2>6, <2>7 DEF LossInv
<1> QED BY <1>3, <1>4, <1>5, <1>6 DEF ValidationNext

LEMMA RetryNext ==
  ASSUME ValidationAssumption, RetryInv, [ValidationNext]_valVars
  PROVE  LostConnectionsAreRetried'
<1> USE DEF RetryInv
<1> SUFFICES ASSUME Len(losses') < Attempts, foreign' = 0, rows'.target # NoRows,
                    \A i \in DOMAIN losses' : choice'.dbms[losses'[i]] = "postgresql",
                    NEW p \in Parts
             PROVE  verdict'[p] # "failed"
  BY DEF LostConnectionsAreRetried, Parts
<1>1. foreign = 0 /\ rows' = rows /\ choice' = choice
  BY QuietRows, ChoiceStays
<1>2. losses \in Seq(Sides) /\ Len(losses) \in Nat /\ DOMAIN losses = 1 .. Len(losses)
  BY LenProperties DEF ValTypeInv
<1>3. Len(losses) < Attempts /\ \A i \in DOMAIN losses : choice.dbms[losses[i]] = "postgresql"
  <2>1. CASE losses' = losses
    BY <1>1, <2>1
  <2>2. CASE losses' # losses
    <3>1. PICK side \in Sides : losses' = Append(losses, side)
      BY <2>2 DEF ValidationNext, valVars, LoadEvidence, PassOver, ReadRows, ReadRefused, Conclude,
                  OtherWrites, LoseConnection, Sides
    <3>2. /\ Len(losses') = Len(losses) + 1
          /\ \A i \in 1 .. Len(losses) : losses'[i] = losses[i]
      BY <1>2, <3>1, AppendProperties
    <3>3. losses' \in Seq(Sides)
      BY <1>2, <3>1
    <3>4. DOMAIN losses' = 1 .. Len(losses')
      BY <3>3, LenProperties
    <3> QED BY <1>1, <1>2, <3>2, <3>4 DEF Attempts
  <2> QED BY <2>1, <2>2
<1>4. verdict[p] # "failed"
  BY <1>1, <1>3 DEF LostConnectionsAreRetried, Parts
<1>5. ASSUME NEW r \in {"row_count", "checksum", "report"}, NEW v \in Verdicts,
             verdict' = [verdict EXCEPT ![r] = v], r = "report" \/ v # "failed"
      PROVE  verdict'[p] # "failed"
  <2>1. p \in {"row_count", "checksum", "report"} /\ p # "report"
    BY DEF Parts
  <2> QED BY <1>4, <1>5, <2>1, Verdict
<1>6. CASE UNCHANGED valVars \/ OtherWrites \/ LoseConnection
  BY <1>4, <1>6 DEF valVars, OtherWrites, LoseConnection
<1>7. CASE LoadEvidence
  BY <1>5, <1>7 DEF LoadEvidence, Verdicts
<1>8. CASE Conclude
  BY <1>5, <1>8, ReportVerdictIs DEF Conclude, Verdicts
<1>9. CASE PassOver
  <2>1. Part(Next1) \in {"row_count", "checksum", "report"}
    BY <1>9, SomeSide DEF PassOver, Parts
  <2> QED BY <1>4, <1>5, <1>9, <2>1 DEF PassOver, Verdicts
<1>10. CASE ReadRows
  <2>1. Part(Next1) \in {"row_count", "checksum", "report"}
    BY <1>10, SomeSide DEF ReadRows, Asked, Parts
  <2>2. PartVerdict(Part(Next1), got') \in Verdicts /\ PartVerdict(Part(Next1), got') # "failed"
    BY PartVerdictIs DEF Verdicts
  <2>3. verdict' = verdict \/ verdict' = [verdict EXCEPT ![Part(Next1)] = PartVerdict(Part(Next1), got')]
    BY <1>10 DEF ReadRows
  <2> QED BY <1>4, <1>5, <2>1, <2>2, <2>3
<1>11. CASE ReadRefused
  <2> DEFINE q == Queries[Next1]
  <2>1. q.side \in Sides
    BY <1>11, SomeSide DEF ReadRefused, Asked
  <2>2. rows[q.side] # NoRows
    <3>1. rows.source \in Contents /\ rows.target # NoRows
      BY <1>1 DEF ValTypeInv
    <3>2. NoRows \notin Contents
      BY DEF ValidationAssumption, NoRows
    <3> QED BY <2>1, <3>1, <3>2 DEF Sides
  <2>3. link[q.side] = "broken"
    BY <1>11, <2>2 DEF ReadRefused
  <2>4. choice.dbms[q.side] = "postgresql"
    BY <1>3, <2>1, <2>3 DEF LossInv
  <2>5. attempt < Attempts
    <3>1. Broken(q.side) = 1
      BY <2>3 DEF Broken
    <3>2. Broken("source") \in {0, 1} /\ Broken("target") \in {0, 1}
      BY DEF Broken
    <3>3. Broken("source") + Broken("target") >= 1
      BY <2>1, <3>1, <3>2 DEF Sides
    <3>4. attempt \in Nat
      BY DEF ValTypeInv
    <3>5. (attempt - 1) + Broken("source") + Broken("target") <= Len(losses)
      BY DEF LossInv
    <3> QED BY <1>2, <1>3, <3>2, <3>3, <3>4, <3>5 DEF Attempts
  <2>6. verdict' = verdict
    BY <1>11, <2>3, <2>4, <2>5 DEF ReadRefused, MayRetry
  <2> QED BY <1>4, <2>6
<1> QED BY <1>6, <1>7, <1>8, <1>9, <1>10, <1>11 DEF ValidationNext

(* Fewer losses than attempts, all on the PostgreSQL side, make no part of *)
(* a validation fail, whenever and on whichever statement they come.       *)
THEOREM RetriesSuffice == ValidationSpec => []LostConnectionsAreRetried
<1> USE ValidationAssumption
<1>1. ValidationInit => RetryInv
  <2> SUFFICES ASSUME ValidationInit PROVE RetryInv
    OBVIOUS
  <2>1. ValTypeInv
    BY ValTypeInit
  <2>2. LossInv
    BY DEF ValidationInit, LossInv, Broken, Sides
  <2>3. LostConnectionsAreRetried
    BY DEF ValidationInit, LostConnectionsAreRetried
  <2> QED BY <2>1, <2>2, <2>3 DEF RetryInv
<1>2. RetryInv /\ [ValidationNext]_valVars => RetryInv'
  BY ValTypeNext, LossNext, RetryNext DEF RetryInv
<1>3. RetryInv => LostConnectionsAreRetried
  BY DEF RetryInv
<1> QED BY <1>1, <1>2, <1>3, PTL DEF ValidationSpec

-----------------------------------------------------------------------------
(* Samples.                                                                *)

LEMMA KeysAreSorted ==
  ASSUME ValidationAssumption, ValTypeInv, NEW side \in Sides, rows[side] \in Contents
  PROVE  LET K == DOMAIN rows[side]
         IN  /\ SortedKeys(side) \in Seq(K) /\ Len(SortedKeys(side)) = Cardinality(K)
             /\ \A k \in K : \E i \in 1 .. Len(SortedKeys(side)) : SortedKeys(side)[i] = k
<1> DEFINE K == DOMAIN rows[side]
           R == {p \in K \X K : KeyBefore(side, p[1], p[2])}
           before(k) == {l \in K : KeyBefore(side, l, k)}
<1>1. IsFiniteSet(K) /\ K \subseteq Nat /\ K \subseteq ToSet(choice.order)
  BY DEF ValidationAssumption, ValTypeInv
<1>2. /\ DOMAIN choice.order \subseteq Nat
      /\ \A i, j \in DOMAIN choice.order : choice.order[i] = choice.order[j] => i = j
  <2>1. choice.order \in Seq(Nat)
    BY DEF ValidationAssumption, ValTypeInv
  <2>2. DOMAIN choice.order = 1 .. Len(choice.order) /\ Len(choice.order) \in Nat
    BY <2>1, LenProperties
  <2>3. DOMAIN choice.order \subseteq Nat
    BY <2>2
  <2>4. choice \in Requests
    BY DEF ValTypeInv
  <2> QED BY <2>3, <2>4 DEF ValidationAssumption
<1>3. \A k \in K : \E i \in DOMAIN choice.order : choice.order[i] = k
  BY <1>1 DEF ToSet
<1>4. \A k, l \in K : <<k, l>> \in R <=> KeyBefore(side, k, l)
  OBVIOUS
<1>5. \A k \in K : {l \in K : <<l, k>> \in R} = before(k)
  BY <1>4
<1>6. SortedKeys(side) = [i \in 1 .. Cardinality(K) |-> CHOOSE k \in K : Cardinality(before(k)) = i - 1]
  BY DEF SortedKeys
<1> HIDE DEF R, K
<1>7. StrictOrder(K, R)
  <2>1. CASE side = "source"
    <3>1. \A k, l \in K : <<k, l>> \in R <=> k < l
      BY <1>4, <2>1 DEF KeyBefore
    <3> QED BY <1>1, <3>1 DEF StrictOrder
  <2>2. CASE side # "source"
    <3>1. \A k, l \in K : <<k, l>> \in R <=>
            \E i, j \in DOMAIN choice.order : i < j /\ choice.order[i] = k /\ choice.order[j] = l
      BY <1>4, <2>2 DEF KeyBefore
    <3>2. \A k \in K : <<k, k>> \notin R
      <4> SUFFICES ASSUME NEW k \in K, <<k, k>> \in R PROVE FALSE
        OBVIOUS
      <4>1. PICK i \in DOMAIN choice.order, j \in DOMAIN choice.order :
              i < j /\ choice.order[i] = k /\ choice.order[j] = k
        BY <3>1
      <4>2. i = j /\ i \in Nat
        BY <1>2, <4>1
      <4> QED BY <4>1, <4>2
    <3>3. ASSUME NEW k \in K, NEW l \in K, k # l PROVE <<k, l>> \in R \/ <<l, k>> \in R
      <4>1. PICK i \in DOMAIN choice.order : choice.order[i] = k
        BY <1>3
      <4>2. PICK j \in DOMAIN choice.order : choice.order[j] = l
        BY <1>3
      <4>3. i # j /\ i \in Nat /\ j \in Nat
        BY <1>2, <3>3, <4>1, <4>2
      <4>4. i < j \/ j < i
        BY <4>3
      <4> QED BY <3>1, <4>1, <4>2, <4>4
    <3>4. ASSUME NEW k \in K, NEW l \in K, NEW m \in K, <<k, l>> \in R, <<l, m>> \in R
          PROVE  <<k, m>> \in R
      <4>1. PICK i \in DOMAIN choice.order, j \in DOMAIN choice.order :
              i < j /\ choice.order[i] = k /\ choice.order[j] = l
        BY <3>1, <3>4
      <4>2. PICK h \in DOMAIN choice.order, n \in DOMAIN choice.order :
              h < n /\ choice.order[h] = l /\ choice.order[n] = m
        BY <3>1, <3>4
      <4>3. j = h /\ i \in Nat /\ j \in Nat /\ n \in Nat
        BY <1>2, <4>1, <4>2
      <4>4. i < n
        BY <4>1, <4>2, <4>3
      <4> QED BY <3>1, <4>1, <4>2, <4>4
    <3> QED BY <3>2, <3>3, <3>4 DEF StrictOrder
  <2> QED BY <2>1, <2>2
<1>8. \A k \in K : RankBy(k, K, R) = Cardinality(before(k))
  BY <1>5 DEF RankBy
<1>9. ByRank(K, R) = SortedKeys(side)
  <2> HIDE DEF before
  <2>1. \A i \in 1 .. Cardinality(K) :
          (CHOOSE k \in K : RankBy(k, K, R) = i - 1) = CHOOSE k \in K : Cardinality(before(k)) = i - 1
    BY <1>8
  <2>2. ByRank(K, R) = [i \in 1 .. Cardinality(K) |-> CHOOSE k \in K : RankBy(k, K, R) = i - 1]
    BY DEF ByRank
  <2> QED BY <1>6, <2>1, <2>2
<1>10. /\ ByRank(K, R) \in Seq(K) /\ Len(ByRank(K, R)) = Cardinality(K)
       /\ \A k \in K : \E i \in 1 .. Len(ByRank(K, R)) : ByRank(K, R)[i] = k
  BY <1>1, <1>7, ByRankEnumerates
<1> QED BY <1>9, <1>10 DEF K

(* All that there is to show of a table.                                   *)
ShownRows(side) == {Shown(side, k) : k \in DOMAIN rows[side]}
Sampled(side) == ToSet(SampleRows(side, "first")) \cup ToSet(SampleRows(side, "last"))

LEMMA SamplesCover ==
  ASSUME ValidationAssumption, ValTypeInv, NEW side \in Sides, rows[side] \in Contents
  PROVE  LET n == Cardinality(DOMAIN rows[side])
         IN  /\ Sampled(side) \subseteq ShownRows(side)
             /\ n <= 2 * SampleSize => Sampled(side) = ShownRows(side)
             /\ n <= SampleSize => ToSet(SampleRows(side, "first")) = ShownRows(side)
             /\ \E A : SampleRows(side, "first") \in Seq(A) /\ SampleRows(side, "last") \in Seq(A)
<1> DEFINE K == DOMAIN rows[side]
           keys == SortedKeys(side)
           n == Len(keys)
           m == IF SampleSize < n THEN SampleSize ELSE n
           all == {Shown(side, k) : k \in K}
<1>1. keys \in Seq(K) /\ n = Cardinality(K) /\ \A k \in K : \E i \in 1 .. n : keys[i] = k
  BY KeysAreSorted
<1>2. n \in Nat /\ SampleSize \in Nat /\ \A i \in 1 .. n : keys[i] \in K
  BY <1>1, LenProperties, ElementOfSeq DEF ValidationAssumption
<1>3. Len(Reverse(keys)) = n /\ \A i \in 1 .. n : Reverse(keys)[i] = keys[n - i + 1]
  <2>1. Reverse(keys) = [i \in 1 .. Len(keys) |-> keys[(Len(keys) - i) + 1]]
    BY DEF Reverse
  <2> HIDE DEF keys
  <2> QED BY <1>2, <2>1
<1>4. SampleRows(side, "first") = [i \in 1 .. m |-> Shown(side, keys[i])]
  BY DEF SampleRows
<1>5. SampleRows(side, "last") = [i \in 1 .. m |-> Shown(side, Reverse(keys)[i])]
  BY <1>3 DEF SampleRows
<1> HIDE DEF keys
<1>6. m \in Nat /\ m <= n /\ m <= SampleSize /\ (m = n \/ m = SampleSize)
  BY <1>2
<1> HIDE DEF m, n
<1>7. ToSet(SampleRows(side, "first")) = {Shown(side, keys[i]) : i \in 1 .. m}
  <2>1. \A x : x \in ToSet(SampleRows(side, "first")) <=> \E i \in 1 .. m : x = Shown(side, keys[i])
    <3> DEFINE s == SampleRows(side, "first")
    <3>1. DOMAIN s = 1 .. m /\ \A i \in 1 .. m : s[i] = Shown(side, keys[i])
      BY <1>4
    <3> HIDE DEF s
    <3>2. \A x : x \in ToSet(s) <=> \E i \in 1 .. m : x = Shown(side, keys[i])
      BY <3>1 DEF ToSet
    <3> QED BY <3>2 DEF s
  <2> QED BY <2>1
<1>8. ToSet(SampleRows(side, "last")) = {Shown(side, keys[n - i + 1]) : i \in 1 .. m}
  <2>1. \A i \in 1 .. m : Reverse(keys)[i] = keys[n - i + 1]
    BY <1>2, <1>3, <1>6
  <2>2. \A x : x \in ToSet(SampleRows(side, "last")) <=> \E i \in 1 .. m : x = Shown(side, Reverse(keys)[i])
    <3> DEFINE s == SampleRows(side, "last")
    <3>1. DOMAIN s = 1 .. m /\ \A i \in 1 .. m : s[i] = Shown(side, Reverse(keys)[i])
      BY <1>5
    <3> HIDE DEF s
    <3>2. \A x : x \in ToSet(s) <=> \E i \in 1 .. m : x = Shown(side, Reverse(keys)[i])
      BY <3>1 DEF ToSet
    <3> QED BY <3>2 DEF s
  <2>3. \A i \in 1 .. m : Shown(side, Reverse(keys)[i]) = Shown(side, keys[n - i + 1])
    BY <2>1
  <2> QED BY <2>2, <2>3
<1>9. \A i \in 1 .. m : keys[i] \in K /\ keys[n - i + 1] \in K
  <2>1. \A i \in 1 .. m : i \in 1 .. n /\ n - i + 1 \in 1 .. n
    BY <1>2, <1>6
  <2> QED BY <1>2, <2>1
<1>10. Sampled(side) \subseteq all
  BY <1>7, <1>8, <1>9 DEF Sampled
<1>11. ASSUME n <= SampleSize PROVE all \subseteq ToSet(SampleRows(side, "first"))
  <2>1. m = n
    BY <1>2, <1>6, <1>11
  <2> QED BY <1>1, <1>7, <2>1
<1>12. ASSUME n <= 2 * SampleSize PROVE all \subseteq Sampled(side)
  <2> SUFFICES ASSUME NEW k \in K PROVE Shown(side, k) \in Sampled(side)
    OBVIOUS
  <2>1. PICK i \in 1 .. n : keys[i] = k
    BY <1>1
  <2>2. CASE i <= m
    <3>1. i \in 1 .. m
      BY <1>2, <1>6, <2>2
    <3> QED BY <1>7, <2>1, <3>1 DEF Sampled
  <2>3. CASE ~ (i <= m)
    <3>1. n - i + 1 \in 1 .. m /\ n - (n - i + 1) + 1 = i
      BY <1>2, <1>6, <1>12, <2>3
    <3>2. Shown(side, keys[n - (n - i + 1) + 1]) \in ToSet(SampleRows(side, "last"))
      BY <1>8, <3>1
    <3> QED BY <2>1, <3>1, <3>2 DEF Sampled
  <2> QED BY <2>2, <2>3
<1>13. SampleRows(side, "first") \in Seq(all) /\ SampleRows(side, "last") \in Seq(all)
  <2>1. \A i \in 1 .. m : Shown(side, keys[i]) \in all
    BY <1>9
  <2>2. \A i \in 1 .. m : Reverse(keys)[i] \in K
    <3>1. \A i \in 1 .. m : Reverse(keys)[i] = keys[n - i + 1]
      BY <1>2, <1>3, <1>6
    <3> QED BY <1>9, <3>1
  <2>3. \A i \in 1 .. m : Shown(side, Reverse(keys)[i]) \in all
    BY <2>2
  <2> HIDE DEF all
  <2>4. /\ [i \in 1 .. m |-> Shown(side, keys[i])] \in [1 .. m -> all]
        /\ [i \in 1 .. m |-> Shown(side, Reverse(keys)[i])] \in [1 .. m -> all]
    BY <2>1, <2>3
  <2>5. [1 .. m -> all] \subseteq Seq(all)
    BY <1>6
  <2> QED BY <1>4, <1>5, <2>4, <2>5
<1>14. all = ShownRows(side)
  BY DEF ShownRows
<1>15. ToSet(SampleRows(side, "first")) \subseteq Sampled(side)
  BY DEF Sampled
<1>16. n <= SampleSize => ToSet(SampleRows(side, "first")) = all
  BY <1>10, <1>11, <1>15
<1>17. n <= 2 * SampleSize => Sampled(side) = all
  BY <1>10, <1>12
<1> HIDE DEF all
<1> QED BY <1>1, <1>10, <1>13, <1>14, <1>16, <1>17

-----------------------------------------------------------------------------
(* The answers, the verdicts and the report.                               *)

(* What the statements answer as long as nobody else writes.               *)
Answers == [i \in 1 .. 6 |-> Answer(Queries[i])]

AnswersInv ==
  foreign = 0 =>
    \A i \in 1 .. Len(got) :
      ~PartOff(Part(i)) /\ verdict[Part(i)] # "failed" => got[i] = Answers[i]

PartEnd(p) == IF p = "row_count" THEN 2 ELSE 6

(* A part has its verdict when its last statement is done.                 *)
VerdictInv ==
  \A p \in Parts :
    /\ verdict[p] # "reading"
    /\ verdict[p] = "skipped" => PartOff(p)
    /\ verdict[p] \in {"matched", "mismatched"} /\ foreign = 0 =>
         verdict[p] = PartVerdict(p, Answers) /\ rows.target # NoRows
    /\ PartEnd(p) <= Len(got) => verdict[p] # "none"

(* The objects were compared before anything was read, and the report is   *)
(* what follows from the parts.                                            *)
ReportInv ==
  /\ verdict["report"] # "skipped"
  /\ verdict["report"] # "none" /\ foreign = 0 /\ rows.target # NoRows => objects \subseteq {"matched"}
  /\ verdict["report"] \notin {"none", "reading"} =>
       verdict["report"] = ReportVerdict /\ Len(got) = 6

ValInv == ValTypeInv /\ AnswersInv /\ VerdictInv /\ ReportInv

LEMMA SameAnswers ==
  ASSUME rows' = rows, choice' = choice
  PROVE  /\ Answers' = Answers
         /\ \A p : PartOff(p)' <=> PartOff(p)
         /\ \A p, a : PartVerdict(p, a)' = PartVerdict(p, a)
<1>1. \A side : SortedKeys(side)' = SortedKeys(side)
  <2>1. \A side, k, l : KeyBefore(side, k, l)' <=> KeyBefore(side, k, l)
    BY DEF KeyBefore
  <2> SUFFICES ASSUME NEW side PROVE SortedKeys(side)' = SortedKeys(side)
    OBVIOUS
  <2> DEFINE K == DOMAIN rows[side]
             before(k) == {l \in K : KeyBefore(side, l, k)}
             ranked(i) == CHOOSE k \in K : Cardinality(before(k)) = i - 1
  <2>2. K' = K
    OBVIOUS
  <2>3. \A k : before(k)' = before(k)
    BY <2>1, <2>2
  <2>4. SortedKeys(side) = [i \in 1 .. Cardinality(K) |-> ranked(i)]
    BY DEF SortedKeys
  <2>5. SortedKeys(side)' = [i \in 1 .. Cardinality(K') |-> ranked(i)']
    BY DEF SortedKeys
  <2> HIDE DEF before, K
  <2>6. \A i : ranked(i)' = ranked(i)
    BY <2>2, <2>3
  <2> HIDE DEF ranked
  <2> QED BY <2>2, <2>4, <2>5, <2>6
<1>2. \A side, k : Shown(side, k)' = Shown(side, k)
  BY DEF Shown, NormalizedCell, Form, FormsDiffer, ColumnsOf
<1>3. \A side, position : SampleRows(side, position)' = SampleRows(side, position)
  BY <1>1, <1>2 DEF SampleRows
<1>4. \A i \in 1 .. 6 : Answer(Queries[i])' = Answer(Queries[i])
  BY <1>3 DEF Answer
<1>5. Answers' = Answers
  BY <1>4 DEF Answers
<1>6. \A p, a : PartVerdict(p, a)' = PartVerdict(p, a)
  BY DEF PartVerdict, Combined
<1>7. \A p : PartOff(p)' <=> PartOff(p)
  BY DEF PartOff
<1> QED BY <1>5, <1>6, <1>7

(* What a step does to the answers and the verdicts of the parts.          *)
NothingRead == got' = got /\ \A p \in Parts : verdict'[p] = verdict[p]

OtherPartStays(part) == \A p \in Parts \ {part} : verdict'[p] = verdict[p]

PassedOver ==
  /\ Reading1 /\ got' = Append(got, 0) /\ OtherPartStays(Part(Next1))
  /\ \/ PartOff(Part(Next1)) /\ verdict'[Part(Next1)] = "skipped"
     \/ verdict[Part(Next1)] = "failed" /\ verdict'[Part(Next1)] = "failed"

WasRefused ==
  Reading1 /\ got' = Append(got, 0) /\ OtherPartStays(Part(Next1)) /\ verdict'[Part(Next1)] = "failed"

WasRead ==
  /\ Reading1 /\ got' = Append(got, Answers[Next1]) /\ OtherPartStays(Part(Next1))
  /\ ~PartOff(Part(Next1)) /\ verdict[Part(Next1)] # "failed" /\ rows[Queries[Next1].side] # NoRows
  /\ verdict'[Part(Next1)] =
       IF Next1 \in {2, 6} THEN PartVerdict(Part(Next1), got') ELSE verdict[Part(Next1)]

LEMMA StepShape ==
  ASSUME ValTypeInv, [ValidationNext]_valVars
  PROVE  NothingRead \/ PassedOver \/ WasRefused \/ WasRead
<1>1. Parts \subseteq {"row_count", "checksum", "report"} /\ \A p \in Parts : p # "report"
  BY DEF Parts
<1>2. CASE UNCHANGED valVars \/ OtherWrites \/ LoseConnection
  BY <1>2 DEF valVars, OtherWrites, LoseConnection, NothingRead
<1>3. CASE LoadEvidence
  <2>1. verdict' = [verdict EXCEPT !["report"] = "reading"] /\ got' = got
    BY <1>3 DEF LoadEvidence
  <2> QED BY <1>1, <2>1, Verdict DEF NothingRead, Verdicts
<1>4. CASE Conclude
  <2>1. verdict' = [verdict EXCEPT !["report"] = ReportVerdict] /\ got' = got
    BY <1>4 DEF Conclude
  <2>2. ReportVerdict \in Verdicts
    BY ReportVerdictIs DEF Verdicts
  <2> QED BY <1>1, <2>1, <2>2, Verdict DEF NothingRead
<1>5. CASE PassOver
  <2>1. Reading1 /\ got' = Append(got, 0) /\ (PartOff(Part(Next1)) \/ verdict[Part(Next1)] = "failed")
        /\ verdict' = IF PartOff(Part(Next1)) THEN [verdict EXCEPT ![Part(Next1)] = "skipped"] ELSE verdict
    BY <1>5 DEF PassOver
  <2>2. Part(Next1) \in {"row_count", "checksum", "report"}
    BY <1>1, <2>1, SomeSide
  <2>3. CASE PartOff(Part(Next1))
    <3>1. verdict' = [verdict EXCEPT ![Part(Next1)] = "skipped"]
      BY <2>1, <2>3
    <3>2. verdict'[Part(Next1)] = "skipped" /\ OtherPartStays(Part(Next1))
      BY <1>1, <2>2, <3>1, Verdict DEF OtherPartStays, Verdicts
    <3> QED BY <2>1, <2>3, <3>2 DEF PassedOver
  <2>4. CASE ~PartOff(Part(Next1))
    BY <2>1, <2>4 DEF PassedOver, OtherPartStays
  <2> QED BY <2>3, <2>4
<1>6. CASE ReadRows
  <2> DEFINE part == Part(Next1)
  <2>1. /\ Reading1 /\ got' = Append(got, Answer(Queries[Next1]))
        /\ ~PartOff(part) /\ verdict[part] # "failed" /\ rows[Queries[Next1].side] # NoRows
        /\ verdict' = IF Next1 \in {Len(Counts), Len(Queries)}
                      THEN [verdict EXCEPT ![part] = PartVerdict(part, got')] ELSE verdict
    BY <1>6 DEF ReadRows, Asked
  <2>2. part \in {"row_count", "checksum", "report"} /\ Next1 \in 1 .. 6
    BY <1>1, <2>1, SomeSide
  <2>3. Answers[Next1] = Answer(Queries[Next1])
    BY <2>2 DEF Answers
  <2>4. Len(Counts) = 2 /\ Len(Queries) = 6
    BY QueriesAre
  <2> HIDE DEF part
  <2>5. CASE Next1 \in {2, 6}
    <3>1. verdict' = [verdict EXCEPT ![part] = PartVerdict(part, got')]
      BY <2>1, <2>4, <2>5
    <3>2. PartVerdict(part, got') \in Verdicts
      BY PartVerdictIs DEF Verdicts
    <3>3. verdict'[part] = PartVerdict(part, got') /\ OtherPartStays(part)
      BY <1>1, <2>2, <3>1, <3>2, Verdict DEF OtherPartStays
    <3> QED BY <2>1, <2>3, <2>5, <3>3 DEF WasRead, part
  <2>6. CASE Next1 \notin {2, 6}
    <3>1. verdict' = verdict
      BY <2>1, <2>4, <2>6
    <3>2. verdict'[part] = verdict[part] /\ OtherPartStays(part)
      BY <3>1 DEF OtherPartStays
    <3> QED BY <2>1, <2>3, <2>6, <3>2 DEF WasRead, part
  <2> QED BY <2>5, <2>6
<1>7. CASE ReadRefused
  <2>1. Reading1
    BY <1>7 DEF ReadRefused, Asked
  <2>2. \/ got' = got /\ verdict' = verdict
        \/ got' = Append(got, 0) /\ verdict' = [verdict EXCEPT ![Part(Next1)] = "failed"]
    BY <1>7 DEF ReadRefused
  <2>3. CASE got' = got /\ verdict' = verdict
    BY <2>3 DEF NothingRead
  <2>4. CASE got' = Append(got, 0) /\ verdict' = [verdict EXCEPT ![Part(Next1)] = "failed"]
    <3>1. Part(Next1) \in {"row_count", "checksum", "report"}
      BY <1>1, <2>1, SomeSide
    <3>2. verdict'[Part(Next1)] = "failed" /\ OtherPartStays(Part(Next1))
      BY <1>1, <2>4, <3>1, Verdict DEF OtherPartStays, Verdicts
    <3> QED BY <2>1, <2>4, <3>2 DEF WasRefused
  <2> QED BY <2>2, <2>3, <2>4
<1> QED BY <1>2, <1>3, <1>4, <1>5, <1>6, <1>7 DEF ValidationNext

LEMMA AnswersNext ==
  ASSUME ValTypeInv, AnswersInv, [ValidationNext]_valVars
  PROVE  AnswersInv'
<1> SUFFICES ASSUME foreign' = 0, NEW i \in 1 .. Len(got'), ~PartOff(Part(i))', verdict'[Part(i)] # "failed"
             PROVE  got'[i] = Answers'[i]
  BY DEF AnswersInv
<1>1. foreign = 0 /\ rows' = rows /\ choice' = choice
  BY QuietRows, ChoiceStays
<1>2. Answers' = Answers /\ (PartOff(Part(i))' <=> PartOff(Part(i)))
  BY <1>1, SameAnswers
<1>3. \A j \in 1 .. Len(got) : ~PartOff(Part(j)) /\ verdict[Part(j)] # "failed" => got[j] = Answers[j]
  BY <1>1 DEF AnswersInv
<1>4. Part(i) \in Parts
  BY DEF Part, Parts
<1>5. CASE NothingRead
  BY <1>2, <1>3, <1>4, <1>5 DEF NothingRead
<1>6. ASSUME Reading1, NEW x, got' = Append(got, x), OtherPartStays(Part(Next1)),
             i # Next1, verdict'[Part(Next1)] # "failed" /\ ~PartOff(Part(Next1)) => verdict[Part(Next1)] # "failed"
      PROVE  got'[i] = Answers'[i]
  <2>1. Len(got') = Next1 /\ Len(got) \in Nat /\ \A j \in 1 .. Len(got) : got'[j] = got[j]
    BY <1>6, Answered, SomeSide
  <2>2. i \in 1 .. Len(got)
    BY <1>6, <2>1 DEF Next1
  <2>3. verdict[Part(i)] # "failed"
    BY <1>2, <1>4, <1>6 DEF OtherPartStays
  <2> QED BY <1>2, <1>3, <2>1, <2>2, <2>3
<1>7. CASE PassedOver
  BY <1>2, <1>6, <1>7 DEF PassedOver
<1>8. CASE WasRefused
  BY <1>2, <1>6, <1>8 DEF WasRefused
<1>9. CASE WasRead
  <2>1. CASE i = Next1
    <3>1. got'[Next1] = Answers[Next1]
      BY <1>9, Answered DEF WasRead
    <3> QED BY <1>2, <2>1, <3>1
  <2>2. CASE i # Next1
    BY <1>6, <1>9, <2>2 DEF WasRead
  <2> QED BY <2>1, <2>2
<1> QED BY <1>5, <1>7, <1>8, <1>9, StepShape

(* The verdict of a part looks at the answers of that part alone.          *)
LEMMA VerdictOfAnswers ==
  ASSUME NEW a, NEW b
  PROVE  /\ a[1] = b[1] /\ a[2] = b[2] => PartVerdict("row_count", a) = PartVerdict("row_count", b)
         /\ a[3] = b[3] /\ a[4] = b[4] /\ a[5] = b[5] /\ a[6] = b[6] =>
              PartVerdict("checksum", a) = PartVerdict("checksum", b)
BY DEF PartVerdict

LEMMA Counted ==
  ASSUME NEW n
  PROVE  /\ n \in Nat /\ n + 1 = 2 => n = 1
         /\ n \in Nat /\ n + 1 = 6 => n = 5
         /\ n \in 0 .. 6 /\ n + 1 > 6 => n = 6
OBVIOUS

LEMMA VerdictNext ==
  ASSUME ValTypeInv, AnswersInv, VerdictInv, [ValidationNext]_valVars
  PROVE  VerdictInv'
<1>1. choice' = choice
  BY ChoiceStays
<1>2. \A p : PartOff(p)' <=> PartOff(p)
  BY <1>1 DEF PartOff
<1>3. ASSUME NEW p \in Parts, verdict'[p] = verdict[p], PartEnd(p) <= Len(got') => PartEnd(p) <= Len(got)
      PROVE  /\ verdict'[p] # "reading"
             /\ verdict'[p] = "skipped" => PartOff(p)'
             /\ verdict'[p] \in {"matched", "mismatched"} /\ foreign' = 0 =>
                  verdict'[p] = PartVerdict(p, Answers)' /\ rows'.target # NoRows
             /\ PartEnd(p) <= Len(got') => verdict'[p] # "none"
  <2>1. /\ verdict[p] # "reading" /\ (verdict[p] = "skipped" => PartOff(p))
        /\ PartEnd(p) <= Len(got) => verdict[p] # "none"
    BY DEF VerdictInv
  <2>2. ASSUME verdict[p] \in {"matched", "mismatched"}, foreign' = 0
        PROVE  verdict[p] = PartVerdict(p, Answers)' /\ rows'.target # NoRows
    <3>1. foreign = 0 /\ rows' = rows
      BY <2>2, QuietRows
    <3>2. Answers' = Answers /\ PartVerdict(p, Answers)' = PartVerdict(p, Answers)
      <4>1. Answers' = Answers /\ \A a : PartVerdict(p, a)' = PartVerdict(p, a)
        BY <1>1, <3>1, SameAnswers
      <4> QED BY <4>1, <1>1 DEF PartVerdict, Combined
    <3> QED BY <2>2, <3>1, <3>2 DEF VerdictInv
  <2> QED BY <1>2, <1>3, <2>1, <2>2
<1>4. CASE NothingRead
  BY <1>3, <1>4 DEF NothingRead, VerdictInv
<1>5. ASSUME Reading1, NEW x, got' = Append(got, x), OtherPartStays(Part(Next1)), NEW p \in Parts, p # Part(Next1)
      PROVE  verdict'[p] = verdict[p] /\ (PartEnd(p) <= Len(got') => PartEnd(p) <= Len(got))
  <2>1. Len(got') = Next1 /\ Len(got) \in Nat /\ Next1 \in 1 .. 6
    BY <1>5, Answered, SomeSide
  <2>2. Part(Next1) = IF Next1 <= 2 THEN "row_count" ELSE "checksum"
    BY QueriesAre DEF Part
  <2>3. PartEnd(p) <= Next1 => PartEnd(p) <= Len(got)
    BY <1>5, <2>1, <2>2 DEF PartEnd, Parts, Next1
  <2> QED BY <1>5, <2>1, <2>3 DEF OtherPartStays
<1>6. CASE PassedOver
  <2> SUFFICES ASSUME NEW p \in Parts
               PROVE  /\ verdict'[p] # "reading"
                      /\ verdict'[p] = "skipped" => PartOff(p)'
                      /\ verdict'[p] \in {"matched", "mismatched"} /\ foreign' = 0 =>
                           verdict'[p] = PartVerdict(p, Answers)' /\ rows'.target # NoRows
                      /\ PartEnd(p) <= Len(got') => verdict'[p] # "none"
    BY DEF VerdictInv
  <2>1. CASE p # Part(Next1)
    BY <1>3, <1>5, <1>6, <2>1 DEF PassedOver
  <2>2. CASE p = Part(Next1)
    BY <1>2, <1>6, <2>2 DEF PassedOver
  <2> QED BY <2>1, <2>2
<1>7. CASE WasRefused
  <2> SUFFICES ASSUME NEW p \in Parts
               PROVE  /\ verdict'[p] # "reading"
                      /\ verdict'[p] = "skipped" => PartOff(p)'
                      /\ verdict'[p] \in {"matched", "mismatched"} /\ foreign' = 0 =>
                           verdict'[p] = PartVerdict(p, Answers)' /\ rows'.target # NoRows
                      /\ PartEnd(p) <= Len(got') => verdict'[p] # "none"
    BY DEF VerdictInv
  <2>1. CASE p # Part(Next1)
    BY <1>3, <1>5, <1>7, <2>1 DEF WasRefused
  <2>2. CASE p = Part(Next1)
    BY <1>7, <2>2 DEF WasRefused
  <2> QED BY <2>1, <2>2
<1>8. CASE WasRead
  <2> SUFFICES ASSUME NEW p \in Parts
               PROVE  /\ verdict'[p] # "reading"
                      /\ verdict'[p] = "skipped" => PartOff(p)'
                      /\ verdict'[p] \in {"matched", "mismatched"} /\ foreign' = 0 =>
                           verdict'[p] = PartVerdict(p, Answers)' /\ rows'.target # NoRows
                      /\ PartEnd(p) <= Len(got') => verdict'[p] # "none"
    BY DEF VerdictInv
  <2>1. CASE p # Part(Next1)
    BY <1>3, <1>5, <1>8, <2>1 DEF WasRead
  <2>2. Len(got') = Next1 /\ Len(got) \in Nat /\ Next1 \in 1 .. 6
    BY <1>8, Answered, SomeSide DEF WasRead
  <2>3. Part(Next1) = IF Next1 <= 2 THEN "row_count" ELSE "checksum"
    BY QueriesAre DEF Part
  <2>4. CASE p = Part(Next1) /\ Next1 \notin {2, 6}
    <3>1. verdict'[p] = verdict[p]
      BY <1>8, <2>4 DEF WasRead
    <3>2. PartEnd(p) <= Len(got') => PartEnd(p) <= Len(got)
      BY <2>2, <2>3, <2>4 DEF PartEnd, Next1
    <3> QED BY <1>3, <3>1, <3>2
  <2>5. CASE p = Part(Next1) /\ Next1 \in {2, 6}
    <3>1. verdict'[p] = PartVerdict(p, got') /\ verdict'[p] \in {"matched", "mismatched"}
      BY <1>8, <2>5, PartVerdictIs DEF WasRead
    <3>2. ASSUME foreign' = 0
          PROVE  PartVerdict(p, got') = PartVerdict(p, Answers)' /\ rows'.target # NoRows
      <4>1. foreign = 0 /\ rows' = rows
        BY <3>2, QuietRows
      <4>2. Answers' = Answers /\ PartVerdict(p, Answers)' = PartVerdict(p, Answers)
        <5>1. Answers' = Answers
          BY <1>1, <4>1, SameAnswers
        <5> QED BY <1>1, <5>1 DEF PartVerdict, Combined
      <4>3. /\ got'[Next1] = Answers[Next1]
            /\ \A j \in 1 .. Len(got) : got'[j] = got[j]
        BY <1>8, Answered DEF WasRead
      <4>4. \A j \in 1 .. Len(got) : Part(j) = p => got[j] = Answers[j]
        BY <1>8, <2>5, <4>1 DEF AnswersInv, WasRead
      <4>5. \A j \in 1 .. 6 : Part(j) = IF j <= 2 THEN "row_count" ELSE "checksum"
        BY QueriesAre DEF Part
      <4>6. CASE Next1 = 2
        <5>1. Len(got) = 1 /\ p = "row_count"
          <6>1. Len(got) = 1
            BY <2>2, <4>6, Counted DEF Next1
          <6> QED BY <2>3, <2>5, <4>6, <6>1
        <5>2. got'[1] = Answers[1] /\ got'[2] = Answers[2]
          BY <4>3, <4>4, <4>5, <4>6, <5>1
        <5>3. PartVerdict(p, got') = PartVerdict(p, Answers)
          BY <5>1, <5>2, VerdictOfAnswers
        <5>4. rows.target # NoRows
          BY <1>8, <4>6, QueriesAre DEF WasRead, Query
        <5> QED BY <4>1, <4>2, <5>3, <5>4
      <4>7. CASE Next1 = 6
        <5>1. Len(got) = 5 /\ p = "checksum"
          <6>1. Len(got) = 5
            BY <2>2, <4>7, Counted DEF Next1
          <6> QED BY <2>3, <2>5, <4>7, <6>1
        <5>2. got'[3] = Answers[3] /\ got'[4] = Answers[4] /\ got'[5] = Answers[5] /\ got'[6] = Answers[6]
          BY <4>3, <4>4, <4>5, <4>7, <5>1
        <5>3. PartVerdict(p, got') = PartVerdict(p, Answers)
          BY <5>1, <5>2, VerdictOfAnswers
        <5>4. rows.target # NoRows
          BY <1>8, <4>7, QueriesAre DEF WasRead, Query
        <5> QED BY <4>1, <4>2, <5>3, <5>4
      <4> QED BY <2>5, <4>6, <4>7
    <3> QED BY <3>1, <3>2
  <2> QED BY <2>1, <2>4, <2>5
<1> QED BY <1>4, <1>6, <1>7, <1>8, StepShape

(* The objects of a table compared with those it was planned from: they    *)
(* are its own.                                                            *)
LEMMA OwnObjects ==
  ASSUME NEW d \in {Definition("key"), Definition("cell")}
  PROVE  ComparedObjects(PlannedDefinition(d), d) \subseteq {"matched"}
<1>1. ASSUME NEW s, NEW manual PROVE ByName(s, s, manual) \subseteq {"matched"}
  BY DEF ByName
<1>2. d.columns # NoNames /\ "key" \in DOMAIN d.columns /\ d.increments = {"key"}
  BY DEF Definition, NoNames
<1>3. d # NoDefinition
  <2>1. NoDefinition.columns = NoNames
    BY DEF NoDefinition, Definition
  <2> QED BY <1>2, <2>1
<1>4. PlannedDefinition(d) = d
  BY <1>3 DEF PlannedDefinition
<1>5. ComparedObjects(d, d) =
        {"matched"} \cup ByName(d.columns, d.columns, {}) \cup {"matched"}
        \cup {IF n \in DOMAIN d.columns /\ n \in d.increments THEN "matched" ELSE "mismatched" : n \in d.increments}
        \cup ByName(d.indexes, d.indexes, d.manual) \cup ByName(d.references, d.references, {})
  BY <1>3 DEF ComparedObjects
<1>6. {IF n \in DOMAIN d.columns /\ n \in d.increments THEN "matched" ELSE "mismatched" : n \in d.increments}
        \subseteq {"matched"}
  BY <1>2
<1> QED BY <1>1, <1>4, <1>5, <1>6

LEMMA SameReport ==
  ASSUME \A p \in Parts : verdict'[p] = verdict[p], artifacts' = artifacts, objects' = objects
  PROVE  ReportVerdict' = ReportVerdict
BY DEF ReportVerdict, TableVerdict, Parts

LEMMA ReportNext ==
  ASSUME ValidationAssumption, ValTypeInv, ReportInv, [ValidationNext]_valVars
  PROVE  ReportInv'
<1>1. Parts \subseteq {"row_count", "checksum", "report"} /\ \A p \in Parts : p # "report"
  BY DEF Parts
<1>2. ASSUME verdict["report"] = "reading", verdict'["report"] = "reading", objects' = objects,
             foreign' = 0 => foreign = 0 /\ rows' = rows
      PROVE  ReportInv'
  BY <1>2 DEF ReportInv
<1>3. foreign' = 0 => foreign = 0 /\ rows' = rows
  BY QuietRows
<1>4. CASE UNCHANGED valVars
  <2>1. UNCHANGED <<verdict, artifacts, objects, got, rows, foreign>>
    BY <1>4 DEF valVars
  <2>2. ReportVerdict' = ReportVerdict
    BY <2>1, SameReport
  <2> QED BY <2>1, <2>2 DEF ReportInv
<1>5. CASE LoadEvidence
  <2>1. verdict'["report"] = "reading"
    BY <1>5, Verdict DEF LoadEvidence, Verdicts
  <2>2. ASSUME rows.target # NoRows PROVE objects' \subseteq {"matched"}
    BY <1>5, <2>2, OwnObjects DEF LoadEvidence
  <2>3. rows' = rows
    BY <1>5 DEF LoadEvidence
  <2> QED BY <2>1, <2>2, <2>3 DEF ReportInv
<1>6. CASE OtherWrites
  <2>1. UNCHANGED <<verdict, objects>> /\ verdict["report"] \in {"none", "reading"}
    BY <1>6 DEF OtherWrites
  <2> QED BY <1>3, <2>1 DEF ReportInv
<1>7. CASE PassOver \/ ReadRows \/ ReadRefused \/ LoseConnection
  <2>1. Reading1 /\ objects' = objects
    BY <1>7 DEF PassOver, ReadRows, ReadRefused, LoseConnection, Asked
  <2>2. Part(Next1) # "report" /\ verdict["report"] = "reading"
    BY <1>1, <2>1, SomeSide DEF Reading1
  <2>3. verdict'["report"] = "reading"
    <3>1. \/ verdict' = verdict
          \/ \E v : verdict' = [verdict EXCEPT ![Part(Next1)] = v]
      BY <1>7 DEF PassOver, ReadRows, ReadRefused, LoseConnection
    <3> QED BY <2>2, <3>1 DEF ValTypeInv
  <2> QED BY <1>2, <1>3, <2>1, <2>2, <2>3
<1>8. CASE Conclude
  <2>1. /\ verdict' = [verdict EXCEPT !["report"] = ReportVerdict] /\ Next1 > Len(Queries)
        /\ verdict["report"] = "reading"
        /\ UNCHANGED <<artifacts, objects, got, rows, foreign>>
    BY <1>8 DEF Conclude
  <2>2. ReportVerdict \in {"failed", "mismatched", "matched"}
    BY ReportVerdictIs
  <2>3. verdict'["report"] = ReportVerdict /\ \A p \in Parts : verdict'[p] = verdict[p]
    BY <1>1, <2>1, <2>2, Verdict DEF Verdicts
  <2>4. ReportVerdict' = ReportVerdict
    BY <2>1, <2>3, SameReport
  <2>5. Len(got) = 6
    <3>1. Len(got) \in 0 .. 6 /\ Len(got) + 1 > 6
      BY <2>1, QueriesAre DEF ValTypeInv, Next1
    <3> QED BY <3>1, Counted
  <2>6. verdict'["report"] \notin {"skipped", "none", "reading"} /\ verdict'["report"] = ReportVerdict'
    BY <2>2, <2>3, <2>4
  <2>7. rows.target # NoRows /\ foreign = 0 => objects \subseteq {"matched"}
    BY <2>1 DEF ReportInv
  <2>8. Len(got') = 6 /\ rows' = rows /\ foreign' = foreign /\ objects' = objects
    BY <2>1, <2>5
  <2> QED BY <2>6, <2>7, <2>8 DEF ReportInv
<1> QED BY <1>4, <1>5, <1>6, <1>7, <1>8 DEF ValidationNext

LEMMA ValSteps ==
  ASSUME ValidationAssumption, ValInv, [ValidationNext]_valVars
  PROVE  ValInv'
BY ValTypeNext, AnswersNext, VerdictNext, ReportNext DEF ValInv

LEMMA ValStarts == ASSUME ValidationAssumption, ValidationInit PROVE ValInv
<1>1. ValTypeInv
  BY ValTypeInit
<1>2. got = << >> /\ \A p \in {"row_count", "checksum", "report"} : verdict[p] = "none"
  BY DEF ValidationInit
<1>3. Len(got) = 0
  BY <1>2
<1>4. AnswersInv
  BY <1>3 DEF AnswersInv
<1>5. VerdictInv
  BY <1>2, <1>3 DEF VerdictInv, Parts, PartEnd
<1>6. ReportInv
  BY <1>2 DEF ReportInv
<1> QED BY <1>1, <1>4, <1>5, <1>6 DEF ValInv

LEMMA ToSetOfBoth ==
  ASSUME NEW s, NEW t, \E A : s \in Seq(A) /\ t \in Seq(A)
  PROVE  ToSet(s \o t) = ToSet(s) \cup ToSet(t)
<1>1. PICK A : s \in Seq(A) /\ t \in Seq(A)
  OBVIOUS
<1>2. /\ Len(s) \in Nat /\ Len(t) \in Nat /\ DOMAIN s = 1 .. Len(s) /\ DOMAIN t = 1 .. Len(t)
      /\ Len(s \o t) = Len(s) + Len(t)
      /\ \A i \in 1 .. Len(s) + Len(t) : (s \o t)[i] = IF i <= Len(s) THEN s[i] ELSE t[i - Len(s)]
  BY <1>1, LenProperties, ConcatProperties
<1>3. s \o t \in Seq(A)
  BY <1>1
<1>4. DOMAIN (s \o t) = 1 .. Len(s) + Len(t)
  BY <1>2, <1>3, LenProperties
<1> DEFINE u == s \o t
           m == Len(s)
           n == Len(t)
<1>5. /\ m \in Nat /\ n \in Nat /\ DOMAIN s = 1 .. m /\ DOMAIN t = 1 .. n /\ DOMAIN u = 1 .. m + n
      /\ \A i \in 1 .. m + n : u[i] = IF i <= m THEN s[i] ELSE t[i - m]
  BY <1>2, <1>4
<1> HIDE DEF u, m, n
<1>6. ASSUME NEW x \in ToSet(u) PROVE x \in ToSet(s) \cup ToSet(t)
  <2>1. PICK i \in 1 .. m + n : u[i] = x
    BY <1>5 DEF ToSet
  <2>2. CASE i <= m
    <3>1. i \in 1 .. m /\ s[i] = x
      BY <1>5, <2>1, <2>2
    <3> QED BY <1>5, <3>1 DEF ToSet
  <2>3. CASE ~ (i <= m)
    <3>1. i - m \in 1 .. n /\ t[i - m] = x
      BY <1>5, <2>1, <2>3
    <3> QED BY <1>5, <3>1 DEF ToSet
  <2> QED BY <2>2, <2>3
<1>7. ASSUME NEW x \in ToSet(s) PROVE x \in ToSet(u)
  <2>1. PICK i \in 1 .. m : s[i] = x
    BY <1>5 DEF ToSet
  <2>2. i \in 1 .. m + n /\ i <= m
    BY <1>5
  <2>3. u[i] = x
    BY <1>5, <2>1, <2>2
  <2> QED BY <1>5, <2>2, <2>3 DEF ToSet
<1>8. ASSUME NEW x \in ToSet(t) PROVE x \in ToSet(u)
  <2>1. PICK i \in 1 .. n : t[i] = x
    BY <1>5 DEF ToSet
  <2>2. i + m \in 1 .. m + n /\ ~ (i + m <= m) /\ (i + m) - m = i
    BY <1>5
  <2>3. u[i + m] = x
    BY <1>5, <2>1, <2>2
  <2> QED BY <1>5, <2>2, <2>3 DEF ToSet
<1>9. ToSet(u) = ToSet(s) \cup ToSet(t)
  BY <1>6, <1>7, <1>8
<1> QED BY <1>9 DEF u

LEMMA AnswersAre ==
  /\ Answers[1] = Cardinality(DOMAIN rows["source"]) /\ Answers[2] = Cardinality(DOMAIN rows["target"])
  /\ Answers[3] = SampleRows("source", "first") /\ Answers[4] = SampleRows("source", "last")
  /\ Answers[5] = SampleRows("target", "first") /\ Answers[6] = SampleRows("target", "last")
<1>1. \A i \in 1 .. 6 : Answers[i] = Answer(Queries[i])
  BY DEF Answers
<1>2. \A side \in Sides : Answer(Query("count", side)) = Cardinality(DOMAIN rows[side])
  BY DEF Answer, Query
<1>3. \A side \in Sides, w \in {"first", "last"} : Answer(Query(w, side)) = SampleRows(side, w)
  BY DEF Answer, Query
<1>4. "source" \in Sides /\ "target" \in Sides
  BY DEF Sides
<1> QED BY <1>1, <1>2, <1>3, <1>4, QueriesAre

LEMMA SidesHaveContents ==
  ASSUME ValidationAssumption, ValTypeInv, rows.target # NoRows
  PROVE  \A side \in Sides : rows[side] \in Contents
BY DEF Sides, ValTypeInv

(* A keyed sample of one moment has every row of either end once.          *)
LEMMA CombinedIs ==
  ASSUME ValidationAssumption, ValTypeInv, NEW side \in Sides, rows[side] \in Contents,
         choice.keyed, ~KeyIsRenamed
  PROVE  Combined(SampleRows(side, "first"), SampleRows(side, "last")) = Sampled(side)
<1> DEFINE first == SampleRows(side, "first")
           last == SampleRows(side, "last")
<1>1. ToSet(first) \subseteq ShownRows(side) /\ ToSet(last) \subseteq ShownRows(side)
  BY SamplesCover DEF Sampled
<1>2. \A row, other \in ShownRows(side) : row.key = other.key => row = other
  BY DEF ShownRows, Shown
<1>3. Combined(first, last) =
        ToSet(first) \cup {row \in ToSet(last) : \A other \in ToSet(first) : other.key # row.key}
  BY DEF Combined, KeyIsRenamed
<1>4. Sampled(side) = ToSet(first) \cup ToSet(last)
  BY DEF Sampled
<1> HIDE DEF first, last
<1>5. ASSUME NEW row \in ToSet(last), NEW other \in ToSet(first), other.key = row.key
      PROVE  row \in ToSet(first)
  BY <1>1, <1>2, <1>5
<1>6. Combined(first, last) = ToSet(first) \cup ToSet(last)
  BY <1>3, <1>5
<1> QED BY <1>4, <1>6 DEF first, last

(* Samples that match are of the same rows.                                *)
LEMMA MatchedSamples ==
  ASSUME ValidationAssumption, ValTypeInv, rows.target # NoRows, ~KeyIsRenamed,
         PartVerdict("checksum", Answers) = "matched"
  PROVE  Sampled("source") = Sampled("target")
<1> DEFINE a == SampleRows("source", "first")
           b == SampleRows("source", "last")
           c == SampleRows("target", "first")
           d == SampleRows("target", "last")
<1>1. Combined(a, b) = Combined(c, d)
  BY AnswersAre DEF PartVerdict
<1>2. (\E A : a \in Seq(A) /\ b \in Seq(A)) /\ \E A : c \in Seq(A) /\ d \in Seq(A)
  BY SidesHaveContents, SamplesCover DEF Sides
<1>3. CASE choice.keyed
  <2>1. Combined(a, b) = Sampled("source") /\ Combined(c, d) = Sampled("target")
    BY <1>3, SidesHaveContents, CombinedIs DEF Sides
  <2> QED BY <1>1, <2>1
<1>4. CASE ~choice.keyed
  <2> HIDE DEF a, b, c, d
  <2>1. a \o b = c \o d
    BY <1>1, <1>4 DEF Combined
  <2>2. ToSet(a \o b) = ToSet(a) \cup ToSet(b) /\ ToSet(c \o d) = ToSet(c) \cup ToSet(d)
    BY <1>2, ToSetOfBoth
  <2>3. ToSet(a) \cup ToSet(b) = ToSet(c) \cup ToSet(d)
    BY <2>1, <2>2
  <2> QED BY <2>3 DEF Sampled, a, b, c, d
<1> QED BY <1>3, <1>4

(* A report that says matched is right about a small table that nobody     *)
(* else writes: the counts rule out rows between the samples, which the    *)
(* samples of both ends cannot see.  The key keeps its name.               *)
THEOREM MatchedIsMatched == ValidationSpec => []SmallTablesAreCompared
<1> USE ValidationAssumption
<1>1. ValidationInit => ValInv
  BY ValStarts
<1>2. ValInv /\ [ValidationNext]_valVars => ValInv'
  BY ValSteps
<1>3. ValInv => SmallTablesAreCompared
  <2> SUFFICES ASSUME ValInv, verdict["report"] = "matched", foreign = 0, choice.row_count, choice.checksum
               PROVE  /\ ~artifacts
                      /\ ~KeyIsRenamed /\ Cardinality(DOMAIN rows.source) <= 2 * SampleSize
                           => Normal("source") = Normal("target")
    BY DEF SmallTablesAreCompared
  <2> USE DEF ValInv
  <2>1. ReportVerdict = "matched" /\ Len(got) = 6
    BY DEF ReportInv
  <2>2. TableVerdict(verdict) \notin {"failed", "mismatched"} /\ ~artifacts
    BY <2>1 DEF ReportVerdict
  <2>3. \A p \in Parts : verdict[p] = "matched"
    <3> SUFFICES ASSUME NEW p \in Parts PROVE verdict[p] = "matched"
      OBVIOUS
    <3>1. p \in {"row_count", "checksum", "report"} /\ PartEnd(p) <= Len(got)
      BY <2>1 DEF Parts, PartEnd
    <3>2. verdict[p] \in Verdicts /\ verdict[p] \notin {"reading", "none"}
      BY <3>1 DEF ValTypeInv, VerdictInv
    <3>3. ~PartOff(p)
      BY DEF PartOff, Parts
    <3>4. verdict[p] \notin {"failed", "mismatched"}
      BY <2>2 DEF TableVerdict, Parts
    <3> QED BY <3>2, <3>3, <3>4 DEF VerdictInv, Verdicts
  <2>4. /\ PartVerdict("row_count", Answers) = "matched" /\ PartVerdict("checksum", Answers) = "matched"
        /\ rows.target # NoRows
    BY <2>3 DEF VerdictInv, Parts
  <2>5. Cardinality(DOMAIN rows["source"]) = Cardinality(DOMAIN rows["target"])
    BY <2>4, AnswersAre DEF PartVerdict
  <2>6. ASSUME ~KeyIsRenamed, Cardinality(DOMAIN rows.source) <= 2 * SampleSize
        PROVE  Normal("source") = Normal("target")
    <3>1. Sampled("source") = Sampled("target")
      BY <2>4, <2>6, MatchedSamples
    <3>2. rows["source"] \in Contents /\ rows["target"] \in Contents /\ "source" \in Sides /\ "target" \in Sides
      BY <2>4, SidesHaveContents DEF Sides
    <3>3. Sampled("source") = ShownRows("source") /\ Sampled("target") = ShownRows("target")
      BY <2>5, <2>6, <3>2, SamplesCover
    <3>4. ASSUME NEW s, NEW t, ShownRows(s) = ShownRows(t), NEW k \in DOMAIN rows[s]
          PROVE  k \in DOMAIN rows[t] /\ NormalizedCell(rows[s][k]) = NormalizedCell(rows[t][k])
      <4>1. Shown(s, k) \in ShownRows(t)
        BY <3>4 DEF ShownRows
      <4>2. PICK l \in DOMAIN rows[t] : Shown(t, l) = Shown(s, k)
        BY <4>1 DEF ShownRows
      <4>3. Shown(t, l).key = l /\ Shown(s, k).key = k
            /\ Shown(t, l).cell = NormalizedCell(rows[t][l]) /\ Shown(s, k).cell = NormalizedCell(rows[s][k])
        BY DEF Shown
      <4> QED BY <4>2, <4>3
    <3>5. ShownRows("source") = ShownRows("target")
      BY <3>1, <3>3
    <3>6. \A k \in DOMAIN rows["source"] : /\ k \in DOMAIN rows["target"]
                                          /\ NormalizedCell(rows["source"][k]) = NormalizedCell(rows["target"][k])
      BY <3>4, <3>5
    <3>7. \A k \in DOMAIN rows["target"] : k \in DOMAIN rows["source"]
      <4>1. ShownRows("target") = ShownRows("source")
        BY <3>5
      <4> QED BY <3>4, <4>1
    <3>8. DOMAIN rows["source"] = DOMAIN rows["target"]
      BY <3>6, <3>7
    <3> QED BY <3>6, <3>8 DEF Normal
  <2> QED BY <2>2, <2>6
<1> QED BY <1>1, <1>2, <1>3, PTL DEF ValidationSpec

LEMMA SameSamples ==
  ASSUME ValidationAssumption, ValTypeInv, rows["source"] = rows["target"], ~choice.unwritten, ~FormsDiffer,
         \A i, j \in 1 .. Len(choice.order) : i < j => choice.order[i] < choice.order[j]
  PROVE  \A position : SampleRows("source", position) = SampleRows("target", position)
<1> DEFINE K == DOMAIN rows["target"]
           before(side, k) == {l \in K : KeyBefore(side, l, k)}
<1>1. K \subseteq Nat /\ K \subseteq ToSet(choice.order)
  BY DEF ValidationAssumption, ValTypeInv
<1>2. DOMAIN choice.order = 1 .. Len(choice.order) /\ Len(choice.order) \in Nat
  <2>1. choice.order \in Seq(Nat)
    BY DEF ValidationAssumption, ValTypeInv
  <2> QED BY <2>1, LenProperties
<1>3. ASSUME NEW k \in K, NEW l \in K
      PROVE  KeyBefore("target", l, k) <=> KeyBefore("source", l, k)
  <2>1. KeyBefore("source", l, k) <=> l < k
    BY DEF KeyBefore
  <2>2. KeyBefore("target", l, k) <=>
          \E i, j \in DOMAIN choice.order : i < j /\ choice.order[i] = l /\ choice.order[j] = k
    BY DEF KeyBefore
  <2>3. PICK i \in DOMAIN choice.order : choice.order[i] = l
    BY <1>1 DEF ToSet
  <2>4. PICK j \in DOMAIN choice.order : choice.order[j] = k
    BY <1>1 DEF ToSet
  <2>5. i \in Nat /\ j \in Nat /\ l \in Nat /\ k \in Nat
    BY <1>1, <1>2
  <2>6. CASE l < k
    <3>1. ~ (j < i) /\ i # j
      <4>1. ~ (k < l) /\ l # k
        BY <2>5, <2>6
      <4> QED BY <1>2, <2>3, <2>4, <4>1
    <3>2. i < j
      BY <2>5, <3>1
    <3> QED BY <2>1, <2>2, <2>3, <2>4, <2>6, <3>2
  <2>7. CASE ~ (l < k)
    <3>1. ~ \E h, n \in DOMAIN choice.order : h < n /\ choice.order[h] = l /\ choice.order[n] = k
      BY <1>2, <2>7
    <3> QED BY <2>1, <2>2, <2>7, <3>1
  <2> QED BY <2>6, <2>7
<1>4. \A k \in K : before("source", k) = before("target", k)
  BY <1>3
<1> DEFINE ith(side, i) == CHOOSE k \in K : Cardinality(before(side, k)) = i - 1
<1>5. /\ SortedKeys("source") = [i \in 1 .. Cardinality(K) |-> ith("source", i)]
      /\ SortedKeys("target") = [i \in 1 .. Cardinality(K) |-> ith("target", i)]
  BY DEF SortedKeys
<1> HIDE DEF before, K
<1>6. \A i \in 1 .. Cardinality(K) : ith("source", i) = ith("target", i)
  BY <1>4
<1> HIDE DEF ith
<1>7. [i \in 1 .. Cardinality(K) |-> ith("source", i)] = [i \in 1 .. Cardinality(K) |-> ith("target", i)]
  BY <1>6
<1>8. SortedKeys("source") = SortedKeys("target")
  BY <1>5, <1>7
<1>9. \A k : Shown("source", k) = Shown("target", k)
  BY DEF Shown, Form, ColumnsOf
<1> QED BY <1>8, <1>9 DEF SampleRows

(* A faithful copy is never reported as different, whatever fails: when    *)
(* the drivers return its values in one form, and both servers sort the    *)
(* keys alike or the first sample has all of them, by their own name.      *)
THEOREM FaithfulCopiesMatch == ValidationSpec => []FaithfulCopyMatches
<1> USE ValidationAssumption
<1>1. ValidationInit => ValInv
  BY ValStarts
<1>2. ValInv /\ [ValidationNext]_valVars => ValInv'
  BY ValSteps
<1>3. ValInv => FaithfulCopyMatches
  <2> SUFFICES ASSUME ValInv, verdict["report"] # "none", foreign = 0, rows.source = rows.target, ~choice.unwritten,
                      ~FormsDiffer,
                      \/ \A i, j \in 1 .. Len(choice.order) : i < j => choice.order[i] < choice.order[j]
                      \/ choice.keyed /\ ~KeyIsRenamed /\ Cardinality(DOMAIN rows.source) <= SampleSize
               PROVE  \A p \in {"row_count", "checksum", "report"} : verdict[p] # "mismatched"
    <3>1. ValInv => DOMAIN verdict = {"row_count", "checksum", "report"}
      BY DEF ValInv, ValTypeInv
    <3> QED BY <3>1 DEF FaithfulCopyMatches
  <2> USE DEF ValInv
  <2>1. rows["source"] = rows["target"] /\ rows["source"] \in Contents /\ rows["target"] \in Contents
    BY DEF ValTypeInv
  <2>2. rows.target # NoRows
    BY <2>1 DEF ValidationAssumption, NoRows
  <2>3. PartVerdict("row_count", Answers) = "matched"
    BY <2>1, AnswersAre DEF PartVerdict
  <2>4. Combined(Answers[3], Answers[4]) = Combined(Answers[5], Answers[6])
    <3>1. CASE \A i, j \in 1 .. Len(choice.order) : i < j => choice.order[i] < choice.order[j]
      BY <2>1, <3>1, AnswersAre, SameSamples
    <3>2. CASE choice.keyed /\ ~KeyIsRenamed /\ Cardinality(DOMAIN rows.source) <= SampleSize
      <4>1. "source" \in Sides /\ "target" \in Sides
        BY DEF Sides
      <4>2. \A side \in Sides : /\ Sampled(side) \subseteq ShownRows(side)
                                /\ ToSet(SampleRows(side, "first")) = ShownRows(side)
        BY <2>1, <3>2, SamplesCover DEF Sides
      <4>3. \A side \in Sides : Sampled(side) = ShownRows(side)
        BY <4>2 DEF Sampled
      <4>4. ShownRows("source") = ShownRows("target")
        <5>1. \A k : Shown("source", k) = Shown("target", k)
          BY <2>1 DEF Shown, Form, ColumnsOf
        <5> QED BY <2>1, <5>1 DEF ShownRows
      <4>5. \A side \in Sides :
              Combined(SampleRows(side, "first"), SampleRows(side, "last")) = Sampled(side)
        BY <2>1, <3>2, CombinedIs DEF Sides
      <4> QED BY <4>1, <4>3, <4>4, <4>5, AnswersAre
    <3> QED BY <3>1, <3>2
  <2>5. PartVerdict("checksum", Answers) = "matched"
    BY <2>4 DEF PartVerdict
  <2>6. \A p \in Parts : verdict[p] # "mismatched"
    BY <2>3, <2>5 DEF VerdictInv, Parts
  <2>7. verdict["report"] # "mismatched"
    <3> SUFFICES ASSUME verdict["report"] = "mismatched" PROVE FALSE
      OBVIOUS
    <3>1. ReportVerdict = "mismatched" /\ objects \subseteq {"matched"}
      BY <2>2 DEF ReportInv
    <3>2. TableVerdict(verdict) # "mismatched"
      BY <2>6 DEF TableVerdict, Parts
    <3>3. objects \cap {"missing", "mismatched", "manual_review"} = {}
      BY <3>1
    <3> QED BY <3>1, <3>2, <3>3 DEF ReportVerdict
  <2> QED BY <2>6, <2>7 DEF Parts
<1> QED BY <1>1, <1>2, <1>3, PTL DEF ValidationSpec

-----------------------------------------------------------------------------
(* SchemaScan: what the answers say of the catalog while nobody has        *)
(* changed it, statement by statement.                                     *)

CatalogTables == {m \in DOMAIN catalog : catalog[m].kind = "table"}

IndexTold(i, told) ==
  told.auto =>
    \/ told.columns = i.parts
    \/ IF server = "mysql" THEN 0 \in ToSet(i.parts) ELSE i.included # <<>>

ReferenceTold(x, r, told) ==
  ShownExactly(x, r) =>
    {f \in told : f.name = x} =
      {[name |-> x, columns |-> r.references[x].columns, table |-> r.references[x].table,
        referenced |-> r.references[x].referenced]}

ColumnsTold == fetched["columns"] = FetchedColumns

KeysTold == fetched["keys"] = [n \in CatalogTables |-> catalog[n].key]

IndexesTold ==
  /\ DOMAIN fetched["indexes"] = CatalogTables
  /\ \A n \in CatalogTables : \A x \in DOMAIN catalog[n].indexes :
       IndexTold(catalog[n].indexes[x], fetched["indexes"][n][x])

ReferencesTold ==
  /\ DOMAIN fetched["references"] = CatalogTables
  /\ \A n \in CatalogTables : \A x \in DOMAIN catalog[n].references :
       ReferenceTold(x, catalog[n], fetched["references"][n])

ScanTypeInv ==
  /\ scan \in -1 .. 6 /\ changes \in Nat
  /\ server \in {"postgresql", "mysql"}
  /\ catalog \in Catalogs
  /\ DOMAIN fetched = {"columns", "keys", "indexes", "references", "objects"}

ToldInv ==
  changes = 0 =>
    /\ scan > 1 => ColumnsTold
    /\ scan > 2 => KeysTold
    /\ scan > 3 => IndexesTold
    /\ scan > 4 => ReferencesTold

ScanInv == ScanTypeInv /\ ToldInv /\ QuietScansAreFaithful

(* An index without expressions: its columns are its parts.                *)
LEMMA IntervalSorted ==
  ASSUME NEW n \in Nat
  PROVE  Sorted(1 .. n) = [i \in 1 .. n |-> i]
<1>1. ASSUME NEW t \in 1 .. n PROVE Rank(t, 1 .. n) = t - 1
  <2>1. {u \in 1 .. n : u < t} = 1 .. (t - 1)
    OBVIOUS
  <2>2. Cardinality(1 .. (t - 1)) = t - 1
    <3>1. t - 1 \in Int /\ 1 \in Int /\ t - 1 >= 0
      OBVIOUS
    <3>2. Cardinality(1 .. (t - 1)) = IF 1 > t - 1 THEN 0 ELSE (t - 1) - 1 + 1
      BY <3>1, FS_Interval
    <3> QED BY <3>1, <3>2
  <2> QED BY <2>1, <2>2 DEF Rank
<1>2. Cardinality(1 .. n) = n
  <2>1. Cardinality(1 .. n) = IF 1 > n THEN 0 ELSE n - 1 + 1
    BY FS_Interval
  <2> QED BY <2>1
<1>3. ASSUME NEW i \in 1 .. n PROVE (CHOOSE t \in 1 .. n : Rank(t, 1 .. n) = i - 1) = i
  <2>1. \A t \in 1 .. n : Rank(t, 1 .. n) = i - 1 <=> t = i
    BY <1>1
  <2> QED BY <2>1
<1> QED BY <1>2, <1>3 DEF Sorted

LEMMA NoExpressions ==
  ASSUME NEW parts \in Seq(Nat), 0 \notin ToSet(parts)
  PROVE  ColumnsAmong(parts) = parts
<1>1. {p \in DOMAIN parts : parts[p] # 0} = 1 .. Len(parts)
  BY DEF ToSet
<1>2. Sorted(1 .. Len(parts)) = [i \in 1 .. Len(parts) |-> i]
  BY IntervalSorted
<1>3. Cardinality(1 .. Len(parts)) = Len(parts)
  <2>1. 1 \in Int /\ Len(parts) \in Nat
    OBVIOUS
  <2>2. Cardinality(1 .. Len(parts)) = IF 1 > Len(parts) THEN 0 ELSE Len(parts) - 1 + 1
    BY <2>1, FS_Interval
  <2> QED BY <2>1, <2>2
<1>4. ColumnsAmong(parts) = [k \in 1 .. Len(parts) |-> parts[k]]
  BY <1>1, <1>2, <1>3 DEF ColumnsAmong, Picked
<1> QED BY <1>4

LEMMA IndexesAreTold ==
  ASSUME ScanTypeInv, NEW i, i.parts \in Seq(Nat)
  PROVE  IndexTold(i, FetchedIndex(i))
<1> SUFFICES ASSUME FetchedIndex(i).auto,
                    IF server = "mysql" THEN 0 \notin ToSet(i.parts) ELSE i.included = <<>>
             PROVE  FetchedIndex(i).columns = i.parts
  BY DEF IndexTold
<1> DEFINE columns == ColumnsAmong(i.parts) \o (IF server = "postgresql" THEN i.included ELSE <<>>)
<1>1. FetchedIndex(i).columns = columns /\ FetchedIndex(i).auto = ~NeedsReview(columns, i)
  BY DEF FetchedIndex
<1>2. 0 \notin ToSet(i.parts)
  BY <1>1 DEF ScanTypeInv, NeedsReview
<1>3. ColumnsAmong(i.parts) = i.parts
  BY <1>2, NoExpressions
<1>4. (IF server = "postgresql" THEN i.included ELSE <<>>) = <<>>
  BY DEF ScanTypeInv
<1>5. columns = i.parts
  <2>1. columns = i.parts \o <<>>
    BY <1>3, <1>4
  <2> QED BY <2>1, ConcatEmptySeq
<1> QED BY <1>1, <1>5

(* PostgreSQL: the only pair of a constraint with a single column and a    *)
(* name of its own.                                                        *)
LEMMA OnePair ==
  ASSUME ScanAssumption, ScanTypeInv, NEW n \in CatalogTables, NEW x \in DOMAIN catalog[n].references,
         Len(catalog[n].references[x].columns) = 1, Cardinality(SameName(x)) = 1
  PROVE  /\ SameName(x) = {n}
         /\ Pairs(x, catalog[n].references[x], catalog[n].references[x].table) =
              <<<<catalog[n].references[x].columns[1], catalog[n].references[x].referenced[1]>>>>
<1> DEFINE r == catalog[n].references[x]
           P == Referring(x, r.table)
<1>1. r.columns \in Seq(Nat) /\ r.referenced \in Seq(Nat) /\ Len(r.referenced) = 1
  BY DEF ScanAssumption, ScanTypeInv, CatalogTables
<1>2. SameName(x) = {n}
  <2>1. IsFiniteSet(SameName(x)) /\ n \in SameName(x)
    BY FS_Subset DEF SameName, ScanAssumption, ScanTypeInv, CatalogTables
  <2>2. PICK y : SameName(x) = {y}
    BY <2>1, FS_Singleton
  <2> QED BY <2>1, <2>2
<1>3. P = {<<n, 1>>}
  <2>1. DOMAIN r.referenced = {1}
    BY <1>1
  <2>2. UNION {{m} \X DOMAIN catalog[m].references[x].referenced : m \in SameName(x)} = {<<n, 1>>}
    BY <1>2, <2>1
  <2> QED BY <2>2 DEF Referring
<1>4. Cardinality(P) = 1
  BY <1>3, FS_Singleton
<1>5. (CHOOSE p \in P : Cardinality({q \in P : Ahead(q, p)}) = 0) = <<n, 1>>
  <2>1. n \in Nat
    BY DEF ScanAssumption, ScanTypeInv, CatalogTables
  <2>2. ~Ahead(<<n, 1>>, <<n, 1>>)
    BY <2>1 DEF Ahead
  <2>3. {q \in P : Ahead(q, <<n, 1>>)} = {}
    BY <1>3, <2>2
  <2>4. Cardinality({q \in P : Ahead(q, <<n, 1>>)}) = 0
    BY <2>3, FS_EmptySet
  <2> HIDE DEF P
  <2> QED BY <1>3, <2>4
<1> DEFINE place(k) == CHOOSE p \in P : Cardinality({q \in P : Ahead(q, p)}) = k
           other(k) == catalog[place(k)[1]].references[x].referenced[place(k)[2]]
           size == Cardinality(P)
<1>6. Pairs(x, r, r.table) =
        [i \in 1 .. Len(r.columns) * size |-> <<r.columns[((i - 1) \div size) + 1], other((i - 1) % size)>>]
  BY DEF Pairs
<1>7. other(0) = r.referenced[1]
  <2>1. place(0) = <<n, 1>>
    BY <1>5
  <2> HIDE DEF place
  <2> QED BY <2>1
<1> HIDE DEF other, size, r
<1>8. size = 1 /\ Len(r.columns) = 1
  BY <1>4 DEF size, r
<1>9. \A i \in 1 .. 1 : (i - 1) \div 1 = 0 /\ (i - 1) % 1 = 0
  OBVIOUS
<1>10. Pairs(x, r, r.table) = [i \in 1 .. 1 |-> <<r.columns[1], other(0)>>]
  BY <1>6, <1>8, <1>9
<1>11. [i \in 1 .. 1 |-> <<r.columns[1], other(0)>>] = <<<<r.columns[1], other(0)>>>>
  OBVIOUS
<1> QED BY <1>2, <1>7, <1>10, <1>11 DEF r

LEMMA ReferencesAreTold ==
  ASSUME ScanAssumption, ScanTypeInv, NEW n \in CatalogTables, NEW x \in DOMAIN catalog[n].references
  PROVE  ReferenceTold(x, catalog[n], FetchedReferences(catalog[n]))
<1> DEFINE r == catalog[n]
           c == r.references[x]
           exact == [name |-> x, columns |-> c.columns, table |-> c.table, referenced |-> c.referenced]
<1> SUFFICES ASSUME ShownExactly(x, r)
             PROVE  {f \in FetchedReferences(r) : f.name = x} = {exact}
  BY DEF ReferenceTold
<1>1. CASE server = "mysql"
  <2> DEFINE told(m) == [name |-> m, columns |-> r.references[m].columns, table |-> r.references[m].table,
                         referenced |-> r.references[m].referenced]
  <2>1. FetchedReferences(r) = {told(m) : m \in DOMAIN r.references}
    BY <1>1 DEF FetchedReferences
  <2>2. told(x) = exact /\ \A m : told(m).name = m
    OBVIOUS
  <2> HIDE DEF told, exact
  <2> QED BY <2>1, <2>2
<1>2. CASE server = "postgresql"
  <2>1. /\ SameName(x) = {n}
        /\ Pairs(x, c, c.table) = <<<<c.columns[1], c.referenced[1]>>>>
    BY <1>2, OnePair DEF ShownExactly
  <2>2. c.columns = <<c.columns[1]>> /\ c.referenced = <<c.referenced[1]>>
    <3>1. c.columns \in Seq(Nat) /\ c.referenced \in Seq(Nat) /\ Len(c.columns) = 1 /\ Len(c.referenced) = 1
      BY <1>2 DEF ScanAssumption, ScanTypeInv, CatalogTables, ShownExactly
    <3> HIDE DEF c
    <3> QED BY <3>1
  <2> DEFINE told(m, t) ==
               [name |-> m, columns |-> [i \in DOMAIN Pairs(m, r.references[m], t) |-> Pairs(m, r.references[m], t)[i][1]],
                table |-> t,
                referenced |-> [i \in DOMAIN Pairs(m, r.references[m], t) |-> Pairs(m, r.references[m], t)[i][2]]]
             others(m) == {catalog[k].references[m].table : k \in SameName(m)}
  <2>3. FetchedReferences(r) = UNION {{told(m, t) : t \in others(m)} : m \in DOMAIN r.references}
    BY <1>2 DEF FetchedReferences
  <2>4. others(x) = {c.table}
    BY <2>1
  <2>5. told(x, c.table) = exact
    <3> DEFINE p == Pairs(x, c, c.table)
    <3> HIDE DEF c
    <3>1. [i \in DOMAIN p |-> p[i][1]] = <<c.columns[1]>> /\ [i \in DOMAIN p |-> p[i][2]] = <<c.referenced[1]>>
      BY <2>1
    <3> QED BY <2>2, <3>1 DEF c
  <2>6. \A m, t : told(m, t).name = m
    OBVIOUS
  <2> HIDE DEF told, others, exact
  <2>7. \A f : f \in FetchedReferences(r) <=> \E m \in DOMAIN r.references : \E t \in others(m) : f = told(m, t)
    BY <2>3
  <2> HIDE DEF r, c
  <2>8. x \in DOMAIN r.references
    BY DEF r
  <2> QED BY <2>4, <2>5, <2>6, <2>7, <2>8
<1> QED BY <1>1, <1>2 DEF ScanTypeInv

(* Every statement answers from the catalog as it is.                      *)
LEMMA FetchingStep ==
  ASSUME ScanAssumption, ScanTypeInv, ToldInv, FetchNext
  PROVE  ScanTypeInv' /\ ToldInv'
<1> DEFINE statement == Statements[scan]
<1>1. /\ scan \in 1 .. 5 /\ scan' = scan + 1
      /\ fetched' = [fetched EXCEPT ![statement] = AnswerTo(statement)]
      /\ UNCHANGED <<server, catalog, scanned, views, changes>>
  BY DEF FetchNext, Statements
<1>2. /\ scan = 1 => statement = "columns"
      /\ scan = 2 => statement = "keys"
      /\ scan = 3 => statement = "indexes"
      /\ scan = 4 => statement = "references"
      /\ scan = 5 => statement = "objects"
  BY <1>1 DEF Statements
<1>3. DOMAIN fetched' = DOMAIN fetched
  BY <1>1
<1>4. ScanTypeInv'
  BY <1>1, <1>3 DEF ScanTypeInv
<1> HIDE DEF statement
<1>5. ASSUME NEW s \in {"columns", "keys", "indexes", "references", "objects"}
      PROVE  fetched'[s] = IF s = statement THEN AnswerTo(s) ELSE fetched[s]
  BY <1>1 DEF ScanTypeInv
<1>6. CatalogTables' = CatalogTables
  BY <1>1 DEF CatalogTables
<1> SUFFICES ASSUME changes = 0
             PROVE  /\ scan >= 1 => ColumnsTold'
                    /\ scan >= 2 => KeysTold'
                    /\ scan >= 3 => IndexesTold'
                    /\ scan >= 4 => ReferencesTold'
  BY <1>1, <1>4 DEF ToldInv, ScanTypeInv
<1>7. scan >= 1 => ColumnsTold'
  <2>1. fetched'["columns"] = FetchedColumns
    BY <1>1, <1>2, <1>5 DEF ToldInv, ColumnsTold, AnswerTo
  <2> QED BY <1>1, <2>1 DEF ColumnsTold, FetchedColumns
<1>8. scan >= 2 => KeysTold'
  <2> SUFFICES ASSUME scan >= 2 PROVE fetched'["keys"] = [n \in CatalogTables |-> catalog[n].key]
    BY <1>1, <1>6 DEF KeysTold
  <2>1. AnswerTo("keys") = [n \in CatalogTables |-> catalog[n].key]
    BY DEF AnswerTo, OfTables, CatalogTables
  <2> QED BY <1>1, <1>2, <1>5, <2>1 DEF ToldInv, KeysTold
<1>9. scan >= 3 => IndexesTold'
  <2> SUFFICES ASSUME scan >= 3 PROVE IndexesTold'
    OBVIOUS
  <2>1. /\ DOMAIN fetched'["indexes"] = CatalogTables
        /\ \A n \in CatalogTables : \A x \in DOMAIN catalog[n].indexes :
             IndexTold(catalog[n].indexes[x], fetched'["indexes"][n][x])
    <3>1. CASE scan = 3
      <4>1. fetched'["indexes"] = [n \in CatalogTables |-> FetchedIndexes(catalog[n])]
        BY <1>2, <1>5, <3>1 DEF AnswerTo, OfTables, CatalogTables
      <4>2. ASSUME NEW n \in CatalogTables, NEW x \in DOMAIN catalog[n].indexes
            PROVE  IndexTold(catalog[n].indexes[x], FetchedIndex(catalog[n].indexes[x]))
        <5>1. catalog[n].indexes[x].parts \in Seq(Nat)
          BY DEF ScanAssumption, ScanTypeInv, CatalogTables
        <5> QED BY <5>1, IndexesAreTold
      <4>3. \A n \in CatalogTables : \A x \in DOMAIN catalog[n].indexes :
              fetched'["indexes"][n][x] = FetchedIndex(catalog[n].indexes[x])
        BY <4>1 DEF FetchedIndexes
      <4> QED BY <4>1, <4>2, <4>3
    <3>2. CASE scan # 3
      BY <1>1, <1>2, <1>5, <3>2 DEF ToldInv, IndexesTold
    <3> QED BY <3>1, <3>2
  <2>2. \A i, told : IndexTold(i, told)' <=> IndexTold(i, told)
    BY <1>1 DEF IndexTold
  <2> QED BY <1>1, <1>6, <2>1, <2>2 DEF IndexesTold, IndexTold
<1>10. scan >= 4 => ReferencesTold'
  <2> SUFFICES ASSUME scan >= 4 PROVE ReferencesTold'
    OBVIOUS
  <2>1. /\ DOMAIN fetched'["references"] = CatalogTables
        /\ \A n \in CatalogTables : \A x \in DOMAIN catalog[n].references :
             ReferenceTold(x, catalog[n], fetched'["references"][n])
    <3>1. CASE scan = 4
      <4>1. fetched'["references"] = [n \in CatalogTables |-> FetchedReferences(catalog[n])]
        BY <1>2, <1>5, <3>1 DEF AnswerTo, OfTables, CatalogTables
      <4> QED BY <4>1, ReferencesAreTold
    <3>2. CASE scan # 4
      BY <1>1, <1>2, <1>5, <3>2 DEF ToldInv, ReferencesTold
    <3> QED BY <3>1, <3>2
  <2>2. \A x : SameName(x)' = SameName(x)
    BY <1>1 DEF SameName
  <2> QED BY <1>1, <1>6, <2>1, <2>2 DEF ReferencesTold, ReferenceTold, ShownExactly
<1> QED BY <1>7, <1>8, <1>9, <1>10

(* The snapshot of a scan in which nothing has changed.                    *)
LEMMA AssembledAsTold ==
  ASSUME ScanTypeInv, ToldInv, changes = 0, scan = 6, NEW n \in CatalogTables
  PROVE  LET r == catalog[n]
             s == Assembled[n]
         IN  /\ s.key = r.key /\ DOMAIN s.columns = DOMAIN r.columns
             /\ \A c \in DOMAIN r.columns :
                  /\ s.columns[c].generated <=> IsGenerated(r.columns[c])
                  /\ s.columns[c].increment <=> IsAutoIncrement(c, r.columns[c], r.key)
             /\ \A x \in DOMAIN r.indexes : IndexTold(r.indexes[x], s.indexes[x])
             /\ \A x \in DOMAIN r.references : ReferenceTold(x, r, s.references)
<1>1. ColumnsTold /\ KeysTold /\ IndexesTold /\ ReferencesTold
  BY DEF ToldInv
<1>2. /\ n \in DOMAIN fetched["columns"] /\ fetched["columns"][n] = catalog[n].columns
      /\ n \in DOMAIN fetched["keys"] /\ fetched["keys"][n] = catalog[n].key
      /\ n \in DOMAIN fetched["indexes"] /\ n \in DOMAIN fetched["references"]
  BY <1>1 DEF ColumnsTold, FetchedColumns, KeysTold, IndexesTold, ReferencesTold, CatalogTables
<1>3. Assembled[n] =
        [columns    |-> [c \in DOMAIN catalog[n].columns |->
                           [generated |-> IsGenerated(catalog[n].columns[c]),
                            increment |-> IsAutoIncrement(c, catalog[n].columns[c], catalog[n].key)]],
         key        |-> catalog[n].key,
         indexes    |-> fetched["indexes"][n],
         references |-> fetched["references"][n]]
  BY <1>2 DEF Assembled, AnswerFor
<1> QED BY <1>1, <1>3 DEF IndexesTold, ReferencesTold

LEMMA AssembleStep ==
  ASSUME ScanTypeInv, ToldInv, Assemble
  PROVE  ScanInv'
<1>1. scan = 6 /\ scan' = 0 /\ scanned' = Assembled /\ UNCHANGED <<server, catalog, fetched, changes>>
  BY DEF Assemble, Statements
<1>2. ScanTypeInv' /\ ToldInv'
  BY <1>1 DEF ScanTypeInv, ToldInv
<1>3. QuietScansAreFaithful'
  <2> SUFFICES ASSUME changes = 0 PROVE QuietScansAreFaithful'
    BY <1>1 DEF QuietScansAreFaithful
  <2>1. \A x : SameName(x)' = SameName(x)
    BY <1>1 DEF SameName
  <2>2. \A x, r : ShownExactly(x, r)' <=> ShownExactly(x, r)
    BY <1>1, <2>1 DEF ShownExactly
  <2>3. ASSUME NEW n \in CatalogTables
        PROVE  /\ scanned'[n].key = catalog[n].key /\ DOMAIN scanned'[n].columns = DOMAIN catalog[n].columns
               /\ \A c \in DOMAIN catalog[n].columns :
                    /\ scanned'[n].columns[c].generated /\ catalog[n].columns[c] # "generated" =>
                         server = "mysql" /\ catalog[n].columns[c] = "expression"
                    /\ catalog[n].columns[c] = "generated" => scanned'[n].columns[c].generated
                    /\ scanned'[n].columns[c].increment => catalog[n].columns[c] = "serial"
               /\ \A x \in DOMAIN catalog[n].indexes : IndexTold(catalog[n].indexes[x], scanned'[n].indexes[x])
               /\ \A x \in DOMAIN catalog[n].references : ReferenceTold(x, catalog[n], scanned'[n].references)
    BY <1>1, AssembledAsTold DEF IsGenerated, IsAutoIncrement
  <2> QED BY <1>1, <2>2, <2>3 DEF QuietScansAreFaithful, CatalogTables, IndexTold, ReferenceTold
<1> QED BY <1>2, <1>3 DEF ScanInv

LEMMA ScanSteps ==
  ASSUME ScanAssumption, ScanInv, [ScanNext]_scanVars
  PROVE  ScanInv'
<1>0. ScanTypeInv /\ ToldInv
  BY DEF ScanInv
<1>1. CASE FetchNext
  <2>1. QuietScansAreFaithful'
    BY <1>1 DEF FetchNext, Statements, QuietScansAreFaithful
  <2> QED BY <1>0, <1>1, <2>1, FetchingStep DEF ScanInv
<1>2. CASE Assemble
  BY <1>0, <1>2, AssembleStep
<1>3. CASE ScanFails
  BY <1>0, <1>3 DEF ScanFails, Statements, ScanInv, ScanTypeInv, ToldInv, QuietScansAreFaithful
<1>4. CASE OtherDdl
  <2>1. /\ scan' = scan /\ scan \in 1 .. 6 /\ changes' = changes + 1 /\ catalog' \in Catalogs
        /\ UNCHANGED <<server, fetched>>
    BY <1>4 DEF OtherDdl, Statements
  <2> QED BY <1>0, <2>1 DEF ScanInv, ScanTypeInv, ToldInv, QuietScansAreFaithful
<1>5. CASE UNCHANGED scanVars
  <2>1. UNCHANGED <<server, catalog, fetched, scanned, views, scan, changes>>
    BY <1>5 DEF scanVars
  <2>2. ScanTypeInv'
    BY <1>0, <2>1 DEF ScanTypeInv
  <2>3. CatalogTables' = CatalogTables /\ \A x : SameName(x)' = SameName(x)
    BY <2>1 DEF CatalogTables, SameName
  <2>4. /\ \A i, told : IndexTold(i, told)' <=> IndexTold(i, told)
        /\ \A x, r : ShownExactly(x, r)' <=> ShownExactly(x, r)
    BY <2>1, <2>3 DEF IndexTold, ShownExactly
  <2>5. \A x, r, told : ReferenceTold(x, r, told)' <=> ReferenceTold(x, r, told)
    BY <2>4 DEF ReferenceTold
  <2>6. (ColumnsTold' <=> ColumnsTold) /\ (KeysTold' <=> KeysTold)
    BY <2>1, <2>3 DEF ColumnsTold, FetchedColumns, KeysTold
  <2>7. IndexesTold => IndexesTold'
    BY <2>1, <2>3, <2>4 DEF IndexesTold, IndexTold
  <2>8. ReferencesTold => ReferencesTold'
    BY <2>1, <2>3, <2>4 DEF ReferencesTold, ReferenceTold
  <2>9. ToldInv'
    BY <1>0, <2>1, <2>6, <2>7, <2>8 DEF ToldInv
  <2>10. QuietScansAreFaithful'
    BY <2>1, <2>4 DEF ScanInv, QuietScansAreFaithful
  <2> QED BY <2>2, <2>9, <2>10 DEF ScanInv
<1> QED BY <1>1, <1>2, <1>3, <1>4, <1>5 DEF ScanNext

(* QuietScansAreFaithful: what scan_schema puts together while nobody      *)
(* changes the catalog is what the catalog holds, but for what the queries *)
(* cannot tell (adapters/postgres.py, adapters/mysql.py).                  *)
THEOREM QuietScansTellTheTruth == ScanSpec => []QuietScansAreFaithful
<1>1. ScanInit => ScanInv
  BY DEF ScanInit, ScanInv, ScanTypeInv, ToldInv, QuietScansAreFaithful, Statements, ToSet
<1>2. ScanInv => QuietScansAreFaithful
  BY DEF ScanInv
<1> QED BY <1>1, <1>2, ScanSteps, ScanAssumption, PTL DEF ScanSpec

-----------------------------------------------------------------------------
(* KeysetReader: bags of sequences.                                        *)

LEMMA UpTo ==
  ASSUME NEW n \in Nat
  PROVE  IsFiniteSet(1 .. n) /\ Cardinality(1 .. n) = n
<1>1. 1 \in Int /\ n \in Int
  OBVIOUS
<1>2. IsFiniteSet(1 .. n) /\ Cardinality(1 .. n) = IF 1 > n THEN 0 ELSE n - 1 + 1
  BY <1>1, FS_Interval
<1> QED BY <1>2

LEMMA OneToOne ==
  ASSUME NEW S, NEW T, IsFiniteSet(S), NEW f \in [S -> T],
         \A x, y \in S : f[x] = f[y] => x = y, \A z \in T : \E x \in S : f[x] = z
  PROVE  Cardinality(S) = Cardinality(T)
<1>1. f \in Bijection(S, T)
  BY DEF Bijection, Injection, Surjection, IsInjective
<1> QED BY <1>1, FS_Bijection DEF ExistsBijection

(* A sequence that is put behind another one adds its elements.            *)
LEMMA BagOfBoth ==
  ASSUME NEW s, NEW m \in Nat, NEW n \in Nat, m <= n
  PROVE  ToBag([k \in 1 .. n |-> s[k]]) =
           ToBag([k \in 1 .. m |-> s[k]]) (+) ToBag([k \in 1 .. n - m |-> s[m + k]])
<1> DEFINE all == [k \in 1 .. n |-> s[k]]
           first == [k \in 1 .. m |-> s[k]]
           last == [k \in 1 .. n - m |-> s[m + k]]
           at(f, e) == {i \in DOMAIN f : f[i] = e}
<1>1. ASSUME NEW e
      PROVE  Cardinality(at(all, e)) = Cardinality(at(first, e)) + Cardinality(at(last, e))
  <2> DEFINE moved == {i \in m + 1 .. n : s[i] = e}
  <2>1. at(all, e) = at(first, e) \cup moved /\ at(first, e) \cap moved = {}
    OBVIOUS
  <2>2. IsFiniteSet(at(first, e)) /\ IsFiniteSet(moved) /\ IsFiniteSet(at(last, e))
    <3>1. IsFiniteSet(1 .. m) /\ IsFiniteSet(m + 1 .. n) /\ IsFiniteSet(1 .. n - m)
      BY FS_Interval
    <3> QED BY <3>1, FS_Subset
  <2>3. Cardinality(moved) = Cardinality(at(last, e))
    <3> DEFINE f == [i \in at(last, e) |-> m + i]
    <3>1. f \in [at(last, e) -> moved]
      OBVIOUS
    <3>2. \A i, j \in at(last, e) : f[i] = f[j] => i = j
      OBVIOUS
    <3>3. \A i \in moved : i - m \in at(last, e) /\ f[i - m] = i
      OBVIOUS
    <3>4. \A i \in moved : \E j \in at(last, e) : f[j] = i
      BY <3>3
    <3> HIDE DEF f, moved, at, last
    <3>5. Cardinality(at(last, e)) = Cardinality(moved)
      BY <2>2, <3>1, <3>2, <3>4, OneToOne
    <3> QED BY <3>5
  <2>4. Cardinality(at(first, e) \cap moved) = 0
    BY <2>1, FS_EmptySet
  <2> HIDE DEF moved, at, first, last, all
  <2>5. Cardinality(at(first, e) \cup moved) = Cardinality(at(first, e)) + Cardinality(moved) - 0
    BY <2>2, <2>4, FS_Union
  <2>6. Cardinality(at(first, e)) \in Nat /\ Cardinality(moved) \in Nat
    BY <2>2, FS_CardinalityType
  <2>7. Cardinality(at(all, e)) = Cardinality(at(first, e)) + Cardinality(moved)
    BY <2>1, <2>5, <2>6
  <2> QED BY <2>3, <2>7
<1>2. \A f : ToBag(f) = [e \in Range(f) |-> Cardinality(at(f, e))]
  BY DEF ToBag
<1>3. Range(all) = Range(first) \cup Range(last)
  <2>1. \A k \in 1 .. n : k \in 1 .. m \/ (k - m \in 1 .. n - m /\ m + (k - m) = k)
    OBVIOUS
  <2>2. \A k \in 1 .. n - m : m + k \in 1 .. n
    OBVIOUS
  <2>3. \A k \in 1 .. m : k \in 1 .. n
    OBVIOUS
  <2> QED BY <2>1, <2>2, <2>3 DEF Range
<1>4. \A f, e : e \notin Range(f) => at(f, e) = {}
  BY DEF Range
<1>5. \A e : /\ e \notin Range(first) => Cardinality(at(first, e)) = 0
             /\ e \notin Range(last) => Cardinality(at(last, e)) = 0
  BY <1>4, FS_EmptySet
<1>6. \A e : Cardinality(at(first, e)) \in Nat /\ Cardinality(at(last, e)) \in Nat
  <2> TAKE e
  <2>1. IsFiniteSet(1 .. m) /\ IsFiniteSet(1 .. n - m)
    BY FS_Interval
  <2>2. IsFiniteSet(at(first, e)) /\ IsFiniteSet(at(last, e))
    BY <2>1, FS_Subset
  <2> HIDE DEF at
  <2> QED BY <2>2, FS_CardinalityType
<1> HIDE DEF all, first, last, at
<1>7. DOMAIN ToBag(first) = Range(first) /\ DOMAIN ToBag(last) = Range(last)
  BY <1>2
<1>8. ToBag(first) (+) ToBag(last) =
        [e \in Range(first) \cup Range(last) |->
           (IF e \in Range(first) THEN Cardinality(at(first, e)) ELSE 0)
           + (IF e \in Range(last) THEN Cardinality(at(last, e)) ELSE 0)]
  BY <1>2, <1>7 DEF (+)
<1>9. \A e : (IF e \in Range(first) THEN Cardinality(at(first, e)) ELSE 0)
           + (IF e \in Range(last) THEN Cardinality(at(last, e)) ELSE 0) = Cardinality(at(all, e))
  BY <1>1, <1>5, <1>6
<1>10. ToBag(all) = [e \in Range(first) \cup Range(last) |-> Cardinality(at(all, e))]
  BY <1>2, <1>3
<1>11. ToBag(all) = ToBag(first) (+) ToBag(last)
  BY <1>8, <1>9, <1>10
<1> QED BY <1>11 DEF all, first, last

(* The order in which rows are taken does not matter.                      *)
LEMMA BagOfPermuted ==
  ASSUME NEW s, NEW n \in Nat, NEW p \in SetToSeqs(1 .. n)
  PROVE  ToBag([k \in 1 .. n |-> s[p[k]]]) = ToBag([k \in 1 .. n |-> s[k]])
<1> DEFINE a == [k \in 1 .. n |-> s[p[k]]]
           b == [k \in 1 .. n |-> s[k]]
           at(f, e) == {i \in DOMAIN f : f[i] = e}
<1>1. IsFiniteSet(1 .. n) /\ Cardinality(1 .. n) = n
  BY FS_Interval
<1>2. p \in [1 .. n -> 1 .. n] /\ \A i, j \in 1 .. n : i # j => p[i] # p[j]
  BY <1>1 DEF SetToSeqs
<1>3. \A i \in 1 .. n : \E k \in 1 .. n : p[k] = i
  <2>1. p \in Injection(1 .. n, 1 .. n)
    BY <1>2 DEF Injection, IsInjective
  <2>2. p \in Surjection(1 .. n, 1 .. n)
    BY <1>1, <2>1, FS_Injection
  <2> QED BY <2>2 DEF Surjection
<1>4. ASSUME NEW e PROVE Cardinality(at(a, e)) = Cardinality(at(b, e))
  <2> DEFINE f == [i \in at(a, e) |-> p[i]]
  <2>1. f \in [at(a, e) -> at(b, e)]
    BY <1>2
  <2>2. \A i, j \in at(a, e) : f[i] = f[j] => i = j
    BY <1>2
  <2>3. \A i \in at(b, e) : \E k \in at(a, e) : f[k] = i
    BY <1>3
  <2>4. IsFiniteSet(at(a, e))
    BY <1>1, FS_Subset
  <2> HIDE DEF f, at
  <2> QED BY <2>1, <2>2, <2>3, <2>4, OneToOne
<1>5. Range(a) = Range(b)
  <2>1. \A e : e \in Range(a) <=> \E k \in 1 .. n : e = s[p[k]]
    BY DEF Range
  <2>2. \A e : e \in Range(b) <=> \E k \in 1 .. n : e = s[k]
    BY DEF Range
  <2>3. \A i \in 1 .. n : \E k \in 1 .. n : s[i] = s[p[k]]
    BY <1>3
  <2>4. \A k \in 1 .. n : p[k] \in 1 .. n
    BY <1>2
  <2> HIDE DEF a, b
  <2>5. \A e : e \in Range(a) => e \in Range(b)
    BY <2>1, <2>2, <2>4
  <2>6. \A e : e \in Range(b) => e \in Range(a)
    BY <2>1, <2>2, <2>3
  <2> QED BY <2>5, <2>6
<1>6. \A f : ToBag(f) = [e \in Range(f) |-> Cardinality(at(f, e))]
  BY DEF ToBag
<1> HIDE DEF a, b, at
<1>7. ToBag(a) = ToBag(b)
  BY <1>4, <1>5, <1>6
<1> QED BY <1>7 DEF a, b

-----------------------------------------------------------------------------
(* KeysetReader: the order of rows.                                        *)

LEMMA FirstOf ==
  ASSUME NEW n \in Nat, NEW S \in SUBSET (1 .. n), S # {}
  PROVE  \E x \in S : \A y \in S : x <= y
<1> DEFINE T == {n - x : x \in S}
<1>1. T \in SUBSET Nat /\ T # {}
  <2>1. \A x \in S : n - x \in Nat
    OBVIOUS
  <2> QED BY <2>1
<1>2. IsFiniteSet(T)
  <2>1. T \subseteq 0 .. n
    OBVIOUS
  <2>2. IsFiniteSet(0 .. n)
    BY FS_Interval
  <2> QED BY <2>1, <2>2, FS_Subset
<1>3. PICK z \in T : \A y \in T : y <= z
  <2> HIDE DEF T
  <2> QED BY <1>1, <1>2, Greatest
<1>4. PICK x \in S : z = n - x
  BY <1>3
<1>5. \A y \in S : n - y <= n - x
  BY <1>3, <1>4
<1>6. \A y \in S : x <= y
  BY <1>5
<1> QED BY <1>6

LEMMA BeforeIsOrder ==
  ASSUME reader \in {"postgresql", "mysql"}
  PROVE  /\ \A v : ~Before(v, v)
         /\ \A v, w \in Nat : v # w => Before(v, w) \/ Before(w, v)
         /\ \A u, v, w \in Nat : Before(u, v) /\ Before(v, w) => Before(u, w)
BY DEF Before

(* The rows that can be told apart by some columns are in an order.        *)
LEMMA RowsAreOrdered ==
  ASSUME reader \in {"postgresql", "mysql"}, NEW width \in Nat, NEW order \in Seq(1 .. width),
         NEW r \in [1 .. width -> Nat], NEW s \in [1 .. width -> Nat],
         \E i \in DOMAIN order : r[order[i]] # s[order[i]]
  PROVE  Precedes(r, s, order) \/ Precedes(s, r, order)
<1> DEFINE S == {i \in DOMAIN order : r[order[i]] # s[order[i]]}
<1>1. DOMAIN order = 1 .. Len(order) /\ Len(order) \in Nat /\ order \in [1 .. Len(order) -> 1 .. width]
  BY LenProperties
<1>a. S \in SUBSET (1 .. Len(order)) /\ S # {}
  BY <1>1
<1>2. PICK i \in S : \A j \in S : i <= j
  <2> HIDE DEF S
  <2> QED BY <1>1, <1>a, FirstOf
<1>b. i \in 1 .. Len(order)
  BY <1>a
<1>3. \A j \in 1 .. i - 1 : j \in DOMAIN order /\ j \notin S
  <2> SUFFICES ASSUME NEW j \in 1 .. i - 1 PROVE j \in DOMAIN order /\ j \notin S
    OBVIOUS
  <2>1. j \in 1 .. Len(order) /\ ~(i <= j)
    <3> HIDE DEF S
    <3>1. Len(order) \in Nat /\ i \in 1 .. Len(order)
      BY <1>1, <1>b
    <3> QED BY <3>1
  <2> HIDE DEF S
  <2> QED BY <1>1, <1>2, <2>1
<1>4. \A j \in 1 .. i - 1 : r[order[j]] = s[order[j]]
  BY <1>3
<1>c. order[i] \in 1 .. width /\ r[order[i]] # s[order[i]]
  BY <1>1, <1>b
<1>5. r[order[i]] \in Nat /\ s[order[i]] \in Nat /\ r[order[i]] # s[order[i]]
  BY <1>c
<1>6. Before(r[order[i]], s[order[i]]) \/ Before(s[order[i]], r[order[i]])
  BY <1>5, BeforeIsOrder
<1> QED BY <1>2, <1>4, <1>6 DEF Precedes

LEMMA PrecedesIrreflexive ==
  ASSUME NEW r, NEW order
  PROVE  ~Precedes(r, r, order)
BY DEF Precedes, Before

LEMMA PrecedesTransitive ==
  ASSUME reader \in {"postgresql", "mysql"}, NEW width \in Nat, NEW order \in Seq(1 .. width),
         NEW r \in [1 .. width -> Nat], NEW s \in [1 .. width -> Nat], NEW t \in [1 .. width -> Nat],
         Precedes(r, s, order), Precedes(s, t, order)
  PROVE  Precedes(r, t, order)
<1> DEFINE at(x, i) == x[order[i]]
<1>0. DOMAIN order = 1 .. Len(order) /\ Len(order) \in Nat /\ order \in [1 .. Len(order) -> 1 .. width]
  BY LenProperties
<1>1. PICK i \in 1 .. Len(order) : Before(at(r, i), at(s, i)) /\ \A j \in 1 .. i - 1 : at(r, j) = at(s, j)
  BY <1>0 DEF Precedes
<1>2. PICK k \in 1 .. Len(order) : Before(at(s, k), at(t, k)) /\ \A j \in 1 .. k - 1 : at(s, j) = at(t, j)
  BY <1>0 DEF Precedes
<1>3. \A j \in 1 .. Len(order) : at(r, j) \in Nat /\ at(s, j) \in Nat /\ at(t, j) \in Nat
  BY <1>0
<1>4. Precedes(r, t, order) <=>
        \E m \in 1 .. Len(order) : Before(at(r, m), at(t, m)) /\ \A j \in 1 .. m - 1 : at(r, j) = at(t, j)
  BY <1>0 DEF Precedes
<1> HIDE DEF at
<1>5. CASE i < k
  <2>1. at(s, i) = at(t, i) /\ \A j \in 1 .. i - 1 : at(r, j) = at(t, j)
    BY <1>1, <1>2, <1>5
  <2> QED BY <1>1, <1>4, <2>1
<1>6. CASE k < i
  <2>1. at(r, k) = at(s, k) /\ \A j \in 1 .. k - 1 : at(r, j) = at(t, j)
    BY <1>1, <1>2, <1>6
  <2> QED BY <1>2, <1>4, <2>1
<1>7. CASE i = k
  <2>1. Before(at(r, i), at(t, i))
    BY <1>1, <1>2, <1>3, <1>7, BeforeIsOrder
  <2>2. \A j \in 1 .. i - 1 : at(r, j) = at(t, j)
    BY <1>1, <1>2, <1>7
  <2> QED BY <1>1, <1>4, <2>1, <2>2
<1> QED BY <1>1, <1>2, <1>5, <1>6, <1>7

(* What comes no later than a row that precedes another one precedes it.   *)
LEMMA PrecedesLater ==
  ASSUME reader \in {"postgresql", "mysql"}, NEW width \in Nat, NEW order \in Seq(1 .. width),
         NEW r \in [1 .. width -> Nat], NEW s \in [1 .. width -> Nat], NEW t \in [1 .. width -> Nat],
         ~Precedes(s, r, order), Precedes(s, t, order)
  PROVE  Precedes(r, t, order)
<1>1. CASE \E i \in DOMAIN order : r[order[i]] # s[order[i]]
  <2>1. Precedes(r, s, order)
    BY <1>1, RowsAreOrdered
  <2> QED BY <2>1, PrecedesTransitive
<1>2. CASE \A i \in DOMAIN order : r[order[i]] = s[order[i]]
  <2>1. \A i \in DOMAIN order : \A j \in 1 .. i - 1 : j \in DOMAIN order
    OBVIOUS
  <2> QED BY <1>2, <2>1 DEF Precedes
<1> QED BY <1>1, <1>2

(* The rows of one table in two answers: the same but for rows that the    *)
(* order does not tell apart.                                              *)
InOrder(p, all, order) == \A i, j \in DOMAIN p : i < j => ~Precedes(all[p[j]], all[p[i]], order)

LEMMA AnswersAgree ==
  ASSUME reader \in {"postgresql", "mysql"}, NEW width \in Nat, NEW order \in Seq(1 .. width),
         NEW all \in Seq([1 .. width -> Nat]),
         NEW p \in SetToSeqs(DOMAIN all), InOrder(p, all, order),
         NEW q \in SetToSeqs(DOMAIN all), InOrder(q, all, order),
         NEW k \in DOMAIN all,
         Precedes(all[p[k]], all[q[k]], order)
  PROVE  FALSE
<1> DEFINE n == Len(all)
<1>1. n \in Nat /\ DOMAIN all = 1 .. n /\ IsFiniteSet(1 .. n) /\ Cardinality(1 .. n) = n
  <2>1. n \in Nat /\ DOMAIN all = 1 .. n
    OBVIOUS
  <2> HIDE DEF n
  <2> QED BY <2>1, UpTo
<1> HIDE DEF n
<1>2. /\ p \in [1 .. n -> 1 .. n] /\ \A i, j \in 1 .. n : i # j => p[i] # p[j]
      /\ q \in [1 .. n -> 1 .. n] /\ \A i, j \in 1 .. n : i # j => q[i] # q[j]
  BY <1>1 DEF SetToSeqs
<1>3. \A i \in 1 .. n : \E m \in 1 .. n : q[m] = i
  <2>1. q \in Injection(1 .. n, 1 .. n)
    BY <1>2 DEF Injection, IsInjective
  <2>2. q \in Surjection(1 .. n, 1 .. n)
    BY <1>1, <2>1, FS_Injection
  <2> QED BY <2>2 DEF Surjection
<1>4. \A i \in 1 .. n : all[i] \in [1 .. width -> Nat]
  BY <1>1
<1>5. ASSUME NEW i \in 1 .. k PROVE Precedes(all[p[i]], all[q[k]], order)
  <2>1. k \in 1 .. n /\ i \in 1 .. n
    BY <1>1
  <2>2. p[i] \in 1 .. n /\ p[k] \in 1 .. n /\ q[k] \in 1 .. n
    BY <1>2, <2>1
  <2>3. ~Precedes(all[p[k]], all[p[i]], order)
    <3>1. CASE i = k
      BY <3>1, PrecedesIrreflexive
    <3>2. CASE i < k
      BY <1>2, <2>1, <3>2 DEF InOrder
    <3> QED BY <2>1, <3>1, <3>2
  <2>4. all[p[i]] \in [1 .. width -> Nat] /\ all[p[k]] \in [1 .. width -> Nat] /\ all[q[k]] \in [1 .. width -> Nat]
    BY <1>4, <2>2
  <2> QED BY <2>3, <2>4, PrecedesLater
<1>6. ASSUME NEW i \in 1 .. k PROVE \E m \in 1 .. k - 1 : q[m] = p[i]
  <2>1. k \in 1 .. n /\ i \in 1 .. n
    BY <1>1
  <2>a. p[i] \in 1 .. n
    BY <1>2, <2>1
  <2>2. PICK m \in 1 .. n : q[m] = p[i]
    BY <1>3, <2>a
  <2>3. Precedes(all[q[m]], all[q[k]], order)
    BY <1>5, <2>2
  <2>4. m # k
    BY <2>3, PrecedesIrreflexive
  <2>5. ~ (k < m)
    BY <1>2, <2>1, <2>3 DEF InOrder
  <2> QED BY <2>1, <2>2, <2>4, <2>5
<1> DEFINE f == [i \in 1 .. k |-> CHOOSE m \in 1 .. k - 1 : q[m] = p[i]]
<1>7. \A i \in 1 .. k : f[i] \in 1 .. k - 1 /\ q[f[i]] = p[i]
  <2>1. \A i \in 1 .. k : \E m \in 1 .. k - 1 : q[m] = p[i]
    BY <1>6
  <2> QED BY <2>1
<1>8. f = [i \in 1 .. k |-> f[i]]
  OBVIOUS
<1> HIDE DEF f
<1>9. f \in Injection(1 .. k, 1 .. k - 1)
  <2>1. f \in [1 .. k -> 1 .. k - 1]
    BY <1>7, <1>8
  <2>2. \A i, j \in 1 .. k : f[i] = f[j] => i = j
    <3> SUFFICES ASSUME NEW i \in 1 .. k, NEW j \in 1 .. k, f[i] = f[j] PROVE i = j
      OBVIOUS
    <3>1. p[i] = p[j]
      BY <1>7
    <3>2. i \in 1 .. n /\ j \in 1 .. n
      BY <1>1
    <3> QED BY <1>2, <3>1, <3>2
  <2> QED BY <2>1, <2>2 DEF Injection, IsInjective
<1>10. /\ IsFiniteSet(1 .. k) /\ Cardinality(1 .. k) = k
       /\ IsFiniteSet(1 .. k - 1) /\ Cardinality(1 .. k - 1) = k - 1
  <2>1. k \in Nat /\ k - 1 \in Nat
    BY <1>1
  <2> QED BY <2>1, UpTo
<1>11. Cardinality(1 .. k) <= Cardinality(1 .. k - 1)
  BY <1>9, <1>10, FS_Injection
<1> QED BY <1>1, <1>10, <1>11

-----------------------------------------------------------------------------
(* KeysetReader: keys and orders.                                          *)

LEMMA ElementsOf ==
  ASSUME NEW S, NEW s \in Seq(S)
  PROVE  /\ ToSet(s) \subseteq S
         /\ s = <<>> <=> ToSet(s) = {}
         /\ \A i \in 1 .. Len(s) : s[i] \in ToSet(s)
         /\ \A c \in ToSet(s) : \E i \in 1 .. Len(s) : s[i] = c
<1>1. DOMAIN s = 1 .. Len(s) /\ Len(s) \in Nat /\ s \in [1 .. Len(s) -> S]
  BY LenProperties
<1>2. ToSet(s) = {s[i] : i \in 1 .. Len(s)}
  BY <1>1 DEF ToSet
<1>3. s = <<>> <=> Len(s) = 0
  BY EmptySeq
<1>4. Len(s) # 0 => 1 \in 1 .. Len(s)
  BY <1>1
<1>5. Len(s) = 0 => 1 .. Len(s) = {}
  BY <1>1
<1> QED BY <1>1, <1>2, <1>3, <1>4, <1>5

LEMMA AmongIs ==
  ASSUME NEW width \in Nat, NEW columns \in Seq(1 .. width), NEW chosen
  PROVE  /\ Among(columns, chosen) \in Seq(1 .. width)
         /\ ToSet(Among(columns, chosen)) = ToSet(columns) \cap ToSet(chosen)
<1> DEFINE places == {p \in DOMAIN columns : columns[p] \in ToSet(chosen)}
           at == Sorted(places)
<1>1. DOMAIN columns = 1 .. Len(columns) /\ Len(columns) \in Nat /\ columns \in [1 .. Len(columns) -> 1 .. width]
  BY LenProperties
<1>2. places \in SUBSET Nat /\ IsFiniteSet(places) /\ places \subseteq 1 .. Len(columns)
  <2>1. IsFiniteSet(1 .. Len(columns))
    BY <1>1, UpTo
  <2>2. places \subseteq 1 .. Len(columns)
    BY <1>1
  <2>3. IsFiniteSet(places)
    BY <2>1, <2>2, FS_Subset
  <2>4. 1 .. Len(columns) \subseteq Nat
    BY <1>1
  <2> HIDE DEF places
  <2> QED BY <2>2, <2>3, <2>4
<1>3. /\ at \in Seq(places)
      /\ \A a \in places : \E i \in 1 .. Len(at) : at[i] = a
  <2> HIDE DEF places
  <2> QED BY <1>2, SortedEnumerates
<1>4. Len(at) = Cardinality(places) /\ Cardinality(places) \in Nat
  <2> HIDE DEF places
  <2>1. Cardinality(places) \in Nat
    BY <1>2, FS_CardinalityType
  <2> QED BY <2>1 DEF Sorted
<1>5. Among(columns, chosen) = [k \in 1 .. Cardinality(places) |-> columns[at[k]]]
  BY DEF Among, Picked
<1>6. \A k \in 1 .. Cardinality(places) : at[k] \in places
  <2> HIDE DEF places, at
  <2> QED BY <1>3, <1>4, LenProperties
<1>7. Among(columns, chosen) \in Seq(1 .. width)
  <2>1. \A k \in 1 .. Cardinality(places) : columns[at[k]] \in 1 .. width
    <3> HIDE DEF places, at
    <3> QED BY <1>1, <1>2, <1>6
  <2> HIDE DEF places, at
  <2>2. Among(columns, chosen) \in [1 .. Cardinality(places) -> 1 .. width]
    BY <1>5, <2>1
  <2> DEFINE n == Cardinality(places)
  <2>3. n \in Nat /\ Among(columns, chosen) \in [1 .. n -> 1 .. width]
    BY <1>4, <2>2
  <2> HIDE DEF n
  <2> QED BY <2>3, SeqDef
<1>8. ASSUME NEW c
      PROVE  c \in ToSet(Among(columns, chosen)) <=> c \in ToSet(columns) /\ c \in ToSet(chosen)
  <2> DEFINE s == Among(columns, chosen)
  <2>1. c \in ToSet(s) <=> \E k \in 1 .. Cardinality(places) : columns[at[k]] = c
    <3> HIDE DEF places, at
    <3> QED BY <1>5 DEF ToSet
  <2>2. c \in ToSet(columns) <=> \E i \in DOMAIN columns : columns[i] = c
    BY DEF ToSet
  <2>3. ASSUME NEW k \in 1 .. Cardinality(places), columns[at[k]] = c
        PROVE  c \in ToSet(columns) /\ c \in ToSet(chosen)
    <3>1. at[k] \in places
      BY <1>6
    <3> HIDE DEF at
    <3> QED BY <2>2, <2>3, <3>1
  <2>4. ASSUME NEW i \in DOMAIN columns, columns[i] = c, c \in ToSet(chosen)
        PROVE  \E k \in 1 .. Cardinality(places) : columns[at[k]] = c
    <3>1. i \in places
      BY <2>4
    <3> HIDE DEF places, at
    <3> QED BY <1>3, <1>4, <2>4, <3>1
  <2> HIDE DEF s, places, at
  <2> QED BY <2>1, <2>2, <2>3, <2>4 DEF s
<1>9. ToSet(Among(columns, chosen)) = ToSet(columns) \cap ToSet(chosen)
  BY <1>8
<1> QED BY <1>7, <1>9
Order == StableOrder(read.read)

FirstKeys == {ResumeKey(Order), ResumeKey(StableOrder(Writable))}

CountsRows(keys) == keys = <<>> /\ Order # <<>>

Good(keys) == Faithful(keys, Order) \/ CountsRows(keys)

RowAnswers == {p \in SetToSeqs(DOMAIN read.rows) : InOrder(p, read.rows, Order)}

FirstRows(p, o) == ToBag([k \in 1 .. o |-> Copied(read.rows[p[k]])])

RestRows(p, o) == [k \in 1 .. Len(read.rows) - o |-> read.rows[p[o + k]]]

Reached(p, o, c) ==
  /\ Faithful(c.keys, Order) =>
       /\ c.last = <<>> \/ c.last \in [DOMAIN c.keys -> Nat]
       /\ \A k \in DOMAIN read.rows : Behind(read.rows[p[k]], c) <=> k > o
  /\ CountsRows(c.keys) => c.last = <<>> /\ c.offset = o

(* The shape of a cursor, as far as records have one.                      *)
CursorShape(c) ==
  /\ c = [keys |-> c.keys, last |-> c.last, offset |-> c.offset, none |-> c.none]
  /\ c.none \in BOOLEAN

ReaderTypes ==
  /\ read \in ReadTables /\ reader \in {"postgresql", "mysql"}
  /\ reading \in {"no", "yes", "completed"} /\ stops \in Nat
  /\ CursorShape(cursor) /\ CursorShape(recorded)

KeysInv ==
  /\ recorded.none => recorded = NoCursor /\ taken = EmptyBag
  /\ ~recorded.none => recorded.keys \in FirstKeys
  /\ reading # "no" => cursor.keys \in FirstKeys /\ ~cursor.none
  /\ reading # "no" /\ ~recorded.none => recorded.keys = cursor.keys
  /\ reading = "no" /\ stops = 0 => recorded.none
  /\ reading = "completed" => unread = <<>>

OpenedInv ==
  reading # "no" /\ (stops = 0 \/ Good(cursor.keys)) =>
    \E p \in RowAnswers, o \in 0 .. Len(read.rows) :
      taken = FirstRows(p, o) /\ unread = RestRows(p, o) /\ Reached(p, o, cursor)

RecordedInv ==
  ~recorded.none /\ Good(recorded.keys) =>
    \E p \in RowAnswers, o \in 0 .. Len(read.rows) : taken = FirstRows(p, o) /\ Reached(p, o, recorded)

ReaderInv == ReaderTypes /\ KeysInv /\ OpenedInv /\ RecordedInv

LEMMA TableTypes ==
  ASSUME ReaderTypes
  PROVE  /\ read.width \in Nat /\ read.rows \in Seq([1 .. read.width -> Even])
         /\ read.primary \in Seq(1 .. read.width) /\ read.unique \in Seq(1 .. read.width)
         /\ read.read \in Seq(1 .. read.width) /\ ToSet(read.read) \cap read.generated = {}
         /\ FetchSize \in Nat \ {0}
BY ReaderAssumption DEF ReaderTypes

LEMMA WritableIs ==
  ASSUME ReaderTypes
  PROVE  Writable \in Seq(1 .. read.width) /\ ToSet(Writable) = (1 .. read.width) \ read.generated
<1> DEFINE S == (1 .. read.width) \ read.generated
<1>1. read.width \in Nat
  BY TableTypes
<1>2. S \in SUBSET Nat /\ S \subseteq 1 .. read.width
  BY <1>1
<1>3. IsFiniteSet(S)
  <2>1. IsFiniteSet(1 .. read.width)
    BY <1>1, UpTo
  <2> HIDE DEF S
  <2> QED BY <1>2, <2>1, FS_Subset
<1> HIDE DEF S
<1>4. /\ Sorted(S) \in Seq(S)
      /\ \A a \in S : \E i \in 1 .. Len(Sorted(S)) : Sorted(S)[i] = a
  BY <1>2, <1>3, SortedEnumerates
<1>5. Sorted(S) \in Seq(1 .. read.width)
  BY <1>2, <1>4, SeqMonotonic
<1>6. ToSet(Sorted(S)) \subseteq S /\ \A i \in 1 .. Len(Sorted(S)) : Sorted(S)[i] \in ToSet(Sorted(S))
  BY <1>4, ElementsOf
<1>7. ToSet(Sorted(S)) = S
  BY <1>4, <1>6
<1> QED BY <1>5, <1>7 DEF S, Writable

LEMMA OrdersAre ==
  ASSUME ReaderTypes, NEW columns \in Seq(1 .. read.width)
  PROVE  /\ StableOrder(columns) \in Seq(1 .. read.width)
         /\ ResumeKey(StableOrder(columns)) \in Seq(1 .. read.width)
         /\ ToSet(StableOrder(columns)) \subseteq ToSet(columns)
         /\ read.primary # <<>> => /\ ToSet(StableOrder(columns)) = ToSet(read.primary) \cap ToSet(columns)
                                   /\ ToSet(ResumeKey(StableOrder(columns))) = ToSet(read.primary) \cap ToSet(columns)
<1>1. read.width \in Nat /\ read.primary \in Seq(1 .. read.width) /\ read.unique \in Seq(1 .. read.width)
  BY TableTypes
<1>2. /\ Among(read.primary, columns) \in Seq(1 .. read.width)
      /\ ToSet(Among(read.primary, columns)) = ToSet(read.primary) \cap ToSet(columns)
  BY <1>1, AmongIs
<1>3. /\ StableOrder(columns) \in Seq(1 .. read.width)
      /\ ToSet(StableOrder(columns)) \subseteq ToSet(columns)
      /\ read.primary # <<>> => ToSet(StableOrder(columns)) = ToSet(read.primary) \cap ToSet(columns)
  BY <1>2 DEF StableOrder
<1> DEFINE o == StableOrder(columns)
<1>4. /\ Among(read.primary, o) \in Seq(1 .. read.width) /\ Among(read.unique, o) \in Seq(1 .. read.width)
      /\ ToSet(Among(read.primary, o)) = ToSet(read.primary) \cap ToSet(o)
  BY <1>1, AmongIs
<1>5. /\ ResumeKey(o) \in Seq(1 .. read.width)
      /\ read.primary # <<>> => ResumeKey(o) = Among(read.primary, o)
  BY <1>4 DEF ResumeKey
<1> HIDE DEF o
<1>6. read.primary # <<>> => ToSet(ResumeKey(o)) = ToSet(read.primary) \cap ToSet(columns)
  BY <1>3, <1>4, <1>5 DEF o
<1> QED BY <1>3, <1>5, <1>6 DEF o

LEMMA OrderIs ==
  ASSUME ReaderTypes
  PROVE  /\ Order \in Seq(1 .. read.width) /\ ToSet(Order) \subseteq ToSet(read.read)
         /\ ToSet(read.read) \subseteq 1 .. read.width
BY TableTypes, OrdersAre, ElementsOf DEF Order

LEMMA KeysAre ==
  ASSUME ReaderTypes, NEW keys \in FirstKeys
  PROVE  /\ keys \in Seq(1 .. read.width)
         /\ CountsRows(keys) => Order = read.read
<1>1. read.read \in Seq(1 .. read.width) /\ Writable \in Seq(1 .. read.width)
  BY TableTypes, WritableIs
<1>2. keys \in Seq(1 .. read.width)
  BY <1>1, OrdersAre DEF FirstKeys, Order
<1>3. ASSUME CountsRows(keys), read.primary # <<>> PROVE FALSE
  <2>1. ToSet(keys) = {} /\ ToSet(Order) # {}
    <3>1. keys = <<>> => ToSet(keys) = {}
      BY <1>2, ElementsOf
    <3>2. Order # <<>> => ToSet(Order) # {}
      BY OrderIs, ElementsOf
    <3> QED BY <1>3, <3>1, <3>2 DEF CountsRows
  <2>2. ToSet(Order) = ToSet(read.primary) \cap ToSet(read.read)
    BY <1>1, <1>3, OrdersAre DEF Order
  <2>3. ToSet(read.read) \subseteq ToSet(Writable)
    <3>1. ToSet(read.read) \subseteq (1 .. read.width) \ read.generated
      BY TableTypes, OrderIs
    <3> QED BY <3>1, WritableIs
  <2>4. \/ ToSet(keys) = ToSet(read.primary) \cap ToSet(read.read)
        \/ ToSet(keys) = ToSet(read.primary) \cap ToSet(Writable)
    BY <1>1, <1>3, OrdersAre DEF FirstKeys, Order
  <2> QED BY <2>1, <2>2, <2>3, <2>4
<1>4. read.primary = <<>> => Order = read.read
  BY DEF Order, StableOrder
<1> QED BY <1>2, <1>3, <1>4

-----------------------------------------------------------------------------
(* KeysetReader: answers and the rows behind a cursor.                     *)

LEMMA EvenAreNumbers == Even \subseteq Nat
BY DEF Even

LEMMA RowsAre ==
  ASSUME ReaderTypes
  PROVE  /\ Len(read.rows) \in Nat /\ DOMAIN read.rows = 1 .. Len(read.rows)
         /\ read.rows \in Seq([1 .. read.width -> Nat])
         /\ \A i \in 1 .. Len(read.rows) : read.rows[i] \in [1 .. read.width -> Nat]
<1>1. read.rows \in Seq([1 .. read.width -> Even])
  BY TableTypes
<1>2. [1 .. read.width -> Even] \subseteq [1 .. read.width -> Nat]
  BY EvenAreNumbers
<1>3. read.rows \in Seq([1 .. read.width -> Nat])
  BY <1>1, <1>2, SeqMonotonic
<1>4. Len(read.rows) \in Nat /\ DOMAIN read.rows = 1 .. Len(read.rows)
      /\ read.rows \in [1 .. Len(read.rows) -> [1 .. read.width -> Nat]]
  BY <1>3, LenProperties
<1> QED BY <1>3, <1>4

LEMMA PermutationsAre ==
  ASSUME NEW n \in Nat, NEW p \in SetToSeqs(1 .. n)
  PROVE  /\ p \in [1 .. n -> 1 .. n]
         /\ \A i, j \in 1 .. n : p[i] = p[j] => i = j
         /\ \A i \in 1 .. n : \E k \in 1 .. n : p[k] = i
<1>1. IsFiniteSet(1 .. n) /\ Cardinality(1 .. n) = n
  BY UpTo
<1>2. p \in [1 .. n -> 1 .. n] /\ \A i, j \in 1 .. n : p[i] = p[j] => i = j
  BY <1>1 DEF SetToSeqs
<1>3. p \in Injection(1 .. n, 1 .. n)
  BY <1>2 DEF Injection, IsInjective
<1>4. p \in Surjection(1 .. n, 1 .. n)
  BY <1>1, <1>3, FS_Injection
<1> QED BY <1>2, <1>4 DEF Surjection

LEMMA RowAnswersAre ==
  ASSUME ReaderTypes, NEW p \in RowAnswers
  PROVE  LET n == Len(read.rows)
         IN  /\ p \in SetToSeqs(1 .. n) /\ p \in [1 .. n -> 1 .. n]
             /\ \A i, j \in 1 .. n : p[i] = p[j] => i = j
             /\ \A i \in 1 .. n : \E k \in 1 .. n : p[k] = i
             /\ \A i, j \in 1 .. n : i < j => ~Precedes(read.rows[p[j]], read.rows[p[i]], Order)
             /\ \A k \in 1 .. n : read.rows[p[k]] \in [1 .. read.width -> Nat]
<1> DEFINE n == Len(read.rows)
<1>1. n \in Nat /\ DOMAIN read.rows = 1 .. n
      /\ \A i \in 1 .. n : read.rows[i] \in [1 .. read.width -> Nat]
  BY RowsAre
<1>2. p \in SetToSeqs(1 .. n) /\ InOrder(p, read.rows, Order)
  BY <1>1 DEF RowAnswers
<1> HIDE DEF n
<1>3. /\ p \in [1 .. n -> 1 .. n]
      /\ \A i, j \in 1 .. n : p[i] = p[j] => i = j
      /\ \A i \in 1 .. n : \E k \in 1 .. n : p[k] = i
  BY <1>1, <1>2, PermutationsAre
<1>4. DOMAIN p = 1 .. n
  BY <1>3
<1>5. \A i, j \in 1 .. n : i < j => ~Precedes(read.rows[p[j]], read.rows[p[i]], Order)
  BY <1>2, <1>4 DEF InOrder
<1>6. \A k \in 1 .. n : read.rows[p[k]] \in [1 .. read.width -> Nat]
  BY <1>1, <1>3
<1> QED BY <1>2, <1>3, <1>5, <1>6 DEF n

LEMMA PrefixPrecedes ==
  ASSUME NEW S, NEW order \in Seq(S), NEW keys \in Seq(S), IsPrefix(keys, order),
         NEW r, NEW s, Precedes(r, s, keys)
  PROVE  Precedes(r, s, order)
<1>1. /\ DOMAIN order = 1 .. Len(order) /\ Len(order) \in Nat
      /\ DOMAIN keys = 1 .. Len(keys) /\ Len(keys) \in Nat
  BY LenProperties
<1>2. Len(keys) <= Len(order) /\ \A i \in 1 .. Len(keys) : keys[i] = order[i]
  <2>1. Len(keys) <= Len(order) /\ SubSeq(keys, 1, Len(keys)) = SubSeq(order, 1, Len(keys))
    BY DEF IsPrefix
  <2>2. \A i \in 1 .. Len(keys) : SubSeq(keys, 1, Len(keys))[i] = keys[i] /\ SubSeq(order, 1, Len(keys))[i] = order[i]
    BY <1>1, <2>1
  <2> QED BY <2>1, <2>2
<1>3. PICK i \in 1 .. Len(keys) : /\ Before(r[keys[i]], s[keys[i]])
                                  /\ \A j \in 1 .. i - 1 : r[keys[j]] = s[keys[j]]
  BY <1>1 DEF Precedes
<1>4. i \in 1 .. Len(order) /\ \A j \in 1 .. i - 1 : j \in 1 .. Len(keys)
  BY <1>1, <1>2
<1>5. keys[i] = order[i] /\ \A j \in 1 .. i - 1 : keys[j] = order[j]
  BY <1>2, <1>4
<1>6. Before(r[order[i]], s[order[i]]) /\ \A j \in 1 .. i - 1 : r[order[j]] = s[order[j]]
  BY <1>3, <1>5
<1> QED BY <1>1, <1>4, <1>6 DEF Precedes

(* With a faithful key the row comparison of the query means after, in the *)
(* order of the key.                                                       *)
LEMMA BehindIsPrecedes ==
  ASSUME ReaderTypes, NEW c, c.keys \in Seq(1 .. read.width), Faithful(c.keys, Order),
         NEW x \in 1 .. Len(read.rows), NEW y \in 1 .. Len(read.rows),
         c.last = [i \in DOMAIN c.keys |-> read.rows[x][c.keys[i]]]
  PROVE  Behind(read.rows[y], c) <=> Precedes(read.rows[x], read.rows[y], c.keys)
<1> DEFINE r == read.rows[x]
           s == read.rows[y]
           keys == c.keys
           m == Len(keys)
<1>1. DOMAIN keys = 1 .. m /\ m \in Nat /\ keys \in [1 .. m -> 1 .. read.width] /\ m # 0
  BY LenProperties, EmptySeq DEF Faithful
<1>2. /\ x \in DOMAIN read.rows /\ y \in DOMAIN read.rows
      /\ r \in [1 .. read.width -> Nat] /\ s \in [1 .. read.width -> Nat]
  BY RowsAre
<1>3. \A i \in 1 .. m : keys[i] \in ToSet(keys)
  BY <1>1 DEF ToSet
<1>4. \A i \in 1 .. m : r[keys[i]] # 0 /\ s[keys[i]] # 0
  BY <1>2, <1>3 DEF Faithful
<1>5. \A i \in 1 .. m : r[keys[i]] \in Nat /\ s[keys[i]] \in Nat
  BY <1>1, <1>2
<1>6. \A i \in 1 .. m : Before(r[keys[i]], s[keys[i]]) <=> s[keys[i]] > r[keys[i]]
  BY <1>4, <1>5 DEF Before
<1>7. DOMAIN c.last = 1 .. m /\ \A i \in 1 .. m : c.last[i] = r[keys[i]]
  BY <1>1
<1>8. c.last # <<>>
  <2>1. 1 \in DOMAIN c.last
    BY <1>1, <1>7
  <2>2. DOMAIN << >> = {}
    OBVIOUS
  <2> QED BY <2>1, <2>2
<1>9. \A i \in 1 .. m : \A j \in 1 .. i - 1 : j \in 1 .. m
  BY <1>1
<1>10. Behind(s, c) <=> \E i \in 1 .. m : /\ c.last[i] # 0 /\ s[keys[i]] > c.last[i]
                                          /\ \A j \in 1 .. i - 1 : c.last[j] # 0 /\ s[keys[j]] = c.last[j]
  BY <1>7, <1>8 DEF Behind
<1>11. Precedes(r, s, keys) <=> \E i \in 1 .. m : /\ Before(r[keys[i]], s[keys[i]])
                                                 /\ \A j \in 1 .. i - 1 : r[keys[j]] = s[keys[j]]
  BY <1>1 DEF Precedes
<1> HIDE DEF r, s, keys, m
<1>12. Behind(s, c) => Precedes(r, s, keys)
  <2> SUFFICES ASSUME Behind(s, c) PROVE Precedes(r, s, keys)
    OBVIOUS
  <2>1. PICK i \in 1 .. m : /\ s[keys[i]] > c.last[i]
                            /\ \A j \in 1 .. i - 1 : s[keys[j]] = c.last[j]
    BY <1>10
  <2>2. Before(r[keys[i]], s[keys[i]])
    BY <1>6, <1>7, <2>1
  <2>3. ASSUME NEW j \in 1 .. i - 1 PROVE r[keys[j]] = s[keys[j]]
    <3>1. j \in 1 .. m
      BY <1>9
    <3>2. s[keys[j]] = c.last[j]
      BY <2>1
    <3> QED BY <1>7, <3>1, <3>2
  <2> QED BY <1>11, <2>2, <2>3
<1>13. Precedes(r, s, keys) => Behind(s, c)
  <2> SUFFICES ASSUME Precedes(r, s, keys) PROVE Behind(s, c)
    OBVIOUS
  <2>1. PICK i \in 1 .. m : /\ Before(r[keys[i]], s[keys[i]])
                            /\ \A j \in 1 .. i - 1 : r[keys[j]] = s[keys[j]]
    BY <1>11
  <2>2. c.last[i] # 0 /\ s[keys[i]] > c.last[i]
    BY <1>4, <1>6, <1>7, <2>1
  <2>3. \A j \in 1 .. i - 1 : c.last[j] # 0 /\ s[keys[j]] = c.last[j]
    BY <1>4, <1>7, <1>9, <2>1
  <2> QED BY <1>10, <2>2, <2>3
<1> QED BY <1>12, <1>13 DEF r, s, keys

(* So the rows behind the last row of a batch are those after it in the    *)
(* answer.                                                                 *)
LEMMA BehindIsLater ==
  ASSUME ReaderTypes, NEW p \in RowAnswers, NEW c, c.keys \in Seq(1 .. read.width), Faithful(c.keys, Order),
         NEW m \in 1 .. Len(read.rows),
         c.last = [i \in DOMAIN c.keys |-> read.rows[p[m]][c.keys[i]]],
         NEW k \in 1 .. Len(read.rows)
  PROVE  Behind(read.rows[p[k]], c) <=> k > m
<1> DEFINE n == Len(read.rows)
           r == read.rows[p[m]]
           s == read.rows[p[k]]
<1>1. /\ p[m] \in 1 .. n /\ p[k] \in 1 .. n /\ n \in Nat /\ DOMAIN read.rows = 1 .. n
      /\ r \in [1 .. read.width -> Nat] /\ s \in [1 .. read.width -> Nat]
      /\ k < m => ~Precedes(r, s, Order)
      /\ m < k => ~Precedes(s, r, Order)
      /\ p[m] = p[k] => m = k
  <2>1. n \in Nat /\ DOMAIN read.rows = 1 .. n
    BY RowsAre
  <2>2. /\ p \in [1 .. n -> 1 .. n]
        /\ \A i, j \in 1 .. n : p[i] = p[j] => i = j
        /\ \A i, j \in 1 .. n : i < j => ~Precedes(read.rows[p[j]], read.rows[p[i]], Order)
        /\ \A i \in 1 .. n : read.rows[p[i]] \in [1 .. read.width -> Nat]
    BY RowAnswersAre
  <2> QED BY <2>1, <2>2
<1>2. Behind(s, c) <=> Precedes(r, s, c.keys)
  BY <1>1, BehindIsPrecedes
<1>3. IsPrefix(c.keys, Order) /\ Order \in Seq(1 .. read.width)
  BY OrderIs DEF Faithful
<1>4. /\ Precedes(r, s, c.keys) => Precedes(r, s, Order)
      /\ Precedes(s, r, c.keys) => Precedes(s, r, Order)
  BY <1>3, PrefixPrecedes
<1>5. CASE k > m
  <2>0. p[m] # p[k] /\ p[m] \in DOMAIN read.rows /\ p[k] \in DOMAIN read.rows
    BY <1>1, <1>5
  <2>1. PICK a \in ToSet(c.keys) : r[a] # s[a]
    BY <2>0 DEF Faithful
  <2>2. \E i \in DOMAIN c.keys : r[c.keys[i]] # s[c.keys[i]]
    BY <2>1 DEF ToSet
  <2>3. reader \in {"postgresql", "mysql"} /\ read.width \in Nat
    BY TableTypes DEF ReaderTypes
  <2> HIDE DEF n, r, s
  <2>4. Precedes(r, s, c.keys) \/ Precedes(s, r, c.keys)
    BY <1>1, <2>2, <2>3, RowsAreOrdered
  <2>5. m < k
    BY <1>1, <1>5
  <2>6. Precedes(r, s, c.keys)
    BY <1>1, <1>4, <2>4, <2>5
  <2> QED BY <1>2, <1>5, <2>6 DEF s
<1>6. CASE ~(k > m)
  <2>1. k < m \/ k = m
    BY <1>1, <1>6
  <2>2. ~Precedes(r, s, c.keys)
    BY <1>1, <1>4, <2>1, PrecedesIrreflexive
  <2> QED BY <1>2, <1>6, <2>2
<1> QED BY <1>5, <1>6

-----------------------------------------------------------------------------
(* KeysetReader: opening a query.                                          *)

LEMMA WholeAnswer ==
  ASSUME ReaderTypes, NEW c, c.last = <<>>, NEW u \in Rows(c)
  PROVE  \E q \in RowAnswers : u = RestRows(q, IF c.keys # <<>> THEN 0 ELSE c.offset)
<1> DEFINE skip == IF c.keys # <<>> THEN 0 ELSE c.offset
           n == Len(read.rows)
           behind == {i \in DOMAIN read.rows : Behind(read.rows[i], c)}
           sorted == {p \in SetToSeqs(behind) :
                        \A i, j \in DOMAIN p :
                          i < j => ~Precedes(read.rows[p[j]], read.rows[p[i]], StableOrder(read.read))}
<1>1. n \in Nat /\ DOMAIN read.rows = 1 .. n
  BY RowsAre
<1>2. behind = DOMAIN read.rows
  BY DEF Behind
<1>3. sorted = RowAnswers
  <2> HIDE DEF behind
  <2> QED BY <1>2 DEF RowAnswers, InOrder, Order
<1>4. Cardinality(behind) = n
  <2> HIDE DEF n, behind
  <2> QED BY <1>1, <1>2, UpTo
<1>5. Rows(c) = {[k \in 1 .. Cardinality(behind) - skip |-> read.rows[p[skip + k]]] : p \in sorted}
  BY DEF Rows
<1> HIDE DEF behind, sorted, skip, n
<1>6. PICK q \in RowAnswers : u = [k \in 1 .. n - skip |-> read.rows[q[skip + k]]]
  BY <1>3, <1>4, <1>5
<1>7. u = RestRows(q, skip)
  BY <1>6 DEF RestRows, n
<1> QED BY <1>7 DEF skip

LEMMA NothingFirst ==
  ASSUME NEW p
  PROVE  FirstRows(p, 0) = EmptyBag
<1>1. 1 .. 0 = {}
  OBVIOUS
<1> DEFINE s == [k \in 1 .. 0 |-> Copied(read.rows[p[k]])]
<1>2. DOMAIN s = {}
  BY <1>1
<1>3. Range(s) = {}
  <2> HIDE DEF s
  <2> QED BY <1>2 DEF Range
<1>4. ToBag(s) = [e \in {} |-> Cardinality({i \in DOMAIN s : s[i] = e})]
  <2> HIDE DEF s
  <2> QED BY <1>3 DEF ToBag
<1>5. EmptyBag = [e \in {} |-> 1]
  BY DEF EmptyBag, SetToBag
<1> HIDE DEF s
<1>6. ToBag(s) = EmptyBag
  BY <1>4, <1>5
<1> QED BY <1>6 DEF FirstRows, s

LEMMA FreshAnswer ==
  ASSUME ReaderTypes, NEW c, c.last = <<>>, c.offset = 0, NEW u \in Rows(c)
  PROVE  \E p \in RowAnswers : u = RestRows(p, 0) /\ FirstRows(p, 0) = EmptyBag /\ Reached(p, 0, c)
<1>1. PICK p \in RowAnswers : u = RestRows(p, 0)
  BY WholeAnswer
<1>2. \A k \in DOMAIN read.rows : k > 0
  BY RowsAre
<1>3. Reached(p, 0, c)
  BY <1>2 DEF Reached, Behind
<1> QED BY <1>1, <1>3, NothingFirst

(* Rows are counted in the same order each time: an answer differs from    *)
(* another one only in rows that are copied to the same row.               *)
LEMMA CountedAnswer ==
  ASSUME ReaderTypes, NEW c, c.keys \in FirstKeys, CountsRows(c.keys),
         NEW p \in RowAnswers, NEW o \in 0 .. Len(read.rows), Reached(p, o, c), NEW u \in Rows(c)
  PROVE  \E q \in RowAnswers : u = RestRows(q, o) /\ FirstRows(q, o) = FirstRows(p, o) /\ Reached(q, o, c)
<1>1. c.keys = <<>> /\ c.last = <<>> /\ c.offset = o
  BY DEF Reached, CountsRows
<1>2. PICK q \in RowAnswers : u = RestRows(q, o)
  BY <1>1, WholeAnswer
<1>3. Reached(q, o, c)
  BY <1>1 DEF Reached, Faithful
<1>4. Order = read.read /\ Order \in Seq(1 .. read.width) /\ read.width \in Nat
      /\ reader \in {"postgresql", "mysql"}
  BY KeysAre, OrderIs, TableTypes DEF ReaderTypes
<1>5. ASSUME NEW k \in 1 .. o PROVE Copied(read.rows[p[k]]) = Copied(read.rows[q[k]])
  <2> DEFINE n == Len(read.rows)
             r == read.rows[p[k]]
             s == read.rows[q[k]]
  <2>1. k \in 1 .. n /\ n \in Nat /\ DOMAIN read.rows = 1 .. n
        /\ read.rows \in Seq([1 .. read.width -> Nat])
    BY RowsAre
  <2>2. /\ p \in SetToSeqs(DOMAIN read.rows) /\ InOrder(p, read.rows, Order)
        /\ q \in SetToSeqs(DOMAIN read.rows) /\ InOrder(q, read.rows, Order)
    BY DEF RowAnswers
  <2>3. r \in [1 .. read.width -> Nat] /\ s \in [1 .. read.width -> Nat]
    BY <2>1, RowAnswersAre
  <2>4. ~Precedes(r, s, Order) /\ ~Precedes(s, r, Order)
    BY <1>4, <2>1, <2>2, AnswersAgree
  <2> HIDE DEF r, s, n
  <2>5. \A i \in DOMAIN Order : r[Order[i]] = s[Order[i]]
    BY <1>4, <2>3, <2>4, RowsAreOrdered
  <2>6. \A a \in ToSet(read.read) : r[a] = s[a]
    BY <1>4, <2>5 DEF ToSet
  <2>7. Copied(r) = Copied(s)
    BY <2>6 DEF Copied
  <2> QED BY <2>7 DEF r, s
<1>6. FirstRows(q, o) = FirstRows(p, o)
  <2>1. [k \in 1 .. o |-> Copied(read.rows[p[k]])] = [k \in 1 .. o |-> Copied(read.rows[q[k]])]
    BY <1>5
  <2> QED BY <2>1 DEF FirstRows
<1> QED BY <1>2, <1>3, <1>6

(* By the row comparison the answer goes on behind what was copied.        *)
LEMMA KeyedAnswer ==
  ASSUME ReaderTypes, NEW c, Faithful(c.keys, Order),
         NEW p \in RowAnswers, NEW o \in 0 .. Len(read.rows), Reached(p, o, c), NEW u \in Rows(c)
  PROVE  \E q \in RowAnswers : u = RestRows(q, o) /\ FirstRows(q, o) = FirstRows(p, o) /\ Reached(q, o, c)
<1> DEFINE n == Len(read.rows)
           all == read.rows
           behind == {i \in DOMAIN all : Behind(all[i], c)}
<1>1. n \in Nat /\ DOMAIN all = 1 .. n /\ IsFiniteSet(1 .. n) /\ Cardinality(1 .. n) = n
      /\ o \in Nat /\ o <= n
  <2>1. n \in Nat /\ DOMAIN all = 1 .. n
    BY RowsAre
  <2> HIDE DEF n
  <2> QED BY <2>1, UpTo DEF n
<1>2. /\ p \in [1 .. n -> 1 .. n]
      /\ \A i, j \in 1 .. n : p[i] = p[j] => i = j
      /\ \A i \in 1 .. n : \E k \in 1 .. n : p[k] = i
      /\ \A i, j \in 1 .. n : i < j => ~Precedes(all[p[j]], all[p[i]], Order)
  BY RowAnswersAre
<1>3. \A k \in 1 .. n : p[k] \in behind <=> k > o
  BY <1>1, <1>2 DEF Reached
<1>4. \A i \in behind : \E k \in 1 .. n : p[k] = i /\ k > o
  <2>1. behind \subseteq 1 .. n
    BY <1>1
  <2> HIDE DEF behind
  <2> QED BY <1>2, <1>3, <2>1
<1>5. c.keys # <<>>
  BY DEF Faithful
<1>6. Rows(c) = {[k \in 1 .. Cardinality(behind) - 0 |-> all[q[0 + k]]] :
                   q \in {q \in SetToSeqs(behind) : InOrder(q, all, Order)}}
  BY <1>5 DEF Rows, InOrder, Order
<1> HIDE DEF n, behind
<1>7. Cardinality(behind) = n - o
  <2> DEFINE f == [k \in 1 .. n - o |-> p[o + k]]
  <2>1. \A k \in 1 .. n - o : o + k \in 1 .. n /\ o + k > o
    BY <1>1
  <2>2. \A k \in 1 .. n : k > o => k - o \in 1 .. n - o /\ o + (k - o) = k
    BY <1>1
  <2>3. f \in [1 .. n - o -> behind]
    BY <1>3, <2>1
  <2>4. \A k, m \in 1 .. n - o : f[k] = f[m] => k = m
    <3> SUFFICES ASSUME NEW k \in 1 .. n - o, NEW m \in 1 .. n - o, p[o + k] = p[o + m] PROVE k = m
      OBVIOUS
    <3>1. o + k = o + m
      BY <1>2, <2>1
    <3> QED BY <1>1, <3>1
  <2>5. \A i \in behind : \E k \in 1 .. n - o : f[k] = i
    <3> TAKE i \in behind
    <3>1. PICK k \in 1 .. n : p[k] = i /\ k > o
      BY <1>4
    <3>2. f[k - o] = i /\ k - o \in 1 .. n - o
      BY <2>2, <3>1
    <3> HIDE DEF f
    <3> QED BY <3>2
  <2>6. n - o \in Nat
    BY <1>1
  <2>7. IsFiniteSet(1 .. n - o) /\ Cardinality(1 .. n - o) = n - o
    BY <2>6, UpTo
  <2> DEFINE D == 1 .. n - o
  <2> HIDE DEF f
  <2>8. Cardinality(D) = Cardinality(behind)
    <3>1. IsFiniteSet(D) /\ f \in [D -> behind] /\ (\A x, y \in D : f[x] = f[y] => x = y)
      BY <2>3, <2>4, <2>7
    <3>2. \A z \in behind : \E x \in D : f[x] = z
      BY <2>5
    <3> HIDE DEF D
    <3> QED BY <3>1, <3>2, OneToOne
  <2> QED BY <2>7, <2>8
<1>8. PICK q \in SetToSeqs(behind) : /\ InOrder(q, all, Order)
                                     /\ u = [k \in 1 .. n - o - 0 |-> all[q[0 + k]]]
  BY <1>6, <1>7
<1>9. q \in [1 .. n - o -> behind] /\ \A i, j \in 1 .. n - o : q[i] = q[j] => i = j
  BY <1>7 DEF SetToSeqs
<1>10. \A i, j \in 1 .. n - o : i < j => ~Precedes(all[q[j]], all[q[i]], Order)
  BY <1>8, <1>9 DEF InOrder
<1> DEFINE w == [k \in 1 .. n |-> IF k <= o THEN p[k] ELSE q[k - o]]
<1>11. \A k \in 1 .. n : /\ k <= o => w[k] = p[k] /\ p[k] \notin behind /\ p[k] \in 1 .. n
                         /\ ~(k <= o) => k - o \in 1 .. n - o /\ w[k] = q[k - o] /\ q[k - o] \in behind
  <2> TAKE k \in 1 .. n
  <2>1. CASE k <= o
    <3>1. ~(k > o)
      BY <1>1, <2>1
    <3> QED BY <1>2, <1>3, <2>1, <3>1
  <2>2. CASE ~(k <= o)
    <3>1. k - o \in 1 .. n - o
      BY <1>1, <2>2
    <3>2. q[k - o] \in behind
      BY <1>9, <3>1
    <3> QED BY <2>2, <3>1, <3>2
  <2> QED BY <2>1, <2>2
<1>12. DOMAIN w = 1 .. n /\ behind \subseteq 1 .. n
  BY <1>1 DEF behind
<1>13. w = [k \in 1 .. n |-> w[k]]
  OBVIOUS
<1> HIDE DEF w
<1>14. w \in [1 .. n -> 1 .. n]
  BY <1>11, <1>12, <1>13
<1>15. ASSUME NEW i \in 1 .. n, NEW j \in 1 .. n, w[i] = w[j] PROVE i = j
  <2>1. i <= o <=> j <= o
    BY <1>11, <1>15
  <2>2. CASE i <= o
    BY <1>2, <1>11, <1>15, <2>1, <2>2
  <2>3. CASE ~(i <= o)
    <3>1. q[i - o] = q[j - o] /\ i - o \in 1 .. n - o /\ j - o \in 1 .. n - o
      BY <1>11, <1>15, <2>1, <2>3
    <3>2. i - o = j - o
      BY <1>9, <3>1
    <3> QED BY <1>1, <3>2
  <2> QED BY <2>2, <2>3
<1>16. w \in SetToSeqs(DOMAIN all)
  BY <1>1, <1>14, <1>15 DEF SetToSeqs
<1>17. ASSUME NEW i \in 1 .. n, NEW j \in 1 .. n, i < j
       PROVE  ~Precedes(all[w[j]], all[w[i]], Order)
  <2>1. CASE j <= o
    <3>1. i <= o
      BY <1>1, <1>17, <2>1
    <3> QED BY <1>2, <1>11, <1>17, <2>1, <3>1
  <2>2. CASE ~(j <= o) /\ ~(i <= o)
    <3>1. i - o < j - o
      BY <1>1, <1>17
    <3>2. /\ i - o \in 1 .. n - o /\ w[i] = q[i - o]
          /\ j - o \in 1 .. n - o /\ w[j] = q[j - o]
      BY <1>11, <2>2
    <3>3. ~Precedes(all[q[j - o]], all[q[i - o]], Order)
      BY <1>10, <3>1, <3>2
    <3> QED BY <3>2, <3>3
  <2>3. CASE ~(j <= o) /\ i <= o
    <3>1. PICK k \in 1 .. n : p[k] = w[j] /\ k > o
      BY <1>4, <1>11, <2>3
    <3>2. i < k
      BY <1>1, <2>3, <3>1
    <3> QED BY <1>2, <1>11, <2>3, <3>1, <3>2
  <2> QED BY <2>1, <2>2, <2>3
<1>18. InOrder(w, all, Order)
  BY <1>12, <1>17 DEF InOrder
<1>19. w \in RowAnswers
  BY <1>16, <1>18 DEF RowAnswers
<1>20. u = RestRows(w, o)
  <2>1. \A k \in 1 .. n - o : o + k \in 1 .. n /\ ~(o + k <= o) /\ (o + k) - o = k /\ 0 + k = k
    BY <1>1
  <2>2. n - o - 0 = n - o
    BY <1>1
  <2>3. \A k \in 1 .. n - o : all[q[0 + k]] = all[w[o + k]]
    BY <1>11, <2>1
  <2>4. u = [k \in 1 .. n - o |-> all[w[o + k]]]
    BY <1>8, <2>2, <2>3
  <2> QED BY <2>4 DEF RestRows, n
<1>21. FirstRows(w, o) = FirstRows(p, o)
  <2>1. \A k \in 1 .. o : k \in 1 .. n /\ k <= o
    BY <1>1
  <2>2. \A k \in 1 .. o : w[k] = p[k]
    BY <1>11, <2>1
  <2> QED BY <2>2 DEF FirstRows
<1>22. \A k \in 1 .. n : Behind(all[w[k]], c) <=> k > o
  <2> TAKE k \in 1 .. n
  <2>1. k > o <=> ~(k <= o)
    BY <1>1
  <2>2. w[k] \in behind <=> k > o
    BY <1>11, <2>1
  <2>3. w[k] \in 1 .. n
    BY <1>14
  <2>4. w[k] \in behind <=> Behind(all[w[k]], c)
    BY <1>1, <2>3 DEF behind
  <2> QED BY <2>2, <2>4
<1>23. Reached(w, o, c)
  BY <1>1, <1>5, <1>22 DEF Reached, CountsRows
<1> QED BY <1>19, <1>20, <1>21, <1>23

-----------------------------------------------------------------------------
(* KeysetReader: fetching a batch.                                         *)

LEMMA PartOf ==
  ASSUME NEW S, NEW s \in Seq(S), NEW a \in Nat, NEW b \in Nat, a <= b, b <= Len(s)
  PROVE  SubSeq(s, a + 1, b) = [k \in 1 .. b - a |-> s[a + k]]
<1> DEFINE part == SubSeq(s, a + 1, b)
<1>1. Len(s) \in Nat /\ \A i \in 1 .. Len(s) : s[i] \in S
  BY LenProperties, ElementOfSeq
<1>2. a + 1 \in Int /\ b \in Int /\ \A i \in a + 1 .. b : i \in 1 .. Len(s)
  BY <1>1
<1>3. \A i \in a + 1 .. b : s[i] \in S
  BY <1>1, <1>2
<1>4. /\ part \in Seq(S)
      /\ Len(part) = IF a + 1 <= b THEN b - (a + 1) + 1 ELSE 0
      /\ \A i \in 1 .. b - (a + 1) + 1 : part[i] = s[a + 1 + i - 1]
  BY <1>2, <1>3, SubSeqProperties
<1> HIDE DEF part
<1>5. Len(part) = b - a
  BY <1>4
<1>6. DOMAIN part = 1 .. b - a /\ part = [k \in DOMAIN part |-> part[k]]
  BY <1>4, <1>5, LenProperties
<1>7. \A k \in 1 .. b - a : part[k] = s[a + k]
  <2> TAKE k \in 1 .. b - a
  <2>1. k \in 1 .. b - (a + 1) + 1 /\ a + 1 + k - 1 = a + k
    OBVIOUS
  <2> QED BY <1>4, <2>1
<1> QED BY <1>6, <1>7 DEF part

LEMMA PrefixElements ==
  ASSUME NEW S, NEW order \in Seq(S), NEW keys \in Seq(S), IsPrefix(keys, order)
  PROVE  ToSet(keys) \subseteq ToSet(order)
<1>1. /\ DOMAIN order = 1 .. Len(order) /\ Len(order) \in Nat
      /\ DOMAIN keys = 1 .. Len(keys) /\ Len(keys) \in Nat
  BY LenProperties
<1>2. Len(keys) <= Len(order) /\ SubSeq(keys, 1, Len(keys)) = SubSeq(order, 1, Len(keys))
  BY DEF IsPrefix
<1>3. \A i \in 1 .. Len(keys) : SubSeq(keys, 1, Len(keys))[i] = keys[i] /\ SubSeq(order, 1, Len(keys))[i] = order[i]
  BY <1>1, <1>2
<1>4. \A i \in 1 .. Len(keys) : keys[i] = order[i] /\ i \in DOMAIN order
  BY <1>1, <1>2, <1>3
<1> QED BY <1>1, <1>4 DEF ToSet

LEMMA RestIs ==
  ASSUME ReaderTypes, NEW p \in RowAnswers, NEW o \in 0 .. Len(read.rows)
  PROVE  /\ RestRows(p, o) \in Seq([1 .. read.width -> Nat])
         /\ Len(RestRows(p, o)) = Len(read.rows) - o
<1> DEFINE n == Len(read.rows)
<1>1. n \in Nat
  BY RowsAre
<1>2. n - o \in Nat /\ \A k \in 1 .. n - o : o + k \in 1 .. n
  BY <1>1
<1>3. \A k \in 1 .. n - o : read.rows[p[o + k]] \in [1 .. read.width -> Nat]
  BY <1>2, RowAnswersAre
<1>4. RestRows(p, o) = [k \in 1 .. n - o |-> read.rows[p[o + k]]]
  BY DEF RestRows
<1> HIDE DEF n
<1>5. RestRows(p, o) \in [1 .. n - o -> [1 .. read.width -> Nat]]
  BY <1>3, <1>4
<1>6. RestRows(p, o) \in Seq([1 .. read.width -> Nat])
  BY <1>2, <1>5, SeqDef
<1>7. Len(RestRows(p, o)) = n - o
  BY <1>2, <1>4
<1> QED BY <1>6, <1>7 DEF n

(* A batch goes on in the answer from o to o + size, and so does what is   *)
(* copied, what is left and what the next cursor says.                     *)
LEMMA Advance ==
  ASSUME ReaderTypes, cursor.keys \in FirstKeys,
         NEW p \in RowAnswers, NEW o \in 0 .. Len(read.rows), unread = RestRows(p, o),
         NEW size \in Nat \ {0}, size <= Len(unread), Reached(p, o, cursor)
  PROVE  LET batch == SubSeq(unread, 1, size)
         IN  /\ o + size \in 0 .. Len(read.rows)
             /\ FirstRows(p, o) (+) ToBag([i \in DOMAIN batch |-> Copied(batch[i])]) = FirstRows(p, o + size)
             /\ SubSeq(unread, size + 1, Len(unread)) = RestRows(p, o + size)
             /\ Reached(p, o + size, NextCursor(batch))
<1> DEFINE n == Len(read.rows)
           all == read.rows
           batch == SubSeq(unread, 1, size)
           m == o + size
<1>1. n \in Nat /\ DOMAIN all = 1 .. n
  BY RowsAre
<1>2. unread \in Seq([1 .. read.width -> Nat]) /\ Len(unread) = n - o
  BY RestIs
<1>3. o \in Nat /\ m \in 1 .. n /\ m \in Nat /\ o <= m /\ size <= n - o /\ n - o \in Nat
      /\ m - o = size /\ n - o - size = n - m
  BY <1>1, <1>2
<1>4. unread = [k \in 1 .. n - o |-> all[p[o + k]]]
  BY DEF RestRows
<1>5. batch = [k \in 1 .. size |-> all[p[o + k]]]
  <2>1. SubSeq(unread, 0 + 1, size) = [k \in 1 .. size - 0 |-> unread[0 + k]]
    BY <1>2, PartOf
  <2>2. \A k \in 1 .. size : k \in 1 .. n - o /\ 0 + k = k
    BY <1>3
  <2>3. \A k \in 1 .. size : unread[0 + k] = all[p[o + k]]
    BY <1>4, <2>2
  <2>4. SubSeq(unread, 1, size) = [k \in 1 .. size |-> unread[0 + k]]
    BY <2>1
  <2> QED BY <2>3, <2>4
<1>6. FirstRows(p, o) (+) ToBag([i \in DOMAIN batch |-> Copied(batch[i])]) = FirstRows(p, m)
  <2> DEFINE s == [k \in 1 .. n |-> Copied(all[p[k]])]
  <2>1. /\ \A k \in 1 .. o : k \in 1 .. n
        /\ \A k \in 1 .. m : k \in 1 .. n
        /\ \A k \in 1 .. size : o + k \in 1 .. n
    <3>1. n \in Nat /\ o \in Nat /\ m \in Nat /\ m <= n /\ m = o + size
      BY <1>1, <1>3
    <3> HIDE DEF n, m
    <3> QED BY <3>1
  <2>2. /\ \A k \in 1 .. o : s[k] = Copied(all[p[k]])
        /\ \A k \in 1 .. m : s[k] = Copied(all[p[k]])
    <3>1. \A k \in 1 .. n : s[k] = Copied(all[p[k]])
      OBVIOUS
    <3> HIDE DEF s
    <3> QED BY <2>1, <3>1
  <2>6. \A k \in 1 .. size : s[o + k] = Copied(all[p[o + k]])
    BY <2>1
  <2> HIDE DEF s
  <2>3. FirstRows(p, o) = ToBag([k \in 1 .. o |-> s[k]]) /\ FirstRows(p, m) = ToBag([k \in 1 .. m |-> s[k]])
    <3>1. [k \in 1 .. o |-> s[k]] = [k \in 1 .. o |-> Copied(all[p[k]])]
      BY <2>2
    <3>2. [k \in 1 .. m |-> s[k]] = [k \in 1 .. m |-> Copied(all[p[k]])]
      BY <2>2
    <3> HIDE DEF m
    <3> QED BY <3>1, <3>2 DEF FirstRows
  <2>4. [i \in DOMAIN batch |-> Copied(batch[i])] = [k \in 1 .. size |-> s[o + k]]
    <3>1. DOMAIN batch = 1 .. size /\ \A k \in 1 .. size : batch[k] = all[p[o + k]]
      BY <1>5
    <3> HIDE DEF batch
    <3> QED BY <2>6, <3>1
  <2> HIDE DEF m, batch
  <2>5. ToBag([k \in 1 .. m |-> s[k]]) =
          ToBag([k \in 1 .. o |-> s[k]]) (+) ToBag([k \in 1 .. m - o |-> s[o + k]])
    <3>1. o \in Nat /\ m \in Nat /\ o <= m
      BY <1>3
    <3> QED BY <3>1, BagOfBoth
  <2>7. m - o = size
    BY <1>3
  <2> QED BY <2>3, <2>4, <2>5, <2>7
<1>7. SubSeq(unread, size + 1, Len(unread)) = RestRows(p, m)
  <2>1. Len(unread) \in Nat /\ size <= Len(unread)
    BY <1>2, <1>3
  <2>2. SubSeq(unread, size + 1, Len(unread)) = [k \in 1 .. Len(unread) - size |-> unread[size + k]]
    BY <1>2, <2>1, PartOf
  <2>3. Len(unread) - size = n - m /\ \A k \in 1 .. n - m : size + k \in 1 .. n - o /\ o + (size + k) = m + k
    BY <1>2, <1>3
  <2>4. \A k \in 1 .. n - m : unread[size + k] = all[p[m + k]]
    BY <1>4, <2>3
  <2>5. SubSeq(unread, size + 1, Len(unread)) = [k \in 1 .. n - m |-> all[p[m + k]]]
    BY <2>2, <2>3, <2>4
  <2> QED BY <2>5 DEF RestRows
<1> DEFINE L == all[p[m]]
           d == NextCursor(batch)
<1>8. batch[Len(batch)] = L /\ Len(batch) = size
  <2>1. Len(batch) = size /\ size \in 1 .. size
    BY <1>5
  <2> QED BY <1>5, <2>1
<1>9. /\ d.keys = cursor.keys /\ d.offset = cursor.offset + size
      /\ d.last = [i \in DOMAIN cursor.keys |-> ValueOf(L, cursor.keys[i])]
  <2> DEFINE last == [i \in DOMAIN cursor.keys |-> ValueOf(batch[Len(batch)], cursor.keys[i])]
  <2>1. cursor = [keys |-> cursor.keys, last |-> cursor.last, offset |-> cursor.offset, none |-> cursor.none]
    BY DEF ReaderTypes, CursorShape
  <2>2. d = [cursor EXCEPT !.last = last, !.offset = cursor.offset + Len(batch)]
    BY DEF NextCursor
  <2>3. last = [i \in DOMAIN cursor.keys |-> ValueOf(L, cursor.keys[i])]
    BY <1>8
  <2> HIDE DEF d, last, L
  <2>4. d = [keys |-> cursor.keys, last |-> last, offset |-> cursor.offset + Len(batch), none |-> cursor.none]
    BY <2>1, <2>2
  <2> HIDE DEF batch
  <2>5. d.keys = cursor.keys /\ d.offset = cursor.offset + Len(batch) /\ d.last = last
    BY <2>4
  <2> QED BY <1>8, <2>3, <2>5
<1>10. cursor.keys \in Seq(1 .. read.width) /\ DOMAIN cursor.keys = 1 .. Len(cursor.keys)
  BY KeysAre, LenProperties
<1> HIDE DEF d, batch, m, n
<1>11. ASSUME CountsRows(d.keys) PROVE d.last = <<>> /\ d.offset = m
  <2>1. cursor.keys = <<>> /\ cursor.offset = o
    BY <1>9, <1>11 DEF Reached, CountsRows
  <2>2. DOMAIN cursor.keys = {}
    BY <2>1
  <2> QED BY <1>9, <2>1, <2>2 DEF m
<1>12. ASSUME Faithful(d.keys, Order)
       PROVE  /\ d.last \in [DOMAIN d.keys -> Nat]
              /\ \A k \in DOMAIN all : Behind(all[p[k]], d) <=> k > m
  <2>1. IsPrefix(d.keys, Order)
    BY <1>12 DEF Faithful
  <2>2. ToSet(d.keys) \subseteq ToSet(read.read) /\ ToSet(d.keys) \subseteq 1 .. read.width
    BY <1>9, <1>10, <2>1, OrderIs, PrefixElements
  <2>3. \A i \in DOMAIN d.keys : d.keys[i] \in ToSet(d.keys)
    BY DEF ToSet
  <2>4. d.last = [i \in DOMAIN d.keys |-> L[d.keys[i]]]
    BY <1>9, <2>2, <2>3 DEF ValueOf
  <2>5. L \in [1 .. read.width -> Nat]
    BY <1>3, RowAnswersAre DEF n
  <2>6. d.last \in [DOMAIN d.keys -> Nat]
    BY <2>2, <2>3, <2>4, <2>5
  <2>7. d.keys \in Seq(1 .. read.width) /\ m \in 1 .. Len(read.rows)
    BY <1>3, <1>9, <1>10 DEF n
  <2>8. ASSUME NEW k \in DOMAIN all PROVE Behind(all[p[k]], d) <=> k > m
    <3>1. k \in 1 .. Len(read.rows)
      BY RowsAre
    <3> QED BY <1>12, <2>4, <2>7, <3>1, BehindIsLater
  <2> QED BY <2>6, <2>8
<1>13. Reached(p, m, d)
  BY <1>11, <1>12 DEF Reached
<1>14. m \in 0 .. n
  BY <1>1, <1>3
<1> QED BY <1>6, <1>7, <1>13, <1>14 DEF d, batch, m, n

(* What a cursor that can be resumed from says survives its text.          *)
LEMMA StoredIsSame ==
  ASSUME ReaderTypes, NEW c, CursorShape(c), Good(c.keys), NEW p, NEW o, Reached(p, o, c)
  PROVE  Stored(c) = c
<1> DEFINE stored == [i \in DOMAIN c.last |->
                        IF c.keys[i] \in read.text /\ c.last[i] # 0 THEN textPlace ELSE c.last[i]]
<1>1. Stored(c) = [keys |-> c.keys, last |-> stored, offset |-> c.offset, none |-> c.none]
  BY DEF Stored, CursorShape
<1>2. stored = c.last
  <2>1. CASE c.last = <<>>
    BY <2>1
  <2>2. CASE c.last \in [DOMAIN c.keys -> Nat] /\ Faithful(c.keys, Order)
    <3>1. \A i \in DOMAIN c.last : c.keys[i] \notin read.text
      BY <2>2 DEF Faithful, ToSet
    <3>2. c.last = [i \in DOMAIN c.last |-> c.last[i]]
      BY <2>2
    <3> QED BY <3>1, <3>2
  <2> QED BY <2>1, <2>2 DEF Good, Reached
<1> HIDE DEF stored
<1> QED BY <1>1, <1>2 DEF CursorShape

LEMMA StoredShape ==
  ASSUME NEW c, CursorShape(c)
  PROVE  CursorShape(Stored(c)) /\ Stored(c).keys = c.keys /\ Stored(c).none = c.none
<1> DEFINE stored == [i \in DOMAIN c.last |->
                        IF c.keys[i] \in read.text /\ c.last[i] # 0 THEN textPlace ELSE c.last[i]]
<1>1. Stored(c) = [keys |-> c.keys, last |-> stored, offset |-> c.offset, none |-> c.none]
  BY DEF Stored, CursorShape
<1> HIDE DEF stored
<1> QED BY <1>1 DEF CursorShape

-----------------------------------------------------------------------------
(* KeysetReader: the steps.                                                *)

LEMMA SameTable ==
  ASSUME read' = read, reader' = reader
  PROVE  /\ Order' = Order /\ RowAnswers' = RowAnswers /\ FirstKeys' = FirstKeys
         /\ \A p, o : FirstRows(p, o)' = FirstRows(p, o)
         /\ \A p, o : RestRows(p, o)' = RestRows(p, o)
         /\ \A p, o, c : Reached(p, o, c)' <=> Reached(p, o, c)
         /\ \A keys : Good(keys)' <=> Good(keys)
<1>1. Order' = Order
  BY DEF Order, StableOrder, Among
<1>2. \A r, s, order : Precedes(r, s, order)' <=> Precedes(r, s, order)
  BY DEF Precedes, Before
<1>3. \A p, all, order : InOrder(p, all, order)' <=> InOrder(p, all, order)
  BY <1>2 DEF InOrder
<1>4. RowAnswers' = RowAnswers
  BY <1>1, <1>3 DEF RowAnswers
<1>5. Writable' = Writable
  BY DEF Writable
<1>6. FirstKeys' = FirstKeys
  BY <1>1, <1>5 DEF FirstKeys, ResumeKey, StableOrder, Among
<1>7. \A r : Copied(r)' = Copied(r)
  BY DEF Copied
<1>8. \A p, o : FirstRows(p, o)' = FirstRows(p, o)
  BY <1>7 DEF FirstRows
<1>9. \A p, o : RestRows(p, o)' = RestRows(p, o)
  BY DEF RestRows
<1>10. \A keys, order : Faithful(keys, order)' <=> Faithful(keys, order)
  BY DEF Faithful
<1>11. \A p, o, c : Reached(p, o, c)' <=> Reached(p, o, c)
  BY <1>1, <1>10 DEF Reached, CountsRows
<1>12. \A keys : Good(keys)' <=> Good(keys)
  BY <1>1, <1>10 DEF Good, CountsRows
<1> QED BY <1>1, <1>4, <1>6, <1>8, <1>9, <1>11, <1>12

LEMMA FreshKeys ==
  ASSUME NEW c \in FirstCursors
  PROVE  CursorShape(c) /\ c.keys \in FirstKeys /\ c.last = <<>> /\ c.offset = 0 /\ ~c.none
<1>1. PICK columns \in {read.read, Writable} : c = InitialCursor(columns)
  BY DEF FirstCursors
<1> DEFINE keys == ResumeKey(StableOrder(columns))
<1>2. c = [keys |-> keys, last |-> <<>>, offset |-> 0, none |-> FALSE]
  BY <1>1 DEF InitialCursor
<1>3. keys \in FirstKeys
  BY DEF FirstKeys, Order
<1> HIDE DEF keys
<1> QED BY <1>2, <1>3 DEF CursorShape

LEMMA OpenKeepsInv ==
  ASSUME ReaderInv, OpenQuery
  PROVE  ReaderInv'
<1>1. /\ reading = "no" /\ cursor' \in (IF recorded.none THEN FirstCursors ELSE {recorded})
      /\ unread' \in Rows(cursor') /\ reading' = "yes"
      /\ read' = read /\ reader' = reader /\ recorded' = recorded /\ taken' = taken /\ stops' = stops
  BY DEF OpenQuery
<1>2. ReaderTypes /\ KeysInv /\ RecordedInv
  BY DEF ReaderInv
<1>3. /\ Order' = Order /\ RowAnswers' = RowAnswers /\ FirstKeys' = FirstKeys
      /\ \A p, o : FirstRows(p, o)' = FirstRows(p, o)
      /\ \A p, o : RestRows(p, o)' = RestRows(p, o)
      /\ \A p, o, c : Reached(p, o, c)' <=> Reached(p, o, c)
      /\ \A keys : Good(keys)' <=> Good(keys)
  BY <1>1, SameTable
<1>4. /\ CursorShape(cursor') /\ cursor'.keys \in FirstKeys /\ ~cursor'.none
      /\ recorded.none => cursor'.last = <<>> /\ cursor'.offset = 0
      /\ ~recorded.none => cursor' = recorded
  <2>1. CASE recorded.none
    <3>1. cursor' \in FirstCursors
      BY <1>1, <2>1
    <3> QED BY <2>1, <3>1, FreshKeys
  <2>2. CASE ~recorded.none
    BY <1>1, <1>2, <2>2 DEF KeysInv, ReaderTypes
  <2> QED BY <2>1, <2>2
<1>5. ReaderTypes'
  BY <1>1, <1>2, <1>4 DEF ReaderTypes, CursorShape
<1>6. KeysInv'
  BY <1>1, <1>2, <1>3, <1>4 DEF KeysInv
<1>7. ASSUME stops = 0 \/ Good(cursor'.keys)
      PROVE  \E p \in RowAnswers, o \in 0 .. Len(read.rows) :
               taken = FirstRows(p, o) /\ unread' = RestRows(p, o) /\ Reached(p, o, cursor')
  <2>1. CASE recorded.none
    <3>1. PICK p \in RowAnswers : unread' = RestRows(p, 0) /\ FirstRows(p, 0) = EmptyBag /\ Reached(p, 0, cursor')
      BY <1>1, <1>2, <1>4, <2>1, FreshAnswer
    <3>2. taken = EmptyBag /\ 0 \in 0 .. Len(read.rows)
      BY <1>2, <2>1, RowsAre DEF KeysInv
    <3> QED BY <3>1, <3>2
  <2>2. CASE ~recorded.none
    <3>1. Good(cursor'.keys) /\ cursor' = recorded
      BY <1>1, <1>2, <1>4, <1>7, <2>2 DEF KeysInv
    <3>2. PICK p \in RowAnswers, o \in 0 .. Len(read.rows) : taken = FirstRows(p, o) /\ Reached(p, o, cursor')
      BY <1>2, <2>2, <3>1 DEF RecordedInv
    <3>3. \E q \in RowAnswers : unread' = RestRows(q, o) /\ FirstRows(q, o) = FirstRows(p, o) /\ Reached(q, o, cursor')
      <4>1. CASE Faithful(cursor'.keys, Order)
        BY <1>1, <1>2, <3>2, <4>1, KeyedAnswer
      <4>2. CASE CountsRows(cursor'.keys)
        BY <1>1, <1>2, <1>4, <3>2, <4>2, CountedAnswer
      <4> QED BY <3>1, <4>1, <4>2 DEF Good
    <3> QED BY <3>2, <3>3
  <2> QED BY <2>1, <2>2
<1>8. OpenedInv'
  BY <1>1, <1>3, <1>7 DEF OpenedInv
<1>9. RecordedInv'
  BY <1>1, <1>2, <1>3 DEF RecordedInv
<1> QED BY <1>5, <1>6, <1>8, <1>9 DEF ReaderInv

LEMMA FetchKeepsInv ==
  ASSUME ReaderInv, FetchBatch
  PROVE  ReaderInv'
<1> DEFINE size == IF Len(unread) < FetchSize THEN Len(unread) ELSE FetchSize
           batch == SubSeq(unread, 1, size)
<1>1. /\ reading = "yes" /\ unread # <<>>
      /\ taken' = taken (+) ToBag([i \in DOMAIN batch |-> Copied(batch[i])])
      /\ cursor' = NextCursor(batch) /\ recorded' = Stored(cursor')
      /\ unread' = SubSeq(unread, size + 1, Len(unread))
      /\ read' = read /\ reader' = reader /\ textPlace' = textPlace /\ reading' = reading /\ stops' = stops
  BY DEF FetchBatch
<1> HIDE DEF batch
<1>2. ReaderTypes /\ KeysInv /\ OpenedInv
  BY DEF ReaderInv
<1>3. /\ Order' = Order /\ RowAnswers' = RowAnswers /\ FirstKeys' = FirstKeys
      /\ \A p, o : FirstRows(p, o)' = FirstRows(p, o)
      /\ \A p, o : RestRows(p, o)' = RestRows(p, o)
      /\ \A p, o, c : Reached(p, o, c)' <=> Reached(p, o, c)
      /\ \A keys : Good(keys)' <=> Good(keys)
  BY <1>1, SameTable
<1>4. CursorShape(cursor') /\ cursor'.keys = cursor.keys /\ cursor'.none = cursor.none
  <2> DEFINE last == [i \in DOMAIN cursor.keys |-> ValueOf(batch[Len(batch)], cursor.keys[i])]
  <2>1. cursor = [keys |-> cursor.keys, last |-> cursor.last, offset |-> cursor.offset, none |-> cursor.none]
        /\ cursor.none \in BOOLEAN
    BY <1>2 DEF ReaderTypes, CursorShape
  <2>2. cursor' = [cursor EXCEPT !.last = last, !.offset = cursor.offset + Len(batch)]
    BY <1>1 DEF NextCursor
  <2> HIDE DEF last
  <2>3. cursor' = [keys |-> cursor.keys, last |-> last, offset |-> cursor.offset + Len(batch), none |-> cursor.none]
    BY <2>1, <2>2
  <2> QED BY <2>1, <2>3 DEF CursorShape
<1>5. recorded' = Stored(cursor')
  BY <1>1
<1>6. CursorShape(recorded') /\ recorded'.keys = cursor.keys /\ ~recorded'.none
      /\ cursor.keys \in FirstKeys /\ ~cursor.none
  <2>1. cursor.keys \in FirstKeys /\ ~cursor.none
    BY <1>1, <1>2 DEF KeysInv
  <2> QED BY <1>4, <1>5, <2>1, StoredShape
<1>7. ReaderTypes'
  BY <1>1, <1>2, <1>4, <1>6 DEF ReaderTypes, CursorShape
<1>8. KeysInv'
  BY <1>1, <1>2, <1>3, <1>4, <1>6 DEF KeysInv
<1>9. ASSUME stops = 0 \/ Good(cursor.keys)
      PROVE  \E p \in RowAnswers, o \in 0 .. Len(read.rows) :
               taken' = FirstRows(p, o) /\ unread' = RestRows(p, o) /\ Reached(p, o, cursor')
  <2>1. PICK p \in RowAnswers, o \in 0 .. Len(read.rows) :
          taken = FirstRows(p, o) /\ unread = RestRows(p, o) /\ Reached(p, o, cursor)
    BY <1>1, <1>2, <1>9 DEF OpenedInv
  <2>2. size \in Nat \ {0} /\ size <= Len(unread)
    <3>1. unread \in Seq([1 .. read.width -> Nat])
      BY <1>2, <2>1, RestIs
    <3>2. Len(unread) \in Nat /\ Len(unread) # 0
      BY <1>1, <3>1, LenProperties, EmptySeq
    <3>3. FetchSize \in Nat \ {0}
      BY ReaderAssumption
    <3> QED BY <3>2, <3>3
  <2> HIDE DEF size
  <2>3. /\ o + size \in 0 .. Len(read.rows)
        /\ FirstRows(p, o) (+) ToBag([i \in DOMAIN batch |-> Copied(batch[i])]) = FirstRows(p, o + size)
        /\ SubSeq(unread, size + 1, Len(unread)) = RestRows(p, o + size)
        /\ Reached(p, o + size, NextCursor(batch))
    BY <1>2, <1>6, <2>1, <2>2, Advance DEF batch
  <2> QED BY <1>1, <2>1, <2>3
<1>10. OpenedInv'
  BY <1>1, <1>3, <1>4, <1>9 DEF OpenedInv
<1>11. RecordedInv'
  <2>1. ASSUME Good(cursor.keys)
        PROVE  \E p \in RowAnswers, o \in 0 .. Len(read.rows) : taken' = FirstRows(p, o) /\ Reached(p, o, recorded')
    <3>1. PICK p \in RowAnswers, o \in 0 .. Len(read.rows) : taken' = FirstRows(p, o) /\ Reached(p, o, cursor')
      BY <1>9, <2>1
    <3>2. Stored(cursor') = cursor'
      BY <1>2, <1>4, <2>1, <3>1, StoredIsSame
    <3> QED BY <1>5, <3>1, <3>2
  <2> QED BY <1>1, <1>3, <1>6, <2>1 DEF RecordedInv
<1> QED BY <1>7, <1>8, <1>10, <1>11 DEF ReaderInv

LEMMA StopKeepsInv ==
  ASSUME ReaderInv, StopReading
  PROVE  ReaderInv'
<1>1. /\ reading = "yes" /\ recorded' \in {recorded, Stored(cursor)} /\ reading' = "no"
      /\ stops' = stops + 1 /\ read' = read /\ reader' = reader /\ cursor' = cursor /\ taken' = taken
  BY DEF StopReading
<1>2. ReaderTypes /\ KeysInv /\ OpenedInv /\ RecordedInv
  BY DEF ReaderInv
<1>3. /\ Order' = Order /\ RowAnswers' = RowAnswers /\ FirstKeys' = FirstKeys
      /\ \A p, o : FirstRows(p, o)' = FirstRows(p, o)
      /\ \A p, o, c : Reached(p, o, c)' <=> Reached(p, o, c)
      /\ \A keys : Good(keys)' <=> Good(keys)
  BY <1>1, SameTable
<1>4. stops' \in Nat /\ stops' # 0
  BY <1>1, <1>2 DEF ReaderTypes
<1>5. /\ CursorShape(cursor) /\ cursor.keys \in FirstKeys /\ ~cursor.none
      /\ CursorShape(Stored(cursor)) /\ Stored(cursor).keys = cursor.keys /\ ~Stored(cursor).none
  <2>1. CursorShape(cursor) /\ cursor.keys \in FirstKeys /\ ~cursor.none
    BY <1>1, <1>2 DEF ReaderTypes, KeysInv
  <2> QED BY <2>1, StoredShape
<1>6. ReaderTypes'
  <2>1. CursorShape(cursor') /\ CursorShape(recorded')
    BY <1>1, <1>2, <1>5 DEF ReaderTypes
  <2> QED BY <1>1, <1>2, <1>4, <2>1 DEF ReaderTypes, CursorShape
<1>7. KeysInv'
  BY <1>1, <1>2, <1>3, <1>4, <1>5 DEF KeysInv
<1>8. OpenedInv'
  BY <1>1 DEF OpenedInv
<1>9. RecordedInv'
  <2>1. CASE recorded' = recorded
    BY <1>1, <1>2, <1>3, <2>1 DEF RecordedInv
  <2>2. CASE recorded' = Stored(cursor)
    <3>1. ASSUME Good(cursor.keys)
          PROVE  \E p \in RowAnswers, o \in 0 .. Len(read.rows) : taken = FirstRows(p, o) /\ Reached(p, o, recorded')
      <4>1. PICK p \in RowAnswers, o \in 0 .. Len(read.rows) : taken = FirstRows(p, o) /\ Reached(p, o, cursor)
        BY <1>1, <1>2, <3>1 DEF OpenedInv
      <4>2. Stored(cursor) = cursor
        BY <1>2, <1>5, <3>1, <4>1, StoredIsSame
      <4> QED BY <2>2, <4>1, <4>2
    <3> QED BY <1>1, <1>3, <1>5, <2>2, <3>1 DEF RecordedInv
  <2> QED BY <1>1, <2>1, <2>2
<1> QED BY <1>6, <1>7, <1>8, <1>9 DEF ReaderInv

LEMMA EndKeepsInv ==
  ASSUME ReaderInv, EndQuery
  PROVE  ReaderInv'
<1>1. /\ reading = "yes" /\ unread = <<>> /\ reading' = "completed"
      /\ read' = read /\ reader' = reader /\ cursor' = cursor /\ recorded' = recorded
      /\ unread' = unread /\ taken' = taken /\ stops' = stops
  BY DEF EndQuery
<1>2. ReaderTypes /\ KeysInv /\ OpenedInv /\ RecordedInv
  BY DEF ReaderInv
<1>3. /\ Order' = Order /\ RowAnswers' = RowAnswers /\ FirstKeys' = FirstKeys
      /\ \A p, o : FirstRows(p, o)' = FirstRows(p, o)
      /\ \A p, o : RestRows(p, o)' = RestRows(p, o)
      /\ \A p, o, c : Reached(p, o, c)' <=> Reached(p, o, c)
      /\ \A keys : Good(keys)' <=> Good(keys)
  BY <1>1, SameTable
<1>4. ReaderTypes' /\ KeysInv'
  BY <1>1, <1>2, <1>3 DEF ReaderTypes, KeysInv, CursorShape
<1>5. OpenedInv' /\ RecordedInv'
  BY <1>1, <1>2, <1>3 DEF OpenedInv, RecordedInv
<1> QED BY <1>4, <1>5 DEF ReaderInv

LEMMA IdleReaderKeepsInv ==
  ASSUME ReaderInv, UNCHANGED readerVars
  PROVE  ReaderInv'
<1>1. /\ read' = read /\ reader' = reader /\ cursor' = cursor /\ recorded' = recorded
      /\ unread' = unread /\ taken' = taken /\ stops' = stops /\ reading' = reading
  BY DEF readerVars
<1>2. ReaderTypes /\ KeysInv /\ OpenedInv /\ RecordedInv
  BY DEF ReaderInv
<1>3. /\ Order' = Order /\ RowAnswers' = RowAnswers /\ FirstKeys' = FirstKeys
      /\ \A p, o : FirstRows(p, o)' = FirstRows(p, o)
      /\ \A p, o : RestRows(p, o)' = RestRows(p, o)
      /\ \A p, o, c : Reached(p, o, c)' <=> Reached(p, o, c)
      /\ \A keys : Good(keys)' <=> Good(keys)
  BY <1>1, SameTable
<1>4. ReaderTypes' /\ KeysInv'
  BY <1>1, <1>2, <1>3 DEF ReaderTypes, KeysInv, CursorShape
<1>5. OpenedInv' /\ RecordedInv'
  BY <1>1, <1>2, <1>3 DEF OpenedInv, RecordedInv
<1> QED BY <1>4, <1>5 DEF ReaderInv

LEMMA ReaderStarts ==
  ASSUME ReaderInit
  PROVE  ReaderInv
<1>1. CursorShape(NoCursor) /\ NoCursor.none
  BY DEF CursorShape, NoCursor
<1>2. ReaderTypes /\ KeysInv
  BY <1>1 DEF ReaderInit, ReaderTypes, KeysInv
<1>3. OpenedInv /\ RecordedInv
  BY <1>1 DEF ReaderInit, OpenedInv, RecordedInv
<1> QED BY <1>2, <1>3 DEF ReaderInv

LEMMA InvMeansWhole ==
  ASSUME ReaderInv
  PROVE  ResumedReadIsWhole
<1> SUFFICES ASSUME reading = "completed", Resumable
             PROVE  taken = ToBag([i \in DOMAIN read.rows |-> Copied(read.rows[i])])
  BY DEF ResumedReadIsWhole
<1>1. ReaderTypes /\ KeysInv /\ OpenedInv
  BY DEF ReaderInv
<1>2. stops = 0 \/ Good(cursor.keys)
  BY DEF Resumable, Good, CountsRows, Order
<1>3. PICK p \in RowAnswers, o \in 0 .. Len(read.rows) : taken = FirstRows(p, o) /\ unread = RestRows(p, o)
  BY <1>1, <1>2 DEF OpenedInv
<1> DEFINE n == Len(read.rows)
           s == [k \in 1 .. n |-> Copied(read.rows[k])]
<1>4. n \in Nat /\ DOMAIN read.rows = 1 .. n
  BY <1>1, RowsAre
<1>5. o = n
  <2>1. Len(unread) = n - o
    BY <1>1, <1>3, RestIs
  <2>2. Len(unread) = 0
    BY <1>1 DEF KeysInv
  <2> QED BY <1>4, <2>1, <2>2
<1>6. p \in SetToSeqs(1 .. n) /\ p \in [1 .. n -> 1 .. n]
  BY <1>1, RowAnswersAre
<1>7. FirstRows(p, n) = ToBag([k \in 1 .. n |-> s[p[k]]])
  <2>1. [k \in 1 .. n |-> Copied(read.rows[p[k]])] = [k \in 1 .. n |-> s[p[k]]]
    BY <1>6
  <2> QED BY <2>1 DEF FirstRows
<1>8. s = [k \in 1 .. n |-> s[k]]
  OBVIOUS
<1> HIDE DEF s, n
<1>9. ToBag([k \in 1 .. n |-> s[p[k]]]) = ToBag(s)
  <2>1. ToBag([k \in 1 .. n |-> s[p[k]]]) = ToBag([k \in 1 .. n |-> s[k]])
    BY <1>4, <1>6, BagOfPermuted
  <2> QED BY <1>8, <2>1
<1>10. taken = ToBag(s)
  BY <1>3, <1>5, <1>7, <1>9
<1> QED BY <1>4, <1>10 DEF s

(* A read that is interrupted after any batches, any number of times, and  *)
(* resumed from what the checkpoints say copies every row exactly once     *)
(* when it ends: for every table, order and key of the source, with any    *)
(* answer of the server each time.                                         *)
THEOREM ResumedReadsAreWhole == ReaderSpec => []ResumedReadIsWhole
<1>1. ReaderInit => ReaderInv
  BY ReaderStarts
<1>2. ReaderInv /\ [ReaderNext]_readerVars => ReaderInv'
  <2> SUFFICES ASSUME ReaderInv, [ReaderNext]_readerVars PROVE ReaderInv'
    OBVIOUS
  <2>1. CASE OpenQuery BY <2>1, OpenKeepsInv
  <2>2. CASE FetchBatch BY <2>2, FetchKeepsInv
  <2>3. CASE StopReading BY <2>3, StopKeepsInv
  <2>4. CASE EndQuery BY <2>4, EndKeepsInv
  <2>5. CASE UNCHANGED readerVars BY <2>5, IdleReaderKeepsInv
  <2> QED BY <2>1, <2>2, <2>3, <2>4, <2>5 DEF ReaderNext
<1>3. ReaderInv => ResumedReadIsWhole
  BY InvMeansWhole
<1> QED BY <1>1, <1>2, <1>3, PTL DEF ReaderSpec
=============================================================================
