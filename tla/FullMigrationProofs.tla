------------------------ MODULE FullMigrationProofs ------------------------
(***************************************************************************)
(* Proofs about FullMigration, for every schema, target, policy and        *)
(* sequence of commands, failures and crashes: a protected target keeps    *)
(* what it has, only reloads take rows from behind a checkpoint while      *)
(* batches are durable, the overwrite audit tells what was done, and a     *)
(* command that reports success did its work.                              *)
(*                                                                         *)
(* All of them need to know what is in a plan.  A plan is what the orders  *)
(* of TableOrder return (TableOrderProofs) with the step that ends the     *)
(* stage behind it, and PlanInv says what that means: the items that are   *)
(* left fit the job, only the last ends the stage and only the first can   *)
(* be half done.                                                           *)
(***************************************************************************)
EXTENDS FullMigration, TableOrderProofs

-----------------------------------------------------------------------------
(* The type invariant.                                                     *)

Names       == {"none", "apply-ddl", "migrate-data", "resume", "apply-foreign-keys",
                "apply-indexes", "full"}
Stages      == {"none", "apply-ddl", "pre-indexes", "migrate-data", "resume",
                "apply-foreign-keys", "apply-indexes"}
PolicyNames == {"skip", "append", "sync", "truncate_reload", "overwrite", "compare_only"}
JobItems    == [table : Nat, action : Steps]
Statements  == AllTables \X {"drop", "create"}

Jobs == [command : Names, stage : Stages, policy : PolicyNames, tables : SUBSET Source,
         all : BOOLEAN, todo : Seq(JobItems), failed : BOOLEAN, audited : BOOLEAN,
         since : Nat, held : SUBSET Source]

Checkpoints == [status : {"none", "stopped", "table_completed"}, cursor : 0 .. RowCount]
Audits      == [status : {"none", "running", "completed", "failed"},
                recorded : SUBSET Statements]

(* Each command has its stages, and only a scope of the whole source drops *)
(* target-only tables.                                                     *)
JobOK ==
  /\ job \in Jobs
  /\ job.stage = "none" => job = NoJob
  /\ job.command = "full" => job.stage \in DOMAIN NextStage \cup {"apply-indexes"}
  /\ job.command # "full" => job.stage = job.command
  /\ job.all => job.tables = Source

TargetOK ==
  /\ exists \subseteq AllTables
  /\ rows \in [AllTables -> SUBSET (0 .. RowCount)]
  /\ fks \in [AllTables -> SUBSET AllTables]
  /\ indexed \subseteq exists
  /\ \A t \in AllTables \ exists : rows[t] = {} /\ fks[t] = {}

FilesOK ==
  /\ ckpt \in [Source -> Checkpoints]
  /\ audit \in Audits
  /\ performed \subseteq Statements
  /\ faults \in 0 .. MaxFaults

TypeInv == TargetOK /\ FilesOK /\ JobOK

(* What the items of a plan may be, at each stage of job j: on a protected  *)
(* target none of them is destructive.                                     *)
DdlItemFits(item, j) ==
  \/ item.action \in {"report", "close_audit"}
  \/ item.action \in {"skip", "create", "sync_existing"} /\ item.table \in j.tables
  \/ item.action = "truncate" /\ item.table \in j.tables /\ j.policy = "truncate_reload"
  \/ /\ item.action \in {"overwrite", "record_drop", "recreate", "record_create"}
     /\ item.table \in j.tables /\ j.policy = "overwrite" /\ j.audited
  \/ item.action \in {"drop_target_only", "blocked"} /\ item.table \in AllTables \ Source

ItemFits(item, j, protected) ==
  CASE j.stage = "apply-ddl" ->
         DdlItemFits(item, j) /\ (protected => item.action \notin Destructive)
    [] j.stage \in {"migrate-data", "resume"} ->
         item.action = "end" \/ (item.action = "copy" /\ item.table \in j.tables)
    [] OTHER -> FALSE

(* Every plan ends with the one step that ends its stage, and only its     *)
(* first item can be half done.                                            *)
Ends      == {"report", "close_audit", "end"}
HalfDone  == {"record_drop", "recreate", "record_create", "close_audit"}

PlanFits(todo, j, protected) ==
  /\ \A i \in 1 .. Len(todo) :
       /\ ItemFits(todo[i], j, protected)
       /\ i # 1 => todo[i].action \notin HalfDone
       /\ i # Len(todo) => todo[i].action \notin Ends
  /\ todo # << >> => todo[Len(todo)].action \in Ends

PlanInv == PlanFits(job.todo, job, Protected)

-----------------------------------------------------------------------------
(* Plans.                                                                  *)

LEMMA TablesAreFinite ==
  ASSUME FullAssumption, NEW S \in SUBSET AllTables
  PROVE  S \in SUBSET Nat /\ IsFiniteSet(S)
<1>1. IsFiniteSet(AllTables) /\ AllTables \subseteq Nat
  BY FS_Union DEF FullAssumption, AllTables
<1> QED BY <1>1, FS_Subset

(* An item done leaves the rest of the plan as it was.                     *)
LEMMA TailOf ==
  ASSUME NEW X, NEW todo \in Seq(X), todo # << >>
  PROVE  /\ todo[1] \in X /\ Head(todo) = todo[1] /\ 1 \in 1 .. Len(todo)
         /\ Tail(todo) \in Seq(X) /\ Len(Tail(todo)) = Len(todo) - 1
         /\ \A i \in 1 .. Len(Tail(todo)) : i + 1 \in 1 .. Len(todo) /\ Tail(todo)[i] = todo[i + 1]
         /\ Tail(todo) # << >> => Tail(todo)[Len(Tail(todo))] = todo[Len(todo)]
<1>1. Len(todo) \in Nat /\ Len(todo) > 0
  BY EmptySeq, LenProperties
<1>2. /\ Head(todo) = todo[1] /\ Tail(todo) \in Seq(X) /\ Len(Tail(todo)) = Len(todo) - 1
      /\ \A i \in 1 .. Len(Tail(todo)) : Tail(todo)[i] = todo[i + 1]
  BY HeadTailProperties
<1>3. todo[1] \in X
  BY <1>1, ElementOfSeq
<1>4. ASSUME Tail(todo) # << >> PROVE Tail(todo)[Len(Tail(todo))] = todo[Len(todo)]
  <2>1. Len(Tail(todo)) \in Nat /\ Len(Tail(todo)) > 0
    BY <1>2, <1>4, EmptySeq, LenProperties
  <2>2. Len(Tail(todo)) \in 1 .. Len(Tail(todo)) /\ Len(Tail(todo)) + 1 = Len(todo)
    BY <1>1, <1>2, <2>1
  <2> QED BY <1>2, <2>2
<1> QED BY <1>1, <1>2, <1>3, <1>4

(* The first item becomes its own second half.                             *)
LEMMA BecomesOf ==
  ASSUME NEW X, NEW todo \in Seq(X), todo # << >>, NEW x \in X
  PROVE  LET next == <<x>> \o Tail(todo)
         IN  /\ next \in Seq(X) /\ Len(next) = Len(todo) /\ next # << >> /\ next[1] = x
             /\ Head(next) = x
             /\ \A i \in 1 .. Len(todo) : i # 1 => next[i] = todo[i]
<1> DEFINE next == <<x>> \o Tail(todo)
<1>1. /\ Tail(todo) \in Seq(X) /\ Len(Tail(todo)) = Len(todo) - 1
      /\ \A i \in 1 .. Len(Tail(todo)) : Tail(todo)[i] = todo[i + 1]
  BY TailOf
<1>2. Len(todo) \in Nat /\ Len(todo) > 0
  BY EmptySeq, LenProperties
<1>3. <<x>> \in Seq(X) /\ Len(<<x>>) = 1 /\ <<x>>[1] = x
  OBVIOUS
<1>4. /\ next \in Seq(X) /\ Len(next) = 1 + Len(Tail(todo))
      /\ \A i \in 1 .. 1 + Len(Tail(todo)) :
            next[i] = IF i <= 1 THEN <<x>>[i] ELSE Tail(todo)[i - 1]
  BY <1>1, <1>3, ConcatProperties
<1>5. Len(next) = Len(todo) /\ next[1] = x
  BY <1>1, <1>2, <1>3, <1>4
<1>6. ASSUME NEW i \in 1 .. Len(todo), i # 1 PROVE next[i] = todo[i]
  <2>1. i - 1 \in 1 .. Len(Tail(todo)) /\ i \in 1 .. 1 + Len(Tail(todo)) /\ (i - 1) + 1 = i
    BY <1>1, <1>2, <1>6
  <2> QED BY <1>1, <1>4, <2>1
<1>7. next # << >> /\ Head(next) = x
  BY <1>2, <1>4, <1>5, EmptySeq, HeadTailProperties
<1> QED BY <1>4, <1>5, <1>6, <1>7

LEMMA AppendOf ==
  ASSUME NEW X, NEW items \in Seq(X), NEW x \in X
  PROVE  /\ Append(items, x) \in Seq(X) /\ Append(items, x) # << >>
         /\ Len(Append(items, x)) = Len(items) + 1
         /\ Append(items, x)[Len(items) + 1] = x
         /\ \A i \in 1 .. Len(items) : Append(items, x)[i] = items[i]
  BY AppendProperties

PlannedDdl(item) ==
  \/ item.action \in {"skip", "create", "sync_existing"} /\ item.table \in job.tables
  \/ item.action = "truncate" /\ item.table \in job.tables /\ job.policy = "truncate_reload"
  \/ item.action = "overwrite" /\ item.table \in job.tables /\ job.policy = "overwrite"
  \/ item.action \in {"drop_target_only", "blocked"} /\ item.table \in AllTables \ Source

(* Only tables outside the source are dropped as target-only tables.       *)
LEMMA TargetOnlyItemsFit ==
  ASSUME FullAssumption, TypeInv, job.tables = Source
  PROVE  /\ TargetOnlyItems(job.tables) \in Seq(JobItems)
         /\ \A i \in 1 .. Len(TargetOnlyItems(job.tables)) :
              /\ PlannedDdl(TargetOnlyItems(job.tables)[i])
              /\ TargetOnlyItems(job.tables)[i].table \notin Source
<1> DEFINE extra   == exists \ job.tables
           order   == DropOrder(extra, fks)
           blocked == DropBlockers(job.tables, extra)
           item(i) == Item(order[i], IF order[i] \in blocked THEN "blocked" ELSE "drop_target_only")
<1>1. extra \in SUBSET (AllTables \ Source) /\ extra \in SUBSET Nat /\ IsFiniteSet(extra)
  <2>1. extra \in SUBSET AllTables /\ extra \in SUBSET (AllTables \ Source)
    BY DEF TypeInv, TargetOK
  <2> QED BY <2>1, TablesAreFinite
<1>2. order \in Seq(extra)
  BY <1>1, DropOrderTables
<1>3. TargetOnlyItems(job.tables) = [i \in 1 .. Len(order) |-> item(i)]
  BY DEF TargetOnlyItems
<1> HIDE DEF blocked, order
<1>4. Len(order) \in Nat /\ \A i \in 1 .. Len(order) : order[i] \in extra
  BY <1>2, LenProperties, ElementOfSeq
<1>5. ASSUME NEW i \in 1 .. Len(order)
      PROVE  item(i) \in JobItems /\ PlannedDdl(item(i)) /\ item(i).table \notin Source
  <2>1. order[i] \in AllTables \ Source /\ order[i] \in Nat
    BY <1>1, <1>4
  <2> QED BY <2>1 DEF Item, JobItems, Steps, PlannedDdl
<1> HIDE DEF item
<1>6. [i \in 1 .. Len(order) |-> item(i)] \in Seq(JobItems)
  BY <1>4, <1>5
<1>7. Len([i \in 1 .. Len(order) |-> item(i)]) = Len(order)
  BY <1>4
<1> QED BY <1>3, <1>5, <1>6, <1>7

(* build_execution_plan: what it does with the tables of the target is the *)
(* policy's, and it creates the missing ones.                              *)
LEMMA DdlItemsFit ==
  ASSUME FullAssumption, TypeInv
  PROVE  LET items == DdlItems(job.tables, job.all, job.policy)
         IN  /\ items \in Seq(JobItems)
             /\ \A i \in 1 .. Len(items) : PlannedDdl(items[i])
             /\ \A t \in job.tables : \E i \in 1 .. Len(items) :
                  items[i] = Item(t, ActionFor(t, job.policy))
             /\ \A i, j \in 1 .. Len(items) :
                  items[i].table \in Source /\ items[i].table = items[j].table => i = j
<1> DEFINE order   == Sorted(job.tables)
           item(i) == Item(order[i], ActionFor(order[i], job.policy))
           own     == [i \in 1 .. Len(order) |-> item(i)]
           rest    == IF job.policy = "sync" /\ job.all THEN TargetOnlyItems(job.tables) ELSE << >>
<1>1. job.tables \in SUBSET AllTables /\ job.tables \in SUBSET Nat /\ IsFiniteSet(job.tables)
      /\ job.policy \in PolicyNames /\ (job.all => job.tables = Source)
  <2>1. job.tables \in SUBSET AllTables /\ job.policy \in PolicyNames
        /\ (job.all => job.tables = Source)
    BY DEF TypeInv, JobOK, Jobs, AllTables
  <2> QED BY <2>1, TablesAreFinite
<1>2. /\ order \in Seq(job.tables) /\ \A t \in job.tables : \E i \in 1 .. Len(order) : order[i] = t
      /\ \A i, j \in 1 .. Len(order) : order[i] = order[j] => i = j
  BY <1>1, SortedEnumerates
<1> HIDE DEF order
<1>3. Len(order) \in Nat /\ \A i \in 1 .. Len(order) : order[i] \in job.tables
  BY <1>2, LenProperties, ElementOfSeq
<1>4. ASSUME NEW i \in 1 .. Len(order)
      PROVE  item(i) \in JobItems /\ PlannedDdl(item(i)) /\ item(i).table = order[i]
  <2>1. order[i] \in job.tables /\ order[i] \in Nat
    BY <1>1, <1>3
  <2>2. \/ ActionFor(order[i], job.policy) \in {"create", "sync_existing", "skip"}
        \/ ActionFor(order[i], job.policy) = "truncate" /\ job.policy = "truncate_reload"
        \/ ActionFor(order[i], job.policy) = "overwrite" /\ job.policy = "overwrite"
    BY <1>1 DEF ActionFor, PolicyNames
  <2> QED BY <2>1, <2>2 DEF Item, JobItems, Steps, PlannedDdl
<1>5. own \in Seq(JobItems) /\ Len(own) = Len(order)
      /\ \A i \in 1 .. Len(own) :
           own[i] = item(i) /\ PlannedDdl(own[i]) /\ own[i].table = order[i]
  <2> HIDE DEF item
  <2>1. own \in Seq(JobItems) /\ Len(own) = Len(order)
    BY <1>3, <1>4
  <2> QED BY <1>4, <2>1
<1>6. /\ rest \in Seq(JobItems)
      /\ \A i \in 1 .. Len(rest) : PlannedDdl(rest[i]) /\ rest[i].table \notin Source
  <2>1. CASE job.policy = "sync" /\ job.all
    BY <1>1, <2>1, TargetOnlyItemsFit
  <2>2. CASE ~(job.policy = "sync" /\ job.all)
    <3>1. rest = << >>
      BY <2>2
    <3>2. << >> \in Seq(JobItems) /\ Len(<< >>) = 0
      BY EmptySeq
    <3> HIDE DEF rest
    <3> QED BY <3>1, <3>2
  <2> QED BY <2>1, <2>2
<1>7. DdlItems(job.tables, job.all, job.policy) = own \o rest
  BY DEF DdlItems, order
<1>8. ASSUME NEW t \in job.tables
      PROVE  \E i \in 1 .. Len(own) : own[i] = Item(t, ActionFor(t, job.policy))
  <2>1. PICK i \in 1 .. Len(order) : order[i] = t
    BY <1>2
  <2>2. own[i] = Item(t, ActionFor(t, job.policy)) /\ i \in 1 .. Len(own)
    BY <1>5, <1>8, <2>1
  <2> QED BY <2>2
<1> HIDE DEF own, rest
<1>9. /\ own \o rest \in Seq(JobItems) /\ Len(own \o rest) = Len(own) + Len(rest)
      /\ \A i \in 1 .. Len(own) + Len(rest) :
            (own \o rest)[i] = IF i <= Len(own) THEN own[i] ELSE rest[i - Len(own)]
  <2>1. own \in Seq(JobItems) /\ rest \in Seq(JobItems)
    BY <1>5, <1>6
  <2> QED BY <2>1, ConcatProperties
<1>10. Len(own) \in Nat /\ Len(rest) \in Nat
  BY <1>5, <1>6, LenProperties
<1>11. ASSUME NEW i \in 1 .. Len(own \o rest) PROVE PlannedDdl((own \o rest)[i])
  <2>1. CASE i <= Len(own)
    <3>1. i \in 1 .. Len(own) /\ (own \o rest)[i] = own[i]
      BY <1>9, <1>10, <2>1
    <3> QED BY <1>5, <3>1
  <2>2. CASE ~(i <= Len(own))
    <3>1. i - Len(own) \in 1 .. Len(rest) /\ (own \o rest)[i] = rest[i - Len(own)]
      BY <1>9, <1>10, <2>2
    <3> QED BY <1>6, <3>1
  <2> QED BY <2>1, <2>2
<1>12. ASSUME NEW t \in job.tables
       PROVE  \E i \in 1 .. Len(own \o rest) :
                (own \o rest)[i] = Item(t, ActionFor(t, job.policy))
  <2>1. PICK i \in 1 .. Len(own) : own[i] = Item(t, ActionFor(t, job.policy))
    BY <1>8, <1>12
  <2>2. i \in 1 .. Len(own \o rest) /\ (own \o rest)[i] = own[i]
    BY <1>9, <1>10
  <2> QED BY <2>1, <2>2
<1>13. ASSUME NEW i \in 1 .. Len(own \o rest), NEW j \in 1 .. Len(own \o rest),
              (own \o rest)[i].table \in Source,
              (own \o rest)[i].table = (own \o rest)[j].table
       PROVE  i = j
  <2>1. ASSUME NEW k \in 1 .. Len(own \o rest), (own \o rest)[k].table \in Source
        PROVE  k \in 1 .. Len(own) /\ (own \o rest)[k].table = order[k]
    <3>1. CASE k <= Len(own)
      BY <1>5, <1>9, <1>10, <3>1
    <3>2. CASE ~(k <= Len(own))
      <4>1. k - Len(own) \in 1 .. Len(rest) /\ (own \o rest)[k] = rest[k - Len(own)]
        BY <1>9, <1>10, <3>2
      <4> QED BY <1>6, <2>1, <4>1
    <3> QED BY <3>1, <3>2
  <2>2. i \in 1 .. Len(own) /\ j \in 1 .. Len(own) /\ order[i] = order[j]
    BY <1>13, <2>1
  <2> QED BY <1>2, <1>5, <2>2
<1> QED BY <1>7, <1>9, <1>11, <1>12, <1>13

CopyPlan(chosen) ==
  LET order == Sorted({t \in chosen : ~Skipped(t)})
  IN  [i \in 1 .. Len(order) |-> Item(order[i], "copy")]

(* The copy has an item for each table of the plan that it does not skip.  *)
LEMMA CopyPlanFits ==
  ASSUME FullAssumption, TypeInv, NEW chosen \in SUBSET job.tables
  PROVE  /\ CopyPlan(chosen) \in Seq(JobItems)
         /\ \A i \in 1 .. Len(CopyPlan(chosen)) :
              CopyPlan(chosen)[i].action = "copy" /\ CopyPlan(chosen)[i].table \in chosen
         /\ \A t \in chosen : Skipped(t) \/ \E i \in 1 .. Len(CopyPlan(chosen)) :
                                              CopyPlan(chosen)[i] = Item(t, "copy")
         /\ \A i \in 1 .. Len(CopyPlan(chosen)) : ~Skipped(CopyPlan(chosen)[i].table)
         /\ \A i, j \in 1 .. Len(CopyPlan(chosen)) :
              CopyPlan(chosen)[i].table = CopyPlan(chosen)[j].table => i = j
<1> DEFINE S       == {t \in chosen : ~Skipped(t)}
           order   == Sorted(S)
<1>1. S \in SUBSET Nat /\ IsFiniteSet(S) /\ S \subseteq chosen
  <2>1. S \in SUBSET AllTables
    BY DEF TypeInv, JobOK, Jobs, AllTables
  <2> QED BY <2>1, TablesAreFinite
<1>2. /\ order \in Seq(S) /\ \A t \in S : \E i \in 1 .. Len(order) : order[i] = t
      /\ \A i, j \in 1 .. Len(order) : order[i] = order[j] => i = j
  BY <1>1, SortedEnumerates
<1>3. CopyPlan(chosen) = [i \in 1 .. Len(order) |-> Item(order[i], "copy")]
  BY DEF CopyPlan
<1> HIDE DEF order
<1>4. Len(order) \in Nat /\ \A i \in 1 .. Len(order) : order[i] \in S /\ order[i] \in Nat
  BY <1>1, <1>2, LenProperties, ElementOfSeq
<1>5. \A i \in 1 .. Len(order) : Item(order[i], "copy") \in JobItems
  BY <1>4 DEF Item, JobItems, Steps
<1>6. CopyPlan(chosen) \in Seq(JobItems) /\ Len(CopyPlan(chosen)) = Len(order)
  BY <1>3, <1>4, <1>5
<1>7. \A i \in 1 .. Len(CopyPlan(chosen)) :
        CopyPlan(chosen)[i].table = order[i] /\ CopyPlan(chosen)[i].action = "copy"
  BY <1>3, <1>4, <1>6 DEF Item
<1> QED BY <1>1, <1>2, <1>3, <1>4, <1>6, <1>7 DEF Item

-----------------------------------------------------------------------------
(* The ways in which a step moves the job on.                              *)

LEMMA EmptyFits ==
  ASSUME NEW j, NEW p
  PROVE  << >> \in Seq(JobItems) /\ PlanFits(<< >>, j, p)
<1>1. << >> \in Seq(JobItems) /\ Len(<< >>) = 0
  BY EmptySeq
<1> QED BY <1>1 DEF PlanFits

(* What fits one job fits every job like it.                               *)
LEMMA SameFits ==
  ASSUME NEW j, NEW k, NEW p, NEW todo, PlanFits(todo, j, p),
         k.stage = j.stage, k.tables = j.tables, k.policy = j.policy, k.audited = j.audited
  PROVE  PlanFits(todo, k, p)
<1>1. \A item : ItemFits(item, j, p) => ItemFits(item, k, p)
  BY DEF ItemFits, DdlItemFits
<1> QED BY <1>1 DEF PlanFits

LEMMA TailFits ==
  ASSUME NEW j, NEW p, NEW todo \in Seq(JobItems), todo # << >>, PlanFits(todo, j, p),
         todo[1].action \notin Ends
  PROVE  Tail(todo) # << >> /\ PlanFits(Tail(todo), j, p)
<1> DEFINE rest == Tail(todo)
<1>1. /\ rest \in Seq(JobItems) /\ Len(rest) = Len(todo) - 1 /\ 1 \in 1 .. Len(todo)
      /\ \A i \in 1 .. Len(rest) : i + 1 \in 1 .. Len(todo) /\ rest[i] = todo[i + 1]
      /\ rest # << >> => rest[Len(rest)] = todo[Len(todo)]
  BY TailOf
<1>2. Len(todo) \in Nat /\ Len(rest) \in Nat
  BY <1>1, LenProperties
<1>3. Len(todo) # 1
  BY DEF PlanFits
<1> HIDE DEF rest
<1>4. rest # << >>
  <2>1. Len(rest) # 0
    BY <1>1, <1>2, <1>3
  <2> QED BY <2>1, EmptySeq
<1>5. ASSUME NEW i \in 1 .. Len(rest)
      PROVE  /\ ItemFits(rest[i], j, p)
             /\ i # 1 => rest[i].action \notin HalfDone
             /\ i # Len(rest) => rest[i].action \notin Ends
  <2>1. i + 1 \in 1 .. Len(todo) /\ rest[i] = todo[i + 1] /\ i + 1 # 1
        /\ (i # Len(rest) => i + 1 # Len(todo))
    BY <1>1, <1>2
  <2> QED BY <2>1 DEF PlanFits
<1>6. rest[Len(rest)].action \in Ends
  BY <1>1, <1>4 DEF PlanFits
<1>7. PlanFits(rest, j, p)
  BY <1>5, <1>6 DEF PlanFits
<1> QED BY <1>4, <1>7 DEF rest

LEMMA BecomesFits ==
  ASSUME NEW j, NEW p, NEW todo \in Seq(JobItems), todo # << >>, PlanFits(todo, j, p),
         NEW x \in JobItems, ItemFits(x, j, p), x.action \in Ends <=> todo[1].action \in Ends
  PROVE  PlanFits(<<x>> \o Tail(todo), j, p)
<1> DEFINE next == <<x>> \o Tail(todo)
<1>1. /\ next \in Seq(JobItems) /\ Len(next) = Len(todo) /\ next[1] = x
      /\ \A i \in 1 .. Len(todo) : i # 1 => next[i] = todo[i]
  BY BecomesOf
<1>2. 1 \in 1 .. Len(todo) /\ Len(todo) \in Nat
  BY TailOf, LenProperties
<1> HIDE DEF next
<1>3. ASSUME NEW i \in 1 .. Len(next)
      PROVE  /\ ItemFits(next[i], j, p)
             /\ i # 1 => next[i].action \notin HalfDone
             /\ i # Len(next) => next[i].action \notin Ends
  <2>1. CASE i = 1
    <3>1. i # Len(todo) => todo[1].action \notin Ends
      BY <1>2, <2>1 DEF PlanFits
    <3> QED BY <1>1, <2>1, <3>1
  <2>2. CASE i # 1
    BY <1>1, <2>2 DEF PlanFits
  <2> QED BY <2>1, <2>2
<1>4. next[Len(next)].action \in Ends
  <2>1. Len(todo) \in 1 .. Len(todo) /\ todo[Len(todo)].action \in Ends
    BY <1>2 DEF PlanFits
  <2>2. CASE Len(todo) = 1
    BY <1>1, <2>1, <2>2
  <2>3. CASE Len(todo) # 1
    BY <1>1, <2>1, <2>3
  <2> QED BY <2>2, <2>3
<1>5. PlanFits(next, j, p)
  BY <1>3, <1>4 DEF PlanFits
<1> QED BY <1>5 DEF next

(* A plan made of items that fit, and the step that ends it.               *)
LEMMA AppendFits ==
  ASSUME NEW j, NEW p, NEW items \in Seq(JobItems), NEW x \in JobItems,
         ItemFits(x, j, p), x.action \in Ends \ HalfDone,
         \A i \in 1 .. Len(items) :
            ItemFits(items[i], j, p) /\ items[i].action \notin Ends \cup HalfDone
  PROVE  PlanFits(Append(items, x), j, p)
<1> DEFINE todo == Append(items, x)
<1>1. /\ Len(todo) = Len(items) + 1 /\ todo[Len(items) + 1] = x
      /\ \A i \in 1 .. Len(items) : todo[i] = items[i]
  BY AppendOf
<1>2. Len(items) \in Nat
  BY LenProperties
<1> HIDE DEF todo
<1>3. ASSUME NEW i \in 1 .. Len(todo)
      PROVE  /\ ItemFits(todo[i], j, p)
             /\ i # 1 => todo[i].action \notin HalfDone
             /\ i # Len(todo) => todo[i].action \notin Ends
  <2>1. i = Len(items) + 1 \/ i \in 1 .. Len(items)
    BY <1>1, <1>2
  <2> QED BY <1>1, <2>1
<1>4. todo[Len(todo)].action \in Ends
  BY <1>1
<1>5. PlanFits(todo, j, p)
  BY <1>3, <1>4 DEF PlanFits
<1> QED BY <1>5 DEF todo

(* The job moves on to a plan of the same stage.                           *)
SameJob ==
  /\ job' \in Jobs
  /\ job'.command = job.command /\ job'.stage = job.stage /\ job'.policy = job.policy
  /\ job'.tables = job.tables /\ job'.all = job.all
  /\ job'.since = job.since /\ job'.held = job.held

LEMMA SameJobOK ==
  ASSUME JobOK, SameJob, job.stage # "none"
  PROVE  JobOK'
  BY DEF JobOK, SameJob

LEMMA EndsWell ==
  ASSUME job' = NoJob
  PROVE  JobOK' /\ PlanInv'
<1>1. << >> \in Seq(JobItems) /\ PlanFits(<< >>, NoJob, Protected')
  BY EmptyFits
<1>2. NoJob \in Jobs
  BY <1>1 DEF NoJob, Jobs, Names, Stages, PolicyNames
<1>3. JobOK'
  BY <1>2 DEF JobOK, NoJob
<1>4. PlanFits(job'.todo, job', Protected')
  BY <1>1 DEF NoJob
<1> QED BY <1>3, <1>4 DEF PlanInv

LEMMA ProtectedStays ==
  ASSUME UNCHANGED <<safety, dryRun>>
  PROVE  Protected' = Protected
  BY DEF Protected

GoesOn(failed) ==
  job' = [job EXCEPT !.todo = Tail(@), !.failed = @ \/ failed]

(* An item that does not end its stage is done: the next one is there.     *)
LEMMA GoesOnWell ==
  ASSUME JobOK, PlanInv, job.stage # "none", UNCHANGED <<safety, dryRun>>,
         NEW failed \in BOOLEAN, GoesOn(failed),
         job.todo # << >>, Head(job.todo).action \notin Ends
  PROVE  /\ JobOK' /\ PlanInv' /\ SameJob /\ job'.audited = job.audited
         /\ job'.todo = Tail(job.todo) /\ job'.todo # << >>
<1>1. job.todo \in Seq(JobItems)
  BY DEF JobOK, Jobs
<1>2. /\ Tail(job.todo) \in Seq(JobItems) /\ Head(job.todo) = job.todo[1]
  BY <1>1, TailOf
<1>3. Tail(job.todo) # << >> /\ PlanFits(Tail(job.todo), job, Protected)
  BY <1>1, <1>2, TailFits DEF PlanInv
<1>4. /\ job'.command = job.command /\ job'.stage = job.stage /\ job'.policy = job.policy
      /\ job'.tables = job.tables /\ job'.all = job.all /\ job'.audited = job.audited
      /\ job'.since = job.since /\ job'.held = job.held
      /\ job'.todo = Tail(job.todo)
  BY DEF GoesOn, JobOK, Jobs
<1>5. job' \in Jobs
  BY <1>2 DEF GoesOn, JobOK, Jobs
<1>6. PlanFits(job'.todo, job', Protected')
  BY <1>3, <1>4, SameFits, ProtectedStays
<1>7. SameJob
  BY <1>4, <1>5 DEF SameJob
<1> QED BY <1>3, <1>4, <1>6, <1>7, SameJobOK DEF PlanInv

TurnsInto(action) == job' = [job EXCEPT !.todo = <<Item(Table, action)>> \o Tail(@)]

(* An item is half done: it becomes its second half.                       *)
LEMMA TurnsIntoWell ==
  ASSUME JobOK, PlanInv, job.stage # "none", UNCHANGED <<safety, dryRun>>,
         NEW action \in Steps, TurnsInto(action), job.todo # << >>,
         ItemFits(Item(Table, action), job, Protected),
         Head(job.todo).action \in Ends <=> action \in Ends
  PROVE  /\ JobOK' /\ PlanInv' /\ SameJob /\ job'.audited = job.audited
         /\ job'.todo = <<Item(Table, action)>> \o Tail(job.todo)
         /\ job'.todo # << >> /\ Head(job'.todo) = Item(Table, action)
<1> DEFINE item == Item(Table, action)
           todo == <<item>> \o Tail(job.todo)
<1>1. job.todo \in Seq(JobItems)
  BY DEF JobOK, Jobs
<1>2. job.todo[1] \in JobItems /\ Head(job.todo) = job.todo[1]
  BY <1>1, TailOf
<1>3. item \in JobItems /\ item.action = action
  BY <1>2 DEF Item, JobItems, Table
<1> HIDE DEF item
<1>4. todo \in Seq(JobItems) /\ todo # << >> /\ Head(todo) = item
  BY <1>1, <1>3, BecomesOf
<1>5. PlanFits(todo, job, Protected)
  <2>1. ItemFits(item, job, Protected)
    BY DEF item
  <2>2. PlanFits(job.todo, job, Protected)
    BY DEF PlanInv
  <2>3. item.action \in Ends <=> job.todo[1].action \in Ends
    BY <1>2, <1>3
  <2> QED BY <1>1, <1>3, <2>1, <2>2, <2>3, BecomesFits
<1>6. job' = [job EXCEPT !.todo = todo]
  BY DEF TurnsInto, item, JobOK, Jobs
<1> HIDE DEF todo
<1>7. /\ job'.command = job.command /\ job'.stage = job.stage /\ job'.policy = job.policy
      /\ job'.tables = job.tables /\ job'.all = job.all /\ job'.audited = job.audited
      /\ job'.since = job.since /\ job'.held = job.held /\ job'.todo = todo
  BY <1>6 DEF JobOK, Jobs
<1>8. job' \in Jobs
  BY <1>4, <1>6 DEF JobOK, Jobs
<1>9. PlanFits(job'.todo, job', Protected')
  BY <1>5, <1>7, SameFits, ProtectedStays
<1>10. SameJob
  BY <1>7, <1>8 DEF SameJob
<1>11. JobOK' /\ PlanInv'
  BY <1>9, <1>10, SameJobOK DEF PlanInv
<1> QED BY <1>4, <1>7, <1>10, <1>11 DEF todo, item

Plans(todo, audited) == job' = [job EXCEPT !.todo = todo, !.audited = audited]

LEMMA PlansWell ==
  ASSUME JobOK, job.stage # "none", NEW todo \in Seq(JobItems), NEW audited \in BOOLEAN,
         UNCHANGED <<safety, dryRun>>,
         Plans(todo, audited), PlanFits(todo, [job EXCEPT !.audited = audited], Protected)
  PROVE  JobOK' /\ PlanInv' /\ SameJob /\ job'.todo = todo /\ job'.audited = audited
<1>1. /\ job'.command = job.command /\ job'.stage = job.stage /\ job'.policy = job.policy
      /\ job'.tables = job.tables /\ job'.all = job.all /\ job'.audited = audited
      /\ job'.since = job.since /\ job'.held = job.held
      /\ job'.todo = todo /\ job' \in Jobs
  BY DEF Plans, JobOK, Jobs
<1> DEFINE j == [job EXCEPT !.audited = audited]
<1>2. /\ j.stage = job.stage /\ j.policy = job.policy /\ j.tables = job.tables
      /\ j.audited = audited
  BY DEF JobOK, Jobs
<1> HIDE DEF j
<1>3. PlanFits(todo, job', Protected)
  <2>1. PlanFits(todo, j, Protected)
    BY DEF j
  <2> QED BY <1>1, <1>2, <2>1, SameFits
<1>4. PlanFits(job'.todo, job', Protected')
  BY <1>1, <1>3, ProtectedStays
<1>5. SameJob
  BY <1>1 DEF SameJob
<1> QED BY <1>1, <1>4, <1>5, SameJobOK DEF PlanInv

NextCommand ==
  /\ job.command = "full" /\ job.stage # "apply-indexes"
  /\ job' = [job EXCEPT !.stage = NextStage[job.stage] , !.todo = << >>]

LEMMA NextCommandWell ==
  ASSUME JobOK, NextCommand
  PROVE  /\ JobOK' /\ PlanInv' /\ job'.todo = << >>
         /\ job.stage \in DOMAIN NextStage /\ job'.stage = NextStage[job.stage]
         /\ job'.command = job.command /\ job'.policy = job.policy /\ job'.all = job.all
         /\ job'.tables = job.tables /\ job'.audited = job.audited
         /\ job'.since = job.since /\ job'.held = job.held
<1>1. << >> \in Seq(JobItems) /\ PlanFits(<< >>, job', Protected')
  BY EmptyFits
<1>2. /\ job \in Jobs /\ job.command = "full"
      /\ job.stage \in {"apply-ddl", "pre-indexes", "migrate-data", "apply-foreign-keys"}
  BY DEF JobOK, NextCommand, NextStage
<1>3. NextStage[job.stage] \in {"pre-indexes", "migrate-data", "apply-foreign-keys", "apply-indexes"}
  BY <1>2 DEF NextStage
<1>4. job' = [job EXCEPT !.stage = NextStage[job.stage] , !.todo = << >>]
  BY DEF NextCommand
<1>5. /\ job'.command = job.command /\ job'.policy = job.policy /\ job'.all = job.all
      /\ job'.tables = job.tables /\ job'.audited = job.audited
      /\ job'.since = job.since /\ job'.held = job.held
      /\ job'.todo = << >> /\ job'.stage = NextStage[job.stage]
  BY <1>2, <1>4 DEF Jobs
<1>6. job' \in Jobs
  BY <1>1, <1>2, <1>3, <1>4 DEF Jobs, Stages
<1>7. JobOK'
  BY <1>2, <1>3, <1>5, <1>6 DEF JobOK, NextStage
<1>8. PlanInv'
  BY <1>1, <1>5 DEF PlanInv
<1>9. job.stage \in DOMAIN NextStage
  BY <1>2 DEF NextStage
<1> QED BY <1>5, <1>7, <1>8, <1>9

LEMMA StartsWell ==
  ASSUME FullAssumption, TypeInv,
         NEW command \in Commands, NEW policy \in Policies, NEW scope \in Scopes,
         Start(command, policy, scope)
  PROVE  /\ JobOK' /\ PlanInv' /\ job'.todo = << >> /\ job'.audited = FALSE
         /\ job'.command = command /\ job'.stage = Stage(command)
         /\ job'.since = faults /\ job'.held = PartlyFilled
         /\ job'.tables \in SUBSET Source
         /\ job'.stage # "none"
<1>0. /\ job' = [NoJob EXCEPT !.command = command, !.stage = Stage(command), !.policy = policy,
                              !.tables = scope.tables, !.all = scope.all,
                              !.since = faults, !.held = PartlyFilled]
      /\ faults \in Nat /\ PartlyFilled \in SUBSET Source
  BY DEF Start, TypeInv, FilesOK, FullAssumption, PartlyFilled
<1>1. << >> \in Seq(JobItems) /\ PlanFits(<< >>, job', Protected')
  BY EmptyFits
<1>2. /\ command \in Names \ {"none"} /\ policy \in PolicyNames
      /\ scope.tables \in SUBSET Source /\ scope.all \in BOOLEAN
      /\ scope.all => scope.tables = Source
  BY DEF FullAssumption, Names, PolicyNames
<1>3. Stage(command) \in Stages \ {"none"} /\ (command # "full" => Stage(command) = command)
      /\ (command = "full" => Stage(command) = "apply-ddl")
  BY <1>2 DEF Stage, Stages, Names
<1>4. /\ job'.command = command /\ job'.stage = Stage(command) /\ job'.policy = policy
      /\ job'.tables = scope.tables /\ job'.all = scope.all /\ job'.todo = << >>
      /\ job'.audited = FALSE /\ job'.since = faults /\ job'.held = PartlyFilled
  BY <1>0 DEF NoJob
<1>5. job' \in Jobs
  BY <1>0, <1>1, <1>2, <1>3 DEF NoJob, Jobs, Names
<1>6. JobOK'
  BY <1>2, <1>3, <1>4, <1>5 DEF JobOK, NextStage
<1>7. PlanInv'
  BY <1>1, <1>4 DEF PlanInv
<1> QED BY <1>2, <1>3, <1>4, <1>6, <1>7

-----------------------------------------------------------------------------
(* The job and its plan in every step.                                     *)

WentOn ==
  /\ JobOK' /\ PlanInv' /\ SameJob /\ job'.audited = job.audited
  /\ job'.todo = Tail(job.todo) /\ job'.todo # << >>

Turned(action) ==
  /\ JobOK' /\ PlanInv' /\ SameJob /\ job'.audited = job.audited
  /\ job'.todo = <<Item(Table, action)>> \o Tail(job.todo)
  /\ job'.todo # << >> /\ Head(job'.todo) = Item(Table, action)

(* The job of the next command of the full sequence.                       *)
Moved ==
  /\ JobOK' /\ PlanInv' /\ job'.todo = << >>
  /\ job.command = "full" /\ job'.command = "full"
  /\ job.stage \in DOMAIN NextStage /\ job'.stage = NextStage[job.stage]
  /\ job'.policy = job.policy /\ job'.tables = job.tables
  /\ job'.since = job.since /\ job'.held = job.held

Ended(success) ==
  /\ JobOK' /\ PlanInv' /\ job' = NoJob
  /\ outcome' = [command |-> job.command, policy |-> job.policy, tables |-> job.tables,
                 since |-> job.since, held |-> job.held, success |-> success]

(* What a step that is no Start does to the job.                           *)
JobMoves ==
  \/ job' = job /\ outcome' = outcome
  \/ SameJob /\ job'.todo # << >> /\ outcome' = outcome
  \/ Moved /\ outcome' = outcome
  \/ Ended(FALSE)
  \/ Ended(TRUE) /\ (job.command = "full" => job.stage = "apply-indexes")

DdlActions == {"skip", "create", "sync_existing", "truncate", "overwrite", "record_drop",
               "recreate", "record_create"}

(* What the head of the plan of apply-ddl is.                              *)
LEMMA DoingFits ==
  ASSUME FullAssumption, TypeInv, PlanInv, NEW action, Doing(action)
  PROVE  /\ job.stage = "apply-ddl" /\ job.todo # << >> /\ job.todo \in Seq(JobItems)
         /\ Head(job.todo).action = action /\ action \in Steps
         /\ Head(job.todo) = Item(Table, action)
         /\ action \in DdlActions => Table \in job.tables /\ Table \in Source
         /\ action \in {"drop_target_only", "blocked"} => Table \in AllTables \ Source
         /\ action = "truncate" => job.policy = "truncate_reload"
         /\ action \in {"overwrite", "record_drop", "recreate", "record_create"} =>
              job.policy = "overwrite" /\ job.audited
         /\ Protected => action \notin Destructive
         /\ action \in Ends => Len(job.todo) = 1
         /\ action \notin {"copy", "end"}
<1>1. /\ job.stage = "apply-ddl" /\ job.todo # << >> /\ job.todo \in Seq(JobItems)
      /\ Head(job.todo).action = action /\ job.tables \in SUBSET Source
  BY DEF Doing, At, TypeInv, JobOK, Jobs
<1>2. Head(job.todo) = job.todo[1] /\ job.todo[1] \in JobItems /\ 1 \in 1 .. Len(job.todo)
  BY <1>1, TailOf
<1>3. ItemFits(job.todo[1], job, Protected) /\ (1 # Len(job.todo) => job.todo[1].action \notin Ends)
  BY <1>2 DEF PlanInv, PlanFits
<1>4. DdlItemFits(Head(job.todo), job) /\ (Protected => action \notin Destructive)
  BY <1>1, <1>2, <1>3 DEF ItemFits
<1>5. Head(job.todo) = Item(Table, action) /\ action \in Steps
  BY <1>1, <1>2 DEF JobItems, Item, Table
<1>6. Head(job.todo).table = Table
  BY DEF Table
<1> QED BY <1>1, <1>2, <1>3, <1>4, <1>5, <1>6 DEF DdlItemFits, DdlActions

LEMMA AdvanceWell ==
  ASSUME TypeInv, PlanInv, UNCHANGED <<safety, dryRun>>, job.stage # "none",
         NEW failed \in BOOLEAN, Advance(failed), job.todo # << >>,
         Head(job.todo).action \notin Ends
  PROVE  WentOn /\ outcome' = outcome
<1>1. GoesOn(failed) /\ outcome' = outcome
  BY DEF Advance, GoesOn
<1> QED BY <1>1, GoesOnWell DEF WentOn, TypeInv

LEMMA BecomesWell ==
  ASSUME TypeInv, PlanInv, UNCHANGED <<safety, dryRun>>, job.stage = "apply-ddl",
         NEW action \in Steps, Becomes(action), job.todo # << >>,
         DdlItemFits(Item(Table, action), job), action \notin Destructive,
         Head(job.todo).action \in Ends <=> action \in Ends
  PROVE  Turned(action) /\ outcome' = outcome
<1>1. TurnsInto(action) /\ outcome' = outcome
  BY DEF Becomes, TurnsInto
<1>2. ItemFits(Item(Table, action), job, Protected)
  BY DEF ItemFits, Item
<1> QED BY <1>1, <1>2, TurnsIntoWell DEF Turned, TypeInv

LEMMA FinishWell ==
  ASSUME NEW success, Finish(success)
  PROVE  Ended(success)
<1>1. job' = NoJob
  BY DEF Finish
<1> QED BY <1>1, EndsWell DEF Finish, Ended

LEMMA SucceedWell ==
  ASSUME TypeInv, Succeed
  PROVE  \/ Moved /\ outcome' = outcome
         \/ Ended(TRUE) /\ (job.command = "full" => job.stage = "apply-indexes")
<1>1. CASE job.command = "full" /\ job.stage # "apply-indexes"
  <2>1. NextCommand /\ outcome' = outcome
    BY <1>1 DEF Succeed, NextCommand
  <2>2. Moved
    BY <1>1, <2>1, NextCommandWell DEF Moved, TypeInv
  <2> QED BY <2>1, <2>2
<1>2. CASE ~(job.command = "full" /\ job.stage # "apply-indexes")
  <2>1. Ended(TRUE)
    BY <1>2, FinishWell DEF Succeed
  <2> QED BY <1>2, <2>1
<1> QED BY <1>1, <1>2

(* The plan that apply-ddl makes, when the guard allows it.                *)
PlannedWell ==
  /\ JobOK' /\ PlanInv' /\ SameJob /\ outcome' = outcome
  /\ job'.todo = Append(Planned, Report) /\ job'.todo # << >>
  /\ job'.audited = ("overwrite" \in Actions(Planned))
  /\ audit' = IF job'.audited THEN [NoAudit EXCEPT !.status = "running"] ELSE audit

LEMMA PlanDdlWell ==
  ASSUME FullAssumption, TypeInv, PlanDdl
  PROVE  PlannedWell \/ (Ended(FALSE) /\ audit' = audit)
<1> DEFINE items == Planned
           audited == "overwrite" \in Actions(items)
           todo == Append(items, Report)
           j == [job EXCEPT !.audited = audited]
<1>1. items \in Seq(JobItems) /\ \A i \in 1 .. Len(items) : PlannedDdl(items[i])
  BY DdlItemsFit DEF Planned
<1>2. Report \in JobItems /\ Report.action = "report"
  BY DEF Report, Item, JobItems, Steps
<1>3. CASE GuardAllows(items)
  <2>1. /\ job' = [job EXCEPT !.todo = todo, !.audited = audited]
        /\ audit' = IF audited THEN [NoAudit EXCEPT !.status = "running"] ELSE audit
        /\ outcome' = outcome /\ UNCHANGED <<safety, dryRun>>
        /\ job.stage = "apply-ddl"
    BY <1>3 DEF PlanDdl, At, env
  <2>2. \A i \in 1 .. Len(items) :
          (items[i].action = "overwrite" => audited)
          /\ (Protected => items[i].action \notin Destructive)
    BY <1>3 DEF Actions, GuardAllows, Protected
  <2>3. j.stage = "apply-ddl" /\ j.tables = job.tables /\ j.policy = job.policy
        /\ j.audited = audited
    BY <2>1 DEF TypeInv, JobOK, Jobs
  <2> HIDE DEF j, items
  <2>4. ASSUME NEW i \in 1 .. Len(items)
        PROVE  ItemFits(items[i], j, Protected) /\ items[i].action \notin Ends \cup HalfDone
    <3>1. PlannedDdl(items[i])
      BY <1>1
    <3> QED BY <2>2, <2>3, <3>1 DEF PlannedDdl, ItemFits, DdlItemFits, Ends, HalfDone
  <2>5. ItemFits(Report, j, Protected) /\ Report.action \in Ends \ HalfDone
    BY <1>2, <2>3 DEF ItemFits, DdlItemFits, Ends, HalfDone, Destructive
  <2>6. PlanFits(todo, j, Protected)
    BY <1>1, <1>2, <2>4, <2>5, AppendFits
  <2>7. todo \in Seq(JobItems) /\ todo # << >> /\ audited \in BOOLEAN
    BY <1>1, <1>2, AppendOf
  <2>8. Plans(todo, audited)
    BY <2>1 DEF Plans
  <2> HIDE DEF todo, audited
  <2>9. JobOK' /\ PlanInv' /\ SameJob /\ job'.todo = todo /\ job'.audited = audited
    BY <2>1, <2>6, <2>7, <2>8, PlansWell DEF TypeInv, j
  <2>10. audit' = IF job'.audited THEN [NoAudit EXCEPT !.status = "running"] ELSE audit
    BY <2>1, <2>9
  <2>11. outcome' = outcome
    BY <2>1
  <2> QED BY <2>7, <2>9, <2>10, <2>11, Zenon DEF PlannedWell, todo, audited, items
<1>4. CASE ~GuardAllows(items)
  BY <1>4, FinishWell DEF PlanDdl
<1> QED BY <1>3, <1>4

(* The plan of migrate-data and resume.                                    *)
Chosen == {t \in job.tables : IncludesDml(t, job.policy)}

LEMMA PlanCopyWell ==
  ASSUME FullAssumption, TypeInv, PlanCopy
  PROVE  \/ /\ JobOK' /\ PlanInv' /\ SameJob /\ outcome' = outcome
            /\ job'.todo = Append(CopyPlan(Chosen), CopyEnd) /\ job'.audited = job.audited
            /\ job'.todo # << >>
         \/ Ended(FALSE)
<1> DEFINE items == CopyPlan(Chosen)
           todo  == Append(items, CopyEnd)
<1>1. /\ items \in Seq(JobItems)
      /\ \A i \in 1 .. Len(items) : items[i].action = "copy" /\ items[i].table \in job.tables
  <2>1. Chosen \in SUBSET job.tables
    BY DEF Chosen
  <2> QED BY <2>1, CopyPlanFits
<1>2. CopyEnd \in JobItems /\ CopyEnd.action = "end"
  BY DEF CopyEnd, Item, JobItems, Steps
<1>3. /\ UNCHANGED <<safety, dryRun>> /\ job.stage \in {"migrate-data", "resume"}
      /\ \/ Finish(FALSE)
         \/ job' = [job EXCEPT !.todo = todo] /\ outcome' = outcome
  BY DEF PlanCopy, At, env, files, CopyPlan, Chosen
<1> HIDE DEF items
<1>4. CASE job' = [job EXCEPT !.todo = todo] /\ outcome' = outcome
  <2>1. ASSUME NEW i \in 1 .. Len(items)
        PROVE  ItemFits(items[i], job, Protected) /\ items[i].action \notin Ends \cup HalfDone
    BY <1>1, <1>3 DEF ItemFits, Ends, HalfDone
  <2>2. CopyEnd.action \in Ends \ HalfDone
    BY <1>2 DEF Ends, HalfDone
  <2>0. ItemFits(CopyEnd, job, Protected)
    BY <1>2, <1>3 DEF ItemFits
  <2>3. PlanFits(todo, job, Protected)
    BY <1>1, <1>2, <2>1, <2>2, <2>0, AppendFits
  <2>4. todo \in Seq(JobItems) /\ todo # << >>
    BY <1>1, <1>2, AppendOf
  <2> HIDE DEF todo
  <2>5. Plans(todo, job.audited) /\ [job EXCEPT !.audited = job.audited] = job
        /\ job.audited \in BOOLEAN
    BY <1>4 DEF Plans, TypeInv, JobOK, Jobs
  <2>6. JobOK' /\ PlanInv' /\ SameJob /\ job'.todo = todo /\ job'.audited = job.audited
    BY <1>3, <2>3, <2>4, <2>5, PlansWell DEF TypeInv
  <2> QED BY <1>4, <2>4, <2>6 DEF todo, items
<1>5. CASE Finish(FALSE)
  BY <1>5, FinishWell
<1> QED BY <1>3, <1>4, <1>5

(* What the head of the plan of a copy is.                                 *)
LEMMA CopyingFits ==
  ASSUME FullAssumption, TypeInv, PlanInv, NEW action, Copying(action)
  PROVE  /\ job.stage \in {"migrate-data", "resume"}
         /\ job.todo # << >> /\ job.todo \in Seq(JobItems)
         /\ Head(job.todo).action = action
         /\ Head(job.todo) = Item(Table, action)
         /\ action = "copy" => Table \in job.tables /\ Table \in Source
         /\ action \in Ends => Len(job.todo) = 1
<1>1. /\ job.stage \in {"migrate-data", "resume"} /\ job.todo # << >>
      /\ job.todo \in Seq(JobItems)
      /\ Head(job.todo).action = action /\ job.tables \in SUBSET Source
  BY DEF Copying, At, TypeInv, JobOK, Jobs
<1>2. Head(job.todo) = job.todo[1] /\ job.todo[1] \in JobItems /\ 1 \in 1 .. Len(job.todo)
  BY <1>1, TailOf
<1>3. ItemFits(job.todo[1], job, Protected) /\ (1 # Len(job.todo) => job.todo[1].action \notin Ends)
  BY <1>2 DEF PlanInv, PlanFits
<1>4. action = "end" \/ (action = "copy" /\ Head(job.todo).table \in job.tables)
  BY <1>1, <1>2, <1>3 DEF ItemFits
<1>5. Head(job.todo) = Item(Table, action)
  BY <1>1, <1>2 DEF JobItems, Item, Table
<1> QED BY <1>1, <1>2, <1>3, <1>4, <1>5 DEF Table

-----------------------------------------------------------------------------
(* Every step keeps the type invariant and the plan.                       *)

(* The steps that copy a table.                                            *)
CopyStep == CopyWhole \/ SyncWhole \/ CopyIsRefused \/ DeleteIsRefused \/ CopyFails

LEMMA JobNext ==
  ASSUME FullAssumption, TypeInv, PlanInv, Next
  PROVE  /\ JobOK' /\ PlanInv'
         /\ \/ JobMoves
            \/ \E command \in Commands, policy \in Policies, scope \in Scopes :
                 Start(command, policy, scope)
<1> DEFINE Well == JobOK' /\ PlanInv' /\ JobMoves
<1>1. ASSUME RunDryRun PROVE Well
  <2>1. job' = job /\ job' = NoJob /\ outcome' = outcome
    BY <1>1 DEF RunDryRun
  <2> QED BY <2>1, EndsWell DEF JobMoves
<1>2. ASSUME NEW command \in Commands, NEW policy \in Policies, NEW scope \in Scopes,
             Start(command, policy, scope)
      PROVE  JobOK' /\ PlanInv'
  BY <1>2, StartsWell
<1>3. ASSUME PlanDdl PROVE Well
  BY <1>3, PlanDdlWell DEF PlannedWell, Ended, JobMoves
<1>4. ASSUME Finish(FALSE) PROVE Well
  BY <1>4, FinishWell DEF Ended, JobMoves
<1>5. ASSUME NEW action \in Steps \ Ends, NEW failed \in BOOLEAN,
             Doing(action), Advance(failed), UNCHANGED <<safety, dryRun>>
      PROVE  Well
  <2>1. job.stage = "apply-ddl" /\ job.todo # << >> /\ Head(job.todo).action \notin Ends
    BY <1>5, DoingFits DEF Ends
  <2> QED BY <1>5, <2>1, AdvanceWell DEF WentOn, JobMoves
<1>6. ASSUME NEW before \in {"overwrite", "record_drop", "recreate"},
             NEW action \in {"record_drop", "recreate", "record_create"},
             Doing(before), Becomes(action), UNCHANGED <<safety, dryRun>>
      PROVE  Well
  <2>1. /\ job.stage = "apply-ddl" /\ job.todo # << >> /\ Head(job.todo).action \notin Ends
        /\ Table \in job.tables /\ job.policy = "overwrite" /\ job.audited
    BY <1>6, DoingFits DEF Ends, DdlActions
  <2>2. /\ action \in Steps \ Destructive /\ action \notin Ends
        /\ DdlItemFits(Item(Table, action), job)
    BY <1>6, <2>1 DEF Steps, Destructive, Ends, DdlItemFits, Item
  <2> QED BY <1>6, <2>1, <2>2, BecomesWell DEF Turned, JobMoves
<1>7. ASSUME Skip \/ Blocked \/ SyncExisting \/ DropTargetOnly \/ Truncate \/ Create
             \/ RecordCreate
      PROVE  Well
  <2>1. \/ \E action \in {"skip", "blocked", "sync_existing", "drop_target_only", "truncate",
                         "create", "record_create"}, failed \in BOOLEAN :
             Doing(action) /\ Advance(failed) /\ UNCHANGED <<safety, dryRun>>
        \/ Finish(FALSE)
    BY <1>7 DEF Skip, Blocked, SyncExisting, DropTargetOnly, Truncate, Create, RecordCreate,
                KeepFiles, env, RaiseByFault
  <2>2. {"skip", "blocked", "sync_existing", "drop_target_only", "truncate",
         "create", "record_create"} \subseteq Steps \ Ends
    BY DEF Steps, Ends
  <2> QED BY <1>4, <1>5, <2>1, <2>2
<1>8. ASSUME OverwriteDrop \/ RecordDrop \/ Recreate PROVE Well
  <2>1. \/ \E before \in {"overwrite", "record_drop", "recreate"},
             action \in {"record_drop", "recreate", "record_create"} :
             Doing(before) /\ Becomes(action) /\ UNCHANGED <<safety, dryRun>>
        \/ Finish(FALSE)
    BY <1>8 DEF OverwriteDrop, RecordDrop, Recreate, KeepFiles, env, RaiseByFault
  <2> QED BY <1>4, <1>6, <2>1
<1>9. ASSUME AuditFailsToOpen \/ Refused \/ StatementFails \/ ReplyIsLost \/ AuditStaysOpen
             \/ Crash
      PROVE  Well
  BY <1>4, <1>9 DEF AuditFailsToOpen, Refused, StatementFails, ReplyIsLost, AuditStaysOpen,
                    Crash, Raise, RaiseByFault
<1>10. ASSUME WriteSummary PROVE Well
  <2>1. /\ Finish(FALSE) \/ Becomes("close_audit")
        /\ Doing("report") /\ UNCHANGED <<safety, dryRun>>
    BY <1>10 DEF WriteSummary, KeepFiles, env
  <2>2. CASE Becomes("close_audit")
    <3>1. job.stage = "apply-ddl" /\ job.todo # << >> /\ Head(job.todo).action \in Ends
      BY <2>1, DoingFits DEF Ends
    <3>2. /\ "close_audit" \in Steps \ Destructive /\ "close_audit" \in Ends
          /\ DdlItemFits(Item(Table, "close_audit"), job)
      BY DEF Steps, Destructive, Ends, DdlItemFits, Item
    <3> QED BY <2>1, <2>2, <3>1, <3>2, BecomesWell DEF Turned, JobMoves
  <2> QED BY <1>4, <2>1, <2>2
<1>11. ASSUME CloseAudit \/ EndCopy \/ Apply PROVE Well
  <2>1. Finish(FALSE) \/ Succeed
    BY <1>11 DEF CloseAudit, EndCopy, Apply, ApplyPreIndexes, ApplyForeignKeys, ApplyIndexes
  <2> QED BY <1>4, <2>1, SucceedWell DEF Ended, Moved, JobMoves
<1>12. ASSUME PlanCopy PROVE Well
  BY <1>12, PlanCopyWell DEF Ended, JobMoves
<1>13. ASSUME CopyStep PROVE Well
  <2>1. /\ Finish(FALSE) \/ Advance(FALSE)
        /\ Copying("copy") /\ UNCHANGED <<safety, dryRun>>
    BY <1>13 DEF CopyStep, CopyWhole, SyncWhole, CopyIsRefused, DeleteIsRefused, CopyFails,
                 KeepDdl, env
  <2>2. /\ job.stage \in {"migrate-data", "resume"} /\ job.todo # << >>
        /\ Head(job.todo).action \notin Ends
    BY <2>1, CopyingFits DEF Ends
  <2> QED BY <1>4, <2>1, <2>2, AdvanceWell DEF WentOn, JobMoves
<1> QED
  BY <1>1, <1>2, <1>3, <1>7, <1>8, <1>9, <1>10, <1>11, <1>12, <1>13
     DEF Next, Operate, Ddl, Copy, CopyStep

(* The rows that the copy of a table writes: behind its checkpoint when it *)
(* is resumed, and none unless its table is there.                         *)
LEMMA WrittenRows ==
  ASSUME FullAssumption, TypeInv, NEW t \in Source, NEW d \in StartRow(t) .. RowCount
  PROVE  /\ StartRow(t) \in 0 .. RowCount /\ d \in 0 .. RowCount
         /\ Written(t, d) \subseteq NewRows /\ Written(t, d) \subseteq 0 .. RowCount
         /\ Written(t, d) = {} <=> d = StartRow(t)
         /\ WritableUpTo(t, d) => Written(t, d) = {} \/ t \in exists
         /\ ~At("resume") => Written(t, d) = 1 .. d
<1>1. RowCount \in Nat /\ ckpt[t].cursor \in 0 .. RowCount
  BY DEF FullAssumption, TypeInv, FilesOK, Checkpoints
<1>2. StartRow(t) \in 0 .. RowCount
  BY <1>1 DEF StartRow
<1>3. d \in 0 .. RowCount
  BY <1>1, <1>2
<1>4. Written(t, d) \subseteq NewRows /\ Written(t, d) \subseteq 0 .. RowCount
  BY <1>1, <1>2, <1>3 DEF Written, NewRows
<1>5. Written(t, d) = {} <=> d = StartRow(t)
  <2>1. CASE d = StartRow(t)
    BY <1>2, <2>1 DEF Written
  <2>2. CASE d # StartRow(t)
    <3>1. d \in Written(t, d)
      BY <1>2, <1>3, <2>2 DEF Written
    <3> QED BY <2>2, <3>1
  <2> QED BY <2>1, <2>2
<1>6. WritableUpTo(t, d) => Written(t, d) = {} \/ t \in exists
  BY DEF WritableUpTo, Written, Writable
<1>7. ~At("resume") => Written(t, d) = 1 .. d
  BY <1>3 DEF Written, StartRow
<1> QED BY <1>2, <1>3, <1>4, <1>5, <1>6, <1>7

(* What a step of a copy does to the table at the head of its plan.        *)
Wrote(t, d) ==
  /\ rows' = [rows EXCEPT ![t] = @ \cup Written(t, d)]
  /\ Written(t, d) = {} \/ t \in exists

(* The batch it records, by the row up to which everything is written.     *)
RecordedUpTo(t, d) ==
  \/ \E c \in StartRow(t) .. RowCount, status \in {"table_completed", "stopped"} :
       /\ Checkpoint(t, status, c)
       /\ status = "table_completed" => c = RowCount
       /\ durable => c <= d
  \/ UNCHANGED ckpt

LEMMA CopyWrites ==
  ASSUME FullAssumption, TypeInv, PlanInv, CopyStep
  PROVE  /\ Table \in Source /\ Table \in AllTables
         /\ \E d \in StartRow(Table) .. RowCount :
              /\ WritableUpTo(Table, d)
              /\ \/ Wrote(Table, d)
                 \/ /\ rows' = [rows EXCEPT ![Table] = Written(Table, d)] /\ SyncWhole
                    /\ Table \in exists /\ d = RowCount
              /\ RecordedUpTo(Table, d)
         /\ UNCHANGED <<exists, fks, indexed, audit, performed, dryRun, safety, schemaFks>>
<1>1. Copying("copy") /\ UNCHANGED <<exists, fks, indexed, audit, performed, dryRun, safety, schemaFks>>
  BY DEF CopyStep, CopyWhole, SyncWhole, CopyIsRefused, DeleteIsRefused, CopyFails, KeepDdl, env
<1>2. Table \in Source /\ Table \in AllTables
  BY <1>1, CopyingFits DEF AllTables
<1>3. RowCount \in Nat /\ StartRow(Table) \in 0 .. RowCount
      /\ RowCount \in StartRow(Table) .. RowCount
  <2>1. RowCount \in Nat /\ ckpt[Table].cursor \in 0 .. RowCount
    BY <1>2 DEF FullAssumption, TypeInv, FilesOK, Checkpoints
  <2> QED BY <2>1 DEF StartRow
<1>4. \A d \in StartRow(Table) .. RowCount :
        WritableUpTo(Table, d) => Written(Table, d) = {} \/ Table \in exists
  BY <1>2, WrittenRows
<1>5. ASSUME NEW status \in {"table_completed", "stopped"}, Checkpoint(Table, status, RowCount)
      PROVE  RecordedUpTo(Table, RowCount)
  <2>1. RowCount <= RowCount
    BY <1>3
  <2> QED BY <1>3, <1>5, <2>1 DEF RecordedUpTo
<1>6. CASE CopyWhole
  <2>1. /\ WritableUpTo(Table, RowCount)
        /\ rows' = [rows EXCEPT ![Table] = @ \cup Written(Table, RowCount)]
        /\ Checkpoint(Table, "table_completed", RowCount)
    BY <1>6 DEF CopyWhole
  <2>2. Wrote(Table, RowCount)
    BY <1>3, <1>4, <2>1 DEF Wrote
  <2>3. RecordedUpTo(Table, RowCount)
    BY <1>5, <2>1
  <2> QED BY <1>1, <1>2, <1>3, <2>1, <2>2, <2>3
<1>7. CASE SyncWhole
  <2>1. /\ WritableUpTo(Table, RowCount) /\ Table \in exists
        /\ rows' = [rows EXCEPT ![Table] = Written(Table, RowCount)]
        /\ Checkpoint(Table, "table_completed", RowCount)
    BY <1>7 DEF SyncWhole, DeleteForbidden
  <2>2. RecordedUpTo(Table, RowCount)
    BY <1>5, <2>1
  <2> QED BY <1>1, <1>2, <1>3, <1>7, <2>1, <2>2
<1>8. CASE DeleteIsRefused
  <2>1. /\ WritableUpTo(Table, RowCount)
        /\ rows' = [rows EXCEPT ![Table] = @ \cup Written(Table, RowCount)]
        /\ Checkpoint(Table, "stopped", RowCount) \/ UNCHANGED ckpt
    BY <1>8 DEF DeleteIsRefused
  <2>2. Wrote(Table, RowCount)
    BY <1>3, <1>4, <2>1 DEF Wrote
  <2>3. RecordedUpTo(Table, RowCount)
    BY <1>5, <2>1 DEF RecordedUpTo
  <2> QED BY <1>1, <1>2, <1>3, <2>1, <2>2, <2>3
<1>9. CASE CopyIsRefused \/ CopyFails
  <2>1. PICK w \in StartRow(Table) .. RowCount : WritableUpTo(Table, w) /\ StopsBehind(w)
    <3>1. StartRow(Table) .. RowCount - 1 \subseteq StartRow(Table) .. RowCount
      BY <1>3
    <3>2. CASE CopyIsRefused
      BY <3>1, <3>2 DEF CopyIsRefused
    <3>3. CASE CopyFails
      BY <3>3 DEF CopyFails
    <3> QED BY <1>9, <3>2, <3>3
  <2>2. PICK d \in StartRow(Table) .. w :
          /\ rows' = [rows EXCEPT ![Table] = @ \cup Written(Table, d)]
          /\ UNCHANGED ckpt \/ \E c \in Recordable(d, w) : Checkpoint(Table, "stopped", c)
    BY <2>1 DEF StopsBehind
  <2>3. d \in StartRow(Table) .. RowCount /\ WritableUpTo(Table, d)
    BY <1>3, <2>1, <2>2 DEF WritableUpTo
  <2>4. ASSUME NEW c \in Recordable(d, w)
        PROVE  c \in StartRow(Table) .. RowCount /\ (durable => c <= d)
    BY <1>3, <2>1, <2>2, <2>4 DEF Recordable
  <2>5. RecordedUpTo(Table, d)
    BY <2>2, <2>4 DEF RecordedUpTo
  <2>6. Wrote(Table, d)
    BY <1>4, <2>2, <2>3 DEF Wrote
  <2> QED BY <1>1, <1>2, <2>3, <2>5, <2>6
<1> QED BY <1>6, <1>7, <1>8, <1>9 DEF CopyStep

(* Nothing that can be added to the target is ever found.                  *)
LEMMA NothingToAdd ==
  ASSUME FullAssumption, TypeInv
  PROVE  /\ ApplyForeignKeys => fks' = fks
         /\ ApplyIndexes => indexed' = indexed
<1>1. job.tables \subseteq AllTables
  BY DEF TypeInv, JobOK, Jobs, AllTables
<1>2. Addable(ForeignKeyDdls) = {}
  BY DEF Addable, CanAdd, ForeignKeyDdls
<1>3. ASSUME ApplyForeignKeys PROVE fks' = fks
  <2>1. fks' = [t \in AllTables |->
                  fks[t] \cup {u \in AllTables : <<t, u>> \in Addable(ForeignKeyDdls)}]
    BY <1>3 DEF ApplyForeignKeys
  <2>2. fks' = [t \in AllTables |-> fks[t]]
    BY <1>2, <2>1
  <2>3. fks \in [AllTables -> SUBSET AllTables]
    BY DEF TypeInv, TargetOK
  <2> QED BY <2>2, <2>3
<1>4. Indexable = {}
  BY DEF Indexable, IndexDdls
<1>5. ASSUME ApplyIndexes PROVE indexed' = indexed
  BY <1>4, <1>5 DEF ApplyIndexes
<1> QED BY <1>3, <1>5

LEMMA TargetNext ==
  ASSUME FullAssumption, TypeInv, PlanInv, Next
  PROVE  TargetOK'
<1> USE DEF TargetOK
<1>0. TargetOK /\ RowCount \in Nat
  BY DEF TypeInv, FullAssumption
<1>1. ASSUME UNCHANGED target PROVE TargetOK'
  BY <1>0, <1>1 DEF target
<1>2. ASSUME NEW action \in {"drop_target_only", "truncate", "overwrite", "create", "recreate"},
             Doing(action), RemoveTable(Table) \/ EmptyTable(Table) \/ AddTable(Table)
      PROVE TargetOK'
  <2>1. Table \in AllTables
    BY <1>2, DoingFits DEF AllTables, DdlActions
  <2>2. CASE RemoveTable(Table)
    BY <1>0, <2>1, <2>2 DEF RemoveTable
  <2>3. CASE EmptyTable(Table)
    BY <1>0, <2>1, <2>3 DEF EmptyTable
  <2>4. CASE AddTable(Table)
    BY <1>0, <2>1, <2>4 DEF AddTable
  <2> QED BY <1>2, <2>2, <2>3, <2>4
<1>3. ASSUME DropTargetOnly \/ OverwriteDrop \/ Truncate \/ Create \/ Recreate \/ ReplyIsLost
      PROVE TargetOK'
  BY <1>2, <1>3 DEF DropTargetOnly, OverwriteDrop, Truncate, Create, Recreate, ReplyIsLost
<1>6. ASSUME CopyStep PROVE TargetOK'
  <2>1. /\ Table \in Source /\ Table \in AllTables
        /\ UNCHANGED <<exists, fks, indexed>>
    BY <1>6, CopyWrites
  <2>2. PICK d \in StartRow(Table) .. RowCount :
          \/ Wrote(Table, d)
          \/ rows' = [rows EXCEPT ![Table] = Written(Table, d)] /\ Table \in exists
    BY <1>6, CopyWrites
  <2>3. Written(Table, d) \subseteq 0 .. RowCount
    BY <2>1, WrittenRows
  <2>4. CASE rows' = [rows EXCEPT ![Table] = Written(Table, d)] /\ Table \in exists
    BY <1>0, <2>1, <2>3, <2>4
  <2>5. CASE Wrote(Table, d)
    BY <1>0, <2>1, <2>3, <2>5 DEF Wrote
  <2> QED BY <2>2, <2>4, <2>5
<1>7. ASSUME ApplyForeignKeys \/ ApplyIndexes PROVE TargetOK'
  BY <1>1, <1>7, NothingToAdd DEF ApplyForeignKeys, ApplyIndexes, target
<1>8. ASSUME \/ PlanDdl \/ AuditFailsToOpen \/ Skip \/ Blocked \/ SyncExisting \/ Refused
             \/ RecordDrop \/ RecordCreate \/ StatementFails \/ WriteSummary \/ CloseAudit
             \/ AuditStaysOpen \/ PlanCopy \/ EndCopy \/ ApplyPreIndexes \/ Operate \/ Crash
      PROVE  TargetOK'
  <2>1. UNCHANGED target
    BY <1>8 DEF PlanDdl, AuditFailsToOpen, Skip, Blocked, SyncExisting, Refused, RecordDrop,
                RecordCreate, StatementFails, WriteSummary, CloseAudit, AuditStaysOpen, PlanCopy,
                EndCopy, ApplyPreIndexes, Operate, Crash, RunDryRun, Start
  <2> QED BY <1>1, <2>1
<1> QED
  BY <1>3, <1>6, <1>7, <1>8 DEF Next, Ddl, Copy, Apply, CopyStep

(* The steps that are not part of a copy leave the checkpoints alone.      *)
LEMMA OnlyCopiesRecord ==
  ASSUME [Next]_vars, ~CopyStep
  PROVE  ckpt' = ckpt
<1>1. CASE Ddl
  BY <1>1
     DEF Ddl, PlanDdl, AuditFailsToOpen, Skip, Blocked, SyncExisting, Refused, DropTargetOnly,
         Truncate, OverwriteDrop, RecordDrop, Create, Recreate, RecordCreate, StatementFails,
         ReplyIsLost, WriteSummary, CloseAudit, AuditStaysOpen, KeepFiles, files
<1>2. CASE ~Ddl
  BY <1>2
     DEF Next, Operate, RunDryRun, Start, Copy, CopyStep, Apply, PlanCopy, EndCopy, ApplyPreIndexes,
         ApplyForeignKeys, ApplyIndexes, Crash, files, vars
<1> QED BY <1>1, <1>2

(* The faults are counted, and each command remembers how many there were. *)
LEMMA FaultsGrow ==
  ASSUME FullAssumption, TypeInv, [Next]_vars
  PROVE  faults' \in 0 .. MaxFaults /\ (faults' = faults \/ faults' = faults + 1)
<1>1. faults' = faults \/ Fault
  <2>1. CASE Ddl
    BY <2>1
       DEF Ddl, PlanDdl, AuditFailsToOpen, Skip, Blocked, SyncExisting, Refused, DropTargetOnly,
           Truncate, OverwriteDrop, RecordDrop, Create, Recreate, RecordCreate, StatementFails,
           ReplyIsLost, WriteSummary, CloseAudit, AuditStaysOpen, Raise, RaiseByFault, Recorded
  <2>2. CASE ~Ddl
    BY <2>2
       DEF Next, Operate, RunDryRun, Start, Copy, Apply, PlanCopy, CopyWhole, SyncWhole,
           CopyIsRefused, DeleteIsRefused, CopyFails, EndCopy, ApplyPreIndexes, ApplyForeignKeys,
           ApplyIndexes, Crash, vars
  <2> QED BY <2>1, <2>2
<1>2. faults \in 0 .. MaxFaults /\ MaxFaults \in Nat
  BY DEF TypeInv, FilesOK, FullAssumption
<1> QED BY <1>1, <1>2 DEF Fault

(* What a step does to the audit and to the statements that were done.     *)
LEMMA AuditSteps ==
  ASSUME FullAssumption, TypeInv, PlanInv, [Next]_vars
  PROVE  /\ \/ audit' = audit \/ audit' = NoAudit
            \/ audit' = [NoAudit EXCEPT !.status = "running"]
            \/ \E status \in {"failed", "completed"} : audit' = [audit EXCEPT !.status = status]
            \/ Doing("record_drop") /\ Recorded("drop")
            \/ Doing("record_create") /\ Recorded("create")
         /\ \/ performed' = performed \/ performed' = {}
            \/ Doing("overwrite") /\ Performed("drop")
            \/ Doing("recreate") /\ Performed("create")
<1>1. CASE PlanDdl
  <2>1. performed' = performed
    BY <1>1 DEF PlanDdl
  <2> QED BY <1>1, <2>1, PlanDdlWell DEF PlannedWell
<1>2. CASE Ddl /\ ~PlanDdl
  BY <1>2
     DEF Ddl, AuditFailsToOpen, Skip, Blocked, SyncExisting, Refused, DropTargetOnly,
         Truncate, OverwriteDrop, RecordDrop, Create, Recreate, RecordCreate, StatementFails,
         ReplyIsLost, WriteSummary, CloseAudit, AuditStaysOpen, Raise, RaiseByFault, CloseAsFailed,
         files
<1>3. CASE ~Ddl
  BY <1>3
     DEF Next, Operate, RunDryRun, Start, Copy, Apply, PlanCopy, CopyWhole, SyncWhole,
         CopyIsRefused, DeleteIsRefused, CopyFails, EndCopy, ApplyPreIndexes, ApplyForeignKeys,
         ApplyIndexes, Crash, KeepDdl, files, vars
<1> QED BY <1>1, <1>2, <1>3

LEMMA FilesNext ==
  ASSUME FullAssumption, TypeInv, PlanInv, Next
  PROVE  FilesOK'
<1>0. ckpt \in [Source -> Checkpoints] /\ audit \in Audits /\ performed \subseteq Statements
  BY DEF TypeInv, FilesOK
<1>1. faults' \in 0 .. MaxFaults
  BY FaultsGrow
<1>2. ASSUME NEW action \in {"overwrite", "recreate", "record_drop", "record_create"}, Doing(action)
      PROVE  Table \in AllTables
  BY <1>2, DoingFits DEF DdlActions, AllTables
<1>3. performed' \subseteq Statements
  BY <1>0, <1>2, AuditSteps DEF Statements, Performed
<1>4. audit' \in Audits
  BY <1>0, <1>2, AuditSteps DEF Statements, Recorded, NoAudit, Audits
<1>5. ckpt' \in [Source -> Checkpoints]
  <2>1. CASE CopyStep
    <3>1. Table \in Source
      BY <2>1, CopyWrites
    <3>2. StartRow(Table) \in 0 .. RowCount /\ RowCount \in Nat
      BY <1>0, <3>1 DEF Checkpoints, StartRow, FullAssumption
    <3>3. \/ UNCHANGED ckpt
          \/ \E c \in StartRow(Table) .. RowCount, status \in {"table_completed", "stopped"} :
               Checkpoint(Table, status, c)
      BY <2>1, CopyWrites DEF RecordedUpTo
    <3>4. StartRow(Table) .. RowCount \subseteq 0 .. RowCount
      BY <3>2
    <3> QED BY <1>0, <3>1, <3>3, <3>4 DEF Checkpoint, Checkpoints
  <2>2. CASE ~CopyStep
    BY <1>0, <2>2, OnlyCopiesRecord
  <2> QED BY <2>1, <2>2
<1> QED BY <1>1, <1>3, <1>4, <1>5 DEF FilesOK

LEMMA TypeIsOK ==
  ASSUME TypeInv
  PROVE  TypeOK
<1>1. job.todo \in Seq(JobItems)
  BY DEF TypeInv, JobOK, Jobs
<1>2. Actions(job.todo) \subseteq Steps
  <2>1. \A i \in 1 .. Len(job.todo) : job.todo[i] \in JobItems
    BY <1>1, ElementOfSeq
  <2> QED BY <2>1 DEF Actions, JobItems
<1> QED BY <1>2 DEF TypeInv, TargetOK, FilesOK, TypeOK, Checkpoints, Audits

LEMMA InitTypes ==
  ASSUME FullAssumption, Init
  PROVE  TypeInv /\ PlanInv
<1>1. RowCount \in Nat /\ 0 \in 0 .. RowCount /\ MaxFaults \in Nat
  BY DEF FullAssumption
<1>2. TargetOK
  <2>1. /\ schemaFks \in [AllTables -> SUBSET AllTables] /\ exists \in SUBSET AllTables
        /\ rows = [t \in AllTables |-> IF t \in exists THEN {0} ELSE {}]
    BY DEF Init, FullAssumption
  <2>2. PICK declared \in {{}, exists} :
          /\ fks = [t \in AllTables |-> IF t \in declared THEN schemaFks[t] \cap exists ELSE {}]
          /\ indexed = declared
    BY DEF Init
  <2> QED BY <1>1, <2>1, <2>2 DEF TargetOK
<1>3. FilesOK
  BY <1>1 DEF Init, FilesOK, NoCheckpoint, NoAudit, Checkpoints, Audits
<1>4. << >> \in Seq(JobItems) /\ PlanFits(<< >>, NoJob, Protected)
  BY EmptyFits
<1>5. NoJob \in Jobs /\ job = NoJob
  BY <1>4 DEF NoJob, Jobs, Names, Stages, PolicyNames, Init
<1>6. JobOK
  BY <1>5 DEF JobOK, NoJob
<1>7. PlanInv
  BY <1>4, <1>5 DEF PlanInv, NoJob
<1> QED BY <1>2, <1>3, <1>6, <1>7 DEF TypeInv

BasicInv == TypeInv /\ PlanInv

LEMMA BasicNext ==
  ASSUME FullAssumption, BasicInv, [Next]_vars
  PROVE  BasicInv'
<1>1. CASE Next
  BY <1>1, JobNext, FilesNext, TargetNext DEF BasicInv, TypeInv
<1>2. CASE UNCHANGED vars
  BY <1>2 DEF vars, env, target, files, BasicInv, TypeInv, TargetOK, FilesOK, JobOK, PlanInv,
              PlanFits, ItemFits, DdlItemFits, Protected
<1> QED BY <1>1, <1>2

(* The variables keep their types, and every plan its form.                *)
THEOREM TypesAreKept == Spec => []TypeOK
<1>1. Init => BasicInv
  BY FullAssumption, InitTypes DEF BasicInv
<1>2. BasicInv /\ [Next]_vars => BasicInv'
  BY FullAssumption, BasicNext
<1>3. BasicInv => TypeOK
  BY TypeIsOK DEF BasicInv
<1> QED BY <1>1, <1>2, <1>3, PTL DEF Spec

-----------------------------------------------------------------------------
(* What the steps never do.                                                *)

(* Outside the copies, rows are taken away with the foreign keys or all at *)
(* once, by the steps of apply-ddl that are meant to.                      *)
LEMMA OtherSteps ==
  ASSUME FullAssumption, BasicInv, [Next]_vars, ~CopyStep
  PROVE  /\ ckpt' = ckpt
         /\ \/ rows' = rows /\ fks' = fks
               /\ (exists' = exists \/ exists' = exists \cup {Table})
            \/ \E action \in {"drop_target_only", "truncate", "overwrite"} :
                 /\ Doing(action) /\ Table \in AllTables /\ job.stage = "apply-ddl"
                 /\ action = "drop_target_only" => Table \notin Source
                 /\ rows' = [rows EXCEPT ![Table] = {}]
                 /\ fks' = fks \/ fks' = [fks EXCEPT ![Table] = {}]
<1>0. TypeInv /\ PlanInv
  BY DEF BasicInv
<1>1. ckpt' = ckpt
  BY OnlyCopiesRecord
<1>2. ASSUME NEW action \in {"drop_target_only", "truncate", "overwrite"}, Doing(action)
      PROVE  /\ Table \in AllTables /\ job.stage = "apply-ddl"
             /\ action = "drop_target_only" => Table \notin Source
  BY <1>0, <1>2, DoingFits DEF AllTables, DdlActions
<1>3. CASE DropTargetOnly \/ OverwriteDrop \/ Truncate \/ Create \/ Recreate \/ ReplyIsLost
  <2>1. \/ AddTable(Table)
        \/ \E action \in {"drop_target_only", "truncate", "overwrite"} :
             Doing(action) /\ (RemoveTable(Table) \/ EmptyTable(Table))
    BY <1>3 DEF DropTargetOnly, OverwriteDrop, Truncate, Create, Recreate, ReplyIsLost
  <2> QED BY <1>1, <1>2, <2>1 DEF AddTable, RemoveTable, EmptyTable
<1>4. CASE ApplyForeignKeys
  <2>1. fks' = fks /\ rows' = rows /\ exists' = exists
    BY <1>0, <1>4, NothingToAdd DEF ApplyForeignKeys
  <2> QED BY <1>1, <2>1
<1>5. CASE \/ PlanDdl \/ AuditFailsToOpen \/ Skip \/ Blocked \/ SyncExisting \/ Refused
           \/ RecordDrop \/ RecordCreate \/ StatementFails \/ WriteSummary \/ CloseAudit
           \/ AuditStaysOpen \/ PlanCopy \/ EndCopy \/ ApplyPreIndexes \/ ApplyIndexes
           \/ Operate \/ Crash \/ UNCHANGED vars
  <2>1. rows' = rows /\ fks' = fks /\ exists' = exists
    BY <1>5 DEF PlanDdl, AuditFailsToOpen, Skip, Blocked, SyncExisting, Refused, RecordDrop,
                RecordCreate, StatementFails, WriteSummary, CloseAudit, AuditStaysOpen, PlanCopy,
                EndCopy, ApplyPreIndexes, ApplyIndexes, Operate, Crash, RunDryRun, Start, target,
                vars
  <2> QED BY <1>1, <2>1
<1> QED BY <1>3, <1>4, <1>5 DEF Next, Ddl, Copy, CopyStep, Apply

(* A protected production target keeps its tables and rows whatever plan   *)
(* apply-ddl makes of it: the guard is asked about every statement that    *)
(* takes something away, so a plan that is carried out has none.           *)
THEOREM ProtectionHolds == Spec => ProtectedTargetIsKept
<1> DEFINE Keeps == exists \subseteq exists' /\ \A t \in AllTables : rows[t] \subseteq rows'[t]
<1>1. ASSUME FullAssumption, BasicInv, Next, Protected, At("apply-ddl") PROVE Keeps
  <2>1. ~Doing("drop_target_only") /\ ~Doing("overwrite") /\ ~Doing("truncate")
    BY <1>1, DoingFits DEF Destructive, BasicInv
  <2>2. ~CopyStep
    BY <1>1 DEF CopyStep, CopyWhole, SyncWhole, CopyIsRefused, DeleteIsRefused, CopyFails,
                Copying, At
  <2>3. rows' = rows /\ (exists' = exists \/ exists' = exists \cup {Table})
    BY <1>1, <2>1, <2>2, OtherSteps
  <2> QED BY <2>3
<1>2. BasicInv /\ [Next]_vars => [Protected /\ At("apply-ddl") => Keeps]_vars
  BY <1>1, FullAssumption
<1>3. Init => BasicInv
  BY FullAssumption, InitTypes DEF BasicInv
<1>4. BasicInv /\ [Next]_vars => BasicInv'
  BY FullAssumption, BasicNext
<1> QED BY <1>2, <1>3, <1>4, PTL DEF Spec, ProtectedTargetIsKept

(* With durable batches a copy has written every row between the           *)
(* checkpoint it starts from and the one it leaves, so what was covered    *)
(* stays so.                                                               *)
LEMMA CopyCovers ==
  ASSUME FullAssumption, BasicInv, CopyStep, durable,
         NEW t \in Source, Covered(t), ~(At("resume") /\ job.policy = "sync")
  PROVE  Covered(t)'
<1>1. Table \in Source
  BY CopyWrites DEF BasicInv
<1>2. PICK d \in StartRow(Table) .. RowCount :
        /\ \/ Wrote(Table, d)
           \/ /\ rows' = [rows EXCEPT ![Table] = Written(Table, d)] /\ SyncWhole
              /\ d = RowCount
        /\ \/ \E c \in StartRow(Table) .. RowCount, status \in {"table_completed", "stopped"} :
                 Checkpoint(Table, status, c) /\ c <= d
           \/ UNCHANGED ckpt
  BY CopyWrites DEF BasicInv, RecordedUpTo
<1>3. /\ StartRow(Table) \in 0 .. RowCount /\ d \in 0 .. RowCount
      /\ ~At("resume") => Written(Table, d) = 1 .. d
  BY <1>1, WrittenRows DEF BasicInv
<1>4. /\ rows \in [AllTables -> SUBSET (0 .. RowCount)] /\ Table \in AllTables
      /\ ckpt \in [Source -> Checkpoints]
      /\ RowCount \in Nat /\ t \in AllTables
  BY <1>1 DEF BasicInv, TypeInv, TargetOK, FilesOK, FullAssumption, AllTables
<1>5. CASE t # Table
  <2>1. rows'[t] = rows[t] /\ ckpt'[t] = ckpt[t]
    BY <1>1, <1>2, <1>4, <1>5 DEF Wrote, Checkpoint
  <2> QED BY <2>1 DEF Covered
<1>6. CASE t = Table
  <2>1. CASE Wrote(Table, d)
    <3>1. rows'[t] = rows[t] \cup Written(t, d)
      BY <1>4, <1>6, <2>1 DEF Wrote
    <3>2. ckpt'[t].cursor = ckpt[t].cursor \/ (ckpt'[t].cursor <= d /\ ckpt'[t].cursor \in 0 .. RowCount)
      BY <1>2, <1>3, <1>4, <1>6 DEF Checkpoint
    <3>3. CASE ckpt'[t].cursor = ckpt[t].cursor
      BY <3>1, <3>3 DEF Covered
    <3>4. CASE ckpt'[t].cursor <= d /\ ckpt'[t].cursor \in 0 .. RowCount
      <4>1. ASSUME NEW r \in 1 .. ckpt'[t].cursor PROVE r \in rows'[t]
        <5>0. r \in 1 .. d
          BY <1>3, <3>4
        <5>1. CASE r \in Written(t, d)
          BY <3>1, <5>1
        <5>2. CASE r \notin Written(t, d)
          <6>1. At("resume") /\ StartRow(t) = ckpt[t].cursor
            BY <1>3, <1>6, <5>0, <5>2 DEF StartRow
          <6>2. r \in 1 .. ckpt[t].cursor
            BY <1>3, <1>4, <1>6, <5>0, <5>2, <6>1 DEF Written
          <6> QED BY <3>1, <6>2 DEF Covered
        <5> QED BY <5>1, <5>2
      <4> QED BY <4>1 DEF Covered
    <3> QED BY <3>2, <3>3, <3>4
  <2>2. CASE rows' = [rows EXCEPT ![Table] = Written(Table, d)] /\ SyncWhole /\ d = RowCount
    <3>1. job.policy = "sync" /\ ~At("resume")
      BY <2>2 DEF SyncWhole
    <3>2. rows'[t] = 1 .. RowCount
      BY <1>3, <1>4, <1>6, <2>2, <3>1
    <3>3. ckpt'[t].cursor \in 0 .. RowCount
      BY <1>2, <1>3, <1>4, <1>6 DEF Checkpoint, Checkpoints
    <3>4. 1 .. ckpt'[t].cursor \subseteq 1 .. RowCount
      BY <1>4, <3>3
    <3> QED BY <3>2, <3>4 DEF Covered
  <2> QED BY <1>2, <2>1, <2>2
<1> QED BY <1>5, <1>6

(* With durable batches, rows behind a checkpoint are taken away by        *)
(* apply-ddl with a reloading policy and by a resumed sync, and by no      *)
(* other step, failure or crash: OnlyReloadsUncover for every number of    *)
(* tables, rows, commands and faults.                                      *)
THEOREM ResumeStartsBehindItsRows == Spec => OnlyReloadsUncover
<1> DEFINE Reloads == \/ At("apply-ddl") /\ job.policy \in {"truncate_reload", "overwrite"}
                      \/ At("resume") /\ job.policy = "sync"
           Uncovers == durable => \A t \in Source : Covered(t) /\ ~Covered(t)' => Reloads
<1>1. ASSUME FullAssumption, BasicInv, Next PROVE Uncovers
  <2> SUFFICES ASSUME durable, NEW t \in Source, Covered(t), ~Reloads PROVE Covered(t)'
    OBVIOUS
  <2>1. TypeInv /\ PlanInv
    BY <1>1 DEF BasicInv
  <2>2. CASE CopyStep
    BY <1>1, <2>2, CopyCovers
  <2>3. CASE ~CopyStep
    <3>1. ~Doing("truncate") /\ ~Doing("overwrite")
      BY <1>1, <2>1, DoingFits DEF At
    <3>2. /\ ckpt' = ckpt
          /\ \/ rows' = rows
             \/ Table \in AllTables \ Source /\ rows' = [rows EXCEPT ![Table] = {}]
      BY <1>1, <2>3, <3>1, OtherSteps
    <3>3. rows \in [AllTables -> SUBSET (0 .. RowCount)] /\ t \in AllTables
      BY <2>1 DEF TypeInv, TargetOK, AllTables
    <3>4. rows'[t] = rows[t]
      BY <3>2, <3>3
    <3> QED BY <3>2, <3>4 DEF Covered
  <2> QED BY <2>2, <2>3
<1>2. BasicInv /\ [Next]_vars => [Uncovers]_vars
  BY <1>1, FullAssumption
<1>3. Init => BasicInv
  BY FullAssumption, InitTypes DEF BasicInv
<1>4. BasicInv /\ [Next]_vars => BasicInv'
  BY FullAssumption, BasicNext
<1> QED BY <1>2, <1>3, <1>4, PTL DEF Spec, OnlyReloadsUncover

-----------------------------------------------------------------------------
(* The audit of an overwrite.                                              *)

Unrecorded == performed \ audit.recorded

AuditSound ==
  /\ audit.recorded \subseteq performed
  /\ \A s, u \in Unrecorded : s = u
  /\ \A s \in Unrecorded : s[2] = "drop" => <<s[1], "create">> \notin performed
  /\ audit.status = "completed" =>
       audit.recorded = performed /\ \A s \in performed : <<s[1], "create">> \in performed

(* No table is overwritten twice.                                          *)
Halves == {"overwrite", "record_drop", "recreate", "record_create"}

Once(todo, done) ==
  /\ \A i, j \in 1 .. Len(todo) :
       todo[i].action \in Halves /\ todo[j].action \in Halves /\ todo[i].table = todo[j].table
       => i = j
  /\ \A i \in 1 .. Len(todo) :
       todo[i].action \in {"overwrite", "record_drop"} => <<todo[i].table, "create">> \notin done

(* While apply-ddl runs, the statement that is not recorded yet is the one *)
(* the head of the plan is about to record, and a dropped table has been   *)
(* created again unless the head is what is left of its overwrite.         *)
AuditUnderWay ==
  LET action == Head(job.todo).action
  IN  /\ audit.status = IF job.audited THEN "running" ELSE "none"
      /\ Unrecorded \subseteq
           CASE action = "record_drop"   -> {<<Table, "drop">>}
             [] action = "record_create" -> {<<Table, "create">>}
             [] OTHER                    -> {}
      /\ action = "record_drop" => <<Table, "drop">> \in performed
      /\ action = "record_create" => <<Table, "create">> \in performed
      /\ \A t \in AllTables : <<t, "drop">> \in performed =>
           \/ <<t, "create">> \in audit.recorded
           \/ t = Table /\ action \in {"record_drop", "recreate", "record_create"}
      /\ Once(job.todo, performed)

AuditInv ==
  /\ AuditSound
  /\ At("apply-ddl") =>
       IF job.todo = << >> THEN ~job.audited /\ audit = NoAudit /\ performed = {}
       ELSE AuditUnderWay

(* The item that comes next is whole.                                      *)
LEMMA WentOnHead ==
  ASSUME TypeInv, PlanInv, job.todo # << >>, WentOn
  PROVE  Head(job'.todo).action \notin HalfDone
<1>1. job.todo \in Seq(JobItems) /\ job'.todo = Tail(job.todo) /\ Tail(job.todo) # << >>
  BY DEF TypeInv, JobOK, Jobs, WentOn
<1>2. /\ Tail(job.todo) \in Seq(JobItems)
      /\ \A i \in 1 .. Len(Tail(job.todo)) :
           i + 1 \in 1 .. Len(job.todo) /\ Tail(job.todo)[i] = job.todo[i + 1]
  BY <1>1, TailOf
<1>3. Head(Tail(job.todo)) = Tail(job.todo)[1] /\ 1 \in 1 .. Len(Tail(job.todo))
  BY <1>1, <1>2, TailOf
<1>4. 1 + 1 \in 1 .. Len(job.todo) /\ Head(job'.todo) = job.todo[1 + 1]
  BY <1>1, <1>2, <1>3
<1>5. 1 + 1 # 1
  OBVIOUS
<1> QED BY <1>4, <1>5 DEF PlanInv, PlanFits

LEMMA OnceGoesOn ==
  ASSUME TypeInv, job.todo # << >>, WentOn, NEW done, Once(job.todo, done)
  PROVE  Once(job'.todo, done)
<1>1. job.todo \in Seq(JobItems) /\ job'.todo = Tail(job.todo)
  BY DEF TypeInv, JobOK, Jobs, WentOn
<1> DEFINE rest == Tail(job.todo)
<1>2. /\ rest \in Seq(JobItems)
      /\ \A i \in 1 .. Len(rest) : i + 1 \in 1 .. Len(job.todo) /\ rest[i] = job.todo[i + 1]
  BY <1>1, TailOf
<1> HIDE DEF rest
<1>3. ASSUME NEW i \in 1 .. Len(rest), NEW j \in 1 .. Len(rest),
             rest[i].action \in Halves, rest[j].action \in Halves, rest[i].table = rest[j].table
      PROVE  i = j
  <2>1. i + 1 = j + 1
    BY <1>2, <1>3 DEF Once
  <2>2. Len(rest) \in Nat
    BY <1>2, LenProperties
  <2> QED BY <2>1, <2>2
<1>4. Once(rest, done)
  BY <1>2, <1>3 DEF Once
<1> QED BY <1>1, <1>4 DEF rest

LEMMA OnceTurns ==
  ASSUME TypeInv, job.todo # << >>, NEW action, Turned(action), NEW done, Once(job.todo, done),
         \/ Head(job.todo).action \in Halves /\ action \in Halves
         \/ action \notin Halves,
         action # "overwrite", action = "record_drop" => Head(job.todo).action = "overwrite",
         NEW more, more \subseteq done \cup {<<Table, "create">>},
         more \subseteq done \/ (Head(job.todo).action = "recreate" /\ action = "record_create")
  PROVE  Once(job'.todo, more)
<1> DEFINE todo == <<Item(Table, action)>> \o Tail(job.todo)
<1>1. job.todo \in Seq(JobItems) /\ job'.todo = todo /\ todo \in Seq(JobItems)
      /\ todo # << >> /\ Head(todo) = Item(Table, action)
  BY DEF TypeInv, JobOK, Jobs, Turned, SameJob
<1>2. Item(Table, action) \in JobItems
  <2> HIDE DEF todo
  <2> QED BY <1>1, TailOf
<1>3. /\ Len(todo) = Len(job.todo) /\ Head(job.todo) = job.todo[1] /\ todo[1] = Item(Table, action)
      /\ 1 \in 1 .. Len(todo)
      /\ \A i \in 1 .. Len(job.todo) : i # 1 => todo[i] = job.todo[i]
  BY <1>1, <1>2, BecomesOf, TailOf
<1> HIDE DEF todo
<1>4. todo[1].table = job.todo[1].table /\ todo[1].action = action /\ Table = job.todo[1].table
  BY <1>3 DEF Item, Table
<1>5. ASSUME NEW i \in 1 .. Len(todo), NEW j \in 1 .. Len(todo),
             todo[i].action \in Halves, todo[j].action \in Halves, todo[i].table = todo[j].table
      PROVE  i = j
  <2>1. ASSUME NEW k \in 1 .. Len(todo), todo[k].action \in Halves
        PROVE  job.todo[k].action \in Halves /\ job.todo[k].table = todo[k].table
    BY <1>3, <1>4, <2>1
  <2> QED BY <1>3, <1>5, <2>1 DEF Once
<1>6. ASSUME NEW i \in 1 .. Len(todo), todo[i].action \in {"overwrite", "record_drop"}
      PROVE  <<todo[i].table, "create">> \notin more
  <2>1. CASE i = 1
    <3>1. job.todo[1].action = "overwrite" /\ more \subseteq done
      BY <1>3, <1>4, <1>6, <2>1
    <3> QED BY <1>3, <1>4, <2>1, <3>1 DEF Once
  <2>2. CASE i # 1
    <3>1. <<todo[i].table, "create">> \notin done
      BY <1>3, <1>6, <2>2 DEF Once
    <3>2. CASE more \subseteq done
      BY <3>1, <3>2
    <3>3. CASE Head(job.todo).action = "recreate"
      <4>1. todo[i].table # Table
        BY <1>3, <1>4, <1>6, <2>2, <3>3 DEF Once, Halves
      <4> QED BY <3>1, <4>1
    <3> QED BY <3>2, <3>3
  <2> QED BY <2>1, <2>2
<1>7. Once(todo, more)
  BY <1>5, <1>6 DEF Once
<1> QED BY <1>1, <1>7

LEMMA AuditLeftAlone ==
  ASSUME AuditInv, UNCHANGED <<audit, performed>>
  PROVE  AuditSound'
  BY DEF AuditInv, AuditSound, Unrecorded

(* A command that stops, with the audit closed as failed or left open.     *)
LEMMA AuditStops ==
  ASSUME BasicInv, AuditInv, performed' = performed, job'.stage # "apply-ddl",
         audit' = audit \/ audit' = [audit EXCEPT !.status = "failed"]
  PROVE  AuditInv'
<1>1. audit'.recorded = audit.recorded /\ (audit'.status = "completed" => audit.status = "completed")
  BY DEF BasicInv, TypeInv, FilesOK, Audits
<1>2. AuditSound'
  BY <1>1 DEF AuditInv, AuditSound, Unrecorded
<1> QED BY <1>2 DEF AuditInv, At

(* A step that goes on from an item with nothing left to record.           *)
LEMMA AuditGoesOn ==
  ASSUME FullAssumption, BasicInv, AuditInv, UNCHANGED <<audit, performed>>, WentOn,
         NEW action, Doing(action), action \notin HalfDone
  PROVE  AuditInv'
<1>1. AuditSound'
  BY AuditLeftAlone
<1>2. /\ job.stage = "apply-ddl" /\ job.todo # << >> /\ Head(job.todo).action = action
      /\ job'.stage = job.stage /\ job'.audited = job.audited /\ job'.todo # << >>
  BY DoingFits DEF BasicInv, WentOn, SameJob
<1>3. Head(job'.todo).action \notin HalfDone
  BY <1>2, WentOnHead DEF BasicInv
<1>4. AuditUnderWay
  BY <1>2 DEF AuditInv, At
<1>5. /\ performed \subseteq audit.recorded
      /\ audit.status = IF job.audited THEN "running" ELSE "none"
      /\ \A t \in AllTables : <<t, "drop">> \in performed => <<t, "create">> \in audit.recorded
  BY <1>2, <1>4 DEF AuditUnderWay, HalfDone, Unrecorded
<1>6. Once(job'.todo, performed')
  BY <1>2, <1>4, OnceGoesOn DEF BasicInv, AuditUnderWay
<1>7. AuditUnderWay'
  BY <1>2, <1>3, <1>5, <1>6 DEF AuditUnderWay, HalfDone, Unrecorded
<1> QED BY <1>1, <1>2, <1>7 DEF AuditInv

(* What holds at the head of the plan, and when an overwrite goes on.      *)
LEMMA AuditHead ==
  ASSUME FullAssumption, BasicInv, AuditInv, NEW action, Doing(action)
  PROVE  /\ job.stage = "apply-ddl" /\ job.todo # << >> /\ Head(job.todo).action = action
         /\ AuditUnderWay /\ AuditSound
         /\ action \in {"overwrite", "record_drop"} => <<Table, "create">> \notin performed
         /\ action \notin {"record_drop", "record_create"} => performed = audit.recorded
<1>1. job.stage = "apply-ddl" /\ job.todo # << >> /\ Head(job.todo).action = action
      /\ job.todo \in Seq(JobItems)
  BY DoingFits DEF BasicInv
<1>2. AuditUnderWay /\ AuditSound
  BY <1>1 DEF AuditInv, At
<1>3. Head(job.todo) = job.todo[1] /\ 1 \in 1 .. Len(job.todo)
  BY <1>1, TailOf
<1>4. ASSUME action \notin {"record_drop", "record_create"} PROVE performed = audit.recorded
  <2>1. Unrecorded \subseteq {}
    BY <1>1, <1>2, <1>4, Zenon DEF AuditUnderWay
  <2>2. audit.recorded \subseteq performed
    BY <1>2 DEF AuditSound
  <2> QED BY <2>1, <2>2 DEF Unrecorded
<1>5. action \in {"overwrite", "record_drop"} => <<Table, "create">> \notin performed
  BY <1>1, <1>2, <1>3 DEF AuditUnderWay, Once, Table
<1> QED BY <1>1, <1>2, <1>4, <1>5

LEMMA OverwriteGoesOn ==
  ASSUME FullAssumption, BasicInv, UNCHANGED <<safety, dryRun>>,
         NEW action \in {"record_drop", "recreate", "record_create"}, Becomes(action),
         NEW before \in {"overwrite", "record_drop", "recreate"}, Doing(before)
  PROVE  /\ Turned(action) /\ job'.stage = "apply-ddl" /\ job'.audited = job.audited
         /\ job'.todo # << >> /\ Head(job'.todo).action = action /\ Table' = Table
<1>1. /\ job.stage = "apply-ddl" /\ job.todo # << >> /\ Head(job.todo).action \notin Ends
      /\ Table \in job.tables /\ job.policy = "overwrite" /\ job.audited
  BY DoingFits DEF BasicInv, Ends, DdlActions
<1>2. /\ action \in Steps \ Destructive /\ action \notin Ends
      /\ DdlItemFits(Item(Table, action), job)
  BY <1>1 DEF Steps, Destructive, Ends, DdlItemFits, Item
<1>3. Turned(action)
  BY <1>1, <1>2, BecomesWell DEF BasicInv
<1> QED BY <1>1, <1>3 DEF Turned, SameJob, Item, Table

(* The two halves of an overwrite and their records.                       *)
LEMMA AuditOverwrites ==
  ASSUME FullAssumption, BasicInv, AuditInv,
         OverwriteDrop \/ RecordDrop \/ Recreate \/ RecordCreate
  PROVE  AuditInv'
<1>0. performed \subseteq Statements /\ UNCHANGED <<safety, dryRun>> /\ audit \in Audits
  BY DEF BasicInv, TypeInv, FilesOK, OverwriteDrop, RecordDrop, Recreate, RecordCreate,
         KeepFiles, env
<1>1. CASE OverwriteDrop
  <2>1. /\ Doing("overwrite") /\ Becomes("record_drop") /\ audit' = audit
        /\ performed' = performed \cup {<<Table, "drop">>}
    BY <1>1 DEF OverwriteDrop, Performed
  <2>2. /\ Turned("record_drop") /\ job'.stage = "apply-ddl" /\ job'.audited = job.audited
        /\ job'.todo # << >> /\ Head(job'.todo).action = "record_drop" /\ Table' = Table
    BY <1>0, <2>1, OverwriteGoesOn
  <2>3. /\ job.todo # << >> /\ Head(job.todo).action = "overwrite" /\ Once(job.todo, performed)
        /\ performed = audit.recorded /\ <<Table, "create">> \notin performed
        /\ audit.status = IF job.audited THEN "running" ELSE "none"
        /\ \A t \in AllTables : <<t, "drop">> \in performed => <<t, "create">> \in audit.recorded
    BY <2>1, AuditHead DEF AuditUnderWay
  <2>4. Once(job.todo, performed')
    BY <2>1, <2>3 DEF Once
  <2>5. Once(job'.todo, performed')
    BY <2>2, <2>3, <2>4, OnceTurns DEF BasicInv, Halves
  <2>6. AuditUnderWay'
    BY <2>1, <2>2, <2>3, <2>5 DEF AuditUnderWay, Unrecorded
  <2>7. AuditSound'
    BY <2>1, <2>3 DEF AuditSound, Unrecorded
  <2> QED BY <2>2, <2>6, <2>7 DEF AuditInv
<1>2. CASE RecordDrop /\ ~RaiseByFault
  <2>1. /\ Doing("record_drop") /\ performed' = performed /\ Becomes("recreate")
        /\ audit' = [audit EXCEPT !.recorded = @ \cup {<<Table, "drop">>}]
    BY <1>2 DEF RecordDrop, Recorded
  <2>2. /\ Turned("recreate") /\ job'.stage = "apply-ddl" /\ job'.audited = job.audited
        /\ job'.todo # << >> /\ Head(job'.todo).action = "recreate" /\ Table' = Table
    BY <1>0, <2>1, OverwriteGoesOn
  <2>3. audit'.status = audit.status /\ audit'.recorded = audit.recorded \cup {<<Table, "drop">>}
    BY <1>0, <2>1 DEF Audits
  <2>4. /\ job.todo # << >> /\ Head(job.todo).action = "record_drop" /\ Once(job.todo, performed)
        /\ performed = audit'.recorded
        /\ audit.status = IF job.audited THEN "running" ELSE "none"
        /\ \A t \in AllTables : <<t, "drop">> \in performed => <<t, "create">> \in audit.recorded \/ t = Table
    BY <2>1, <2>3, AuditHead DEF AuditUnderWay, AuditSound, Unrecorded
  <2>5. Once(job'.todo, performed')
    BY <2>1, <2>2, <2>4, OnceTurns DEF BasicInv, Halves
  <2>6. AuditUnderWay'
    BY <2>1, <2>2, <2>3, <2>4, <2>5 DEF AuditUnderWay, Unrecorded
  <2>7. AuditSound'
    BY <2>1, <2>3, <2>4 DEF AuditSound, Unrecorded
  <2> QED BY <2>2, <2>6, <2>7 DEF AuditInv
<1>3. CASE Recreate
  <2>1. /\ Doing("recreate") /\ Becomes("record_create") /\ audit' = audit
        /\ performed' = performed \cup {<<Table, "create">>}
    BY <1>3 DEF Recreate, Performed
  <2>2. /\ Turned("record_create") /\ job'.stage = "apply-ddl" /\ job'.audited = job.audited
        /\ job'.todo # << >> /\ Head(job'.todo).action = "record_create" /\ Table' = Table
    BY <1>0, <2>1, OverwriteGoesOn
  <2>3. /\ job.todo # << >> /\ Head(job.todo).action = "recreate" /\ Once(job.todo, performed)
        /\ performed = audit.recorded
        /\ audit.status = IF job.audited THEN "running" ELSE "none"
        /\ \A t \in AllTables : <<t, "drop">> \in performed => <<t, "create">> \in audit.recorded \/ t = Table
    BY <2>1, AuditHead DEF AuditUnderWay
  <2>4. Once(job'.todo, performed')
    BY <2>1, <2>2, <2>3, OnceTurns DEF BasicInv, Halves
  <2>5. AuditUnderWay'
    BY <2>1, <2>2, <2>3, <2>4 DEF AuditUnderWay, Unrecorded
  <2>6. AuditSound'
    <3>1. \A s \in Unrecorded' : s = <<Table, "create">>
      BY <2>1, <2>3 DEF Unrecorded
    <3>2. "create" # "drop"
      OBVIOUS
    <3> QED BY <2>1, <2>3, <3>1, <3>2 DEF AuditSound
  <2> QED BY <2>2, <2>5, <2>6 DEF AuditInv
<1>4. CASE RecordCreate /\ ~RaiseByFault
  <2>1. /\ Doing("record_create") /\ performed' = performed /\ Advance(FALSE)
        /\ audit' = [audit EXCEPT !.recorded = @ \cup {<<Table, "create">>}]
    BY <1>4 DEF RecordCreate, Recorded
  <2>2. job.stage = "apply-ddl" /\ job.todo # << >> /\ Head(job.todo).action \notin Ends
    BY <2>1, DoingFits DEF BasicInv, Ends
  <2>3. WentOn
    BY <1>0, <2>1, <2>2, AdvanceWell DEF BasicInv
  <2>4. Head(job'.todo).action \notin HalfDone /\ job'.todo # << >>
        /\ job'.stage = "apply-ddl" /\ job'.audited = job.audited
    BY <2>2, <2>3, WentOnHead DEF BasicInv, WentOn, SameJob
  <2>5. audit'.status = audit.status /\ audit'.recorded = audit.recorded \cup {<<Table, "create">>}
    BY <1>0, <2>1 DEF Audits
  <2>6. /\ performed = audit'.recorded /\ Once(job.todo, performed)
        /\ audit.status = IF job.audited THEN "running" ELSE "none"
        /\ \A t \in AllTables : <<t, "drop">> \in performed => <<t, "create">> \in audit'.recorded
    BY <2>1, <2>5, AuditHead DEF AuditUnderWay, AuditSound, Unrecorded
  <2>7. Once(job'.todo, performed')
    BY <2>1, <2>2, <2>3, <2>6, OnceGoesOn DEF BasicInv
  <2>8. AuditUnderWay'
    BY <2>1, <2>4, <2>5, <2>6, <2>7 DEF AuditUnderWay, HalfDone, Unrecorded
  <2>9. AuditSound'
    BY <2>1, <2>5, <2>6 DEF AuditSound, Unrecorded
  <2> QED BY <2>4, <2>8, <2>9 DEF AuditInv
<1>5. CASE (RecordDrop \/ RecordCreate) /\ RaiseByFault
  <2>1. performed' = performed /\ job'.stage # "apply-ddl"
        /\ (audit' = audit \/ audit' = [audit EXCEPT !.status = "failed"])
    BY <1>5 DEF RecordDrop, RecordCreate, RaiseByFault, CloseAsFailed, Finish, NoJob
  <2> QED BY <2>1, AuditStops
<1> QED BY <1>1, <1>2, <1>3, <1>4, <1>5

(* A statement that was done though its adapter raised.                    *)
LEMMA AuditLosesReply ==
  ASSUME FullAssumption, BasicInv, AuditInv, ReplyIsLost
  PROVE  AuditInv'
<1>1. job'.stage # "apply-ddl" /\ (audit' = audit \/ audit' = [audit EXCEPT !.status = "failed"])
  BY DEF ReplyIsLost, RaiseByFault, CloseAsFailed, Finish, NoJob
<1>2. CASE performed' = performed
  BY <1>1, <1>2, AuditStops
<1>3. CASE performed' # performed
  <2>1. \/ Doing("overwrite") /\ performed' = performed \cup {<<Table, "drop">>}
        \/ Doing("recreate") /\ performed' = performed \cup {<<Table, "create">>}
    BY <1>3 DEF ReplyIsLost, Performed
  <2>2. /\ performed = audit.recorded /\ audit.status # "completed"
        /\ Doing("overwrite") => <<Table, "create">> \notin performed
    BY <2>1, AuditHead DEF AuditUnderWay
  <2>3. audit'.recorded = audit.recorded /\ audit'.status # "completed"
    BY <1>1, <2>2 DEF BasicInv, TypeInv, FilesOK, Audits
  <2>4. AuditSound'
    <3>1. CASE Doing("overwrite") /\ performed' = performed \cup {<<Table, "drop">>}
      BY <2>2, <2>3, <3>1 DEF AuditSound, Unrecorded
    <3>2. CASE performed' = performed \cup {<<Table, "create">>}
      <4>1. \A s \in Unrecorded' : s = <<Table, "create">>
        BY <2>2, <2>3, <3>2 DEF Unrecorded
      <4>2. "create" # "drop"
        OBVIOUS
      <4> QED BY <2>2, <2>3, <3>2, <4>1, <4>2 DEF AuditSound
    <3> QED BY <2>1, <3>1, <3>2
  <2> QED BY <1>1, <2>4 DEF AuditInv, At
<1> QED BY <1>2, <1>3

LEMMA AuditCloses ==
  ASSUME FullAssumption, BasicInv, AuditInv, CloseAudit
  PROVE  AuditInv'
<1>1. Doing("close_audit") /\ performed' = performed
  BY DEF CloseAudit
<1>2. /\ performed = audit.recorded /\ performed \subseteq Statements
      /\ \A t \in AllTables : <<t, "drop">> \in performed => <<t, "create">> \in performed
  BY <1>1, AuditHead DEF AuditUnderWay, BasicInv, TypeInv, FilesOK
<1>3. ASSUME NEW s \in performed PROVE <<s[1], "create">> \in performed
  <2>1. PICK t \in AllTables, action \in {"drop", "create"} : s = <<t, action>>
    BY <1>2, <1>3 DEF Statements
  <2> QED BY <1>2, <1>3, <2>1
<1>4. audit'.recorded = audit.recorded
  BY DEF CloseAudit, BasicInv, TypeInv, FilesOK, Audits
<1>5. AuditSound'
  BY <1>1, <1>2, <1>3, <1>4 DEF AuditSound, Unrecorded
<1>6. job'.stage # "apply-ddl"
  <2>1. Finish(FALSE) \/ Succeed
    BY DEF CloseAudit
  <2>2. Ended(FALSE) \/ Ended(TRUE) \/ Moved
    BY <2>1, FinishWell, SucceedWell DEF BasicInv
  <2> QED BY <2>2 DEF Ended, Moved, NoJob, NextStage
<1> QED BY <1>5, <1>6 DEF AuditInv, At

(* The plan that apply-ddl makes overwrites no table twice.                *)
LEMMA AuditPlans ==
  ASSUME FullAssumption, BasicInv, BasicInv', AuditInv, PlanDdl
  PROVE  AuditInv'
<1>0. TypeInv /\ PlanInv
  BY DEF BasicInv
<1>1. performed' = performed /\ job.stage = "apply-ddl" /\ job.todo = << >>
  BY DEF PlanDdl, At
<1>2. ~job.audited /\ audit = NoAudit /\ performed = {}
  BY <1>1 DEF AuditInv, At
<1>3. CASE Ended(FALSE) /\ audit' = audit
  BY <1>1, <1>3, AuditStops DEF Ended, NoJob
<1>4. CASE PlannedWell
  <2> DEFINE items == Planned
  <2>1. /\ job'.todo = Append(items, Report) /\ job'.todo # << >> /\ job'.stage = "apply-ddl"
        /\ audit' = IF job'.audited THEN [NoAudit EXCEPT !.status = "running"] ELSE audit
    BY <1>1, <1>4 DEF PlannedWell, SameJob
  <2>2. /\ items \in Seq(JobItems)
        /\ \A i \in 1 .. Len(items) : PlannedDdl(items[i])
        /\ \A i, j \in 1 .. Len(items) :
             items[i].table \in Source /\ items[i].table = items[j].table => i = j
    BY <1>0, DdlItemsFit DEF Planned
  <2> HIDE DEF items
  <2>3. Report \in JobItems /\ Report.action = "report"
    BY DEF Report, Item, JobItems, Steps
  <2>4. /\ Append(items, Report)[Len(items) + 1] = Report /\ Len(items) \in Nat
        /\ Append(items, Report) \in Seq(JobItems)
        /\ Len(Append(items, Report)) = Len(items) + 1
        /\ \A i \in 1 .. Len(items) : Append(items, Report)[i] = items[i]
    BY <2>2, <2>3, AppendOf, LenProperties
  <2>5. ASSUME NEW i \in 1 .. Len(job'.todo)
        PROVE  \/ job'.todo[i].action = "report"
               \/ i \in 1 .. Len(items) /\ job'.todo[i] = items[i] /\ PlannedDdl(items[i])
    <3>1. i = Len(items) + 1 \/ i \in 1 .. Len(items)
      BY <2>1, <2>4
    <3> QED BY <2>1, <2>2, <2>3, <2>4, <3>1
  <2>6. ASSUME NEW i \in 1 .. Len(job'.todo), job'.todo[i].action \in Halves
        PROVE  i \in 1 .. Len(items) /\ job'.todo[i] = items[i] /\ items[i].table \in Source
    <3>1. job.tables \subseteq Source
      BY <1>0 DEF TypeInv, JobOK, Jobs
    <3> QED BY <2>5, <2>6, <3>1 DEF PlannedDdl, Halves
  <2>7. Once(job'.todo, performed')
    <3>1. \A i, j \in 1 .. Len(job'.todo) :
            job'.todo[i].action \in Halves /\ job'.todo[j].action \in Halves
            /\ job'.todo[i].table = job'.todo[j].table => i = j
      BY <2>2, <2>6
    <3> QED BY <1>1, <1>2, <3>1 DEF Once
  <2>8. Head(job'.todo).action \notin {"record_drop", "record_create"}
    <3>1. Head(job'.todo) = job'.todo[1] /\ 1 \in 1 .. Len(job'.todo)
      BY <2>1, <2>4, TailOf
    <3> QED BY <2>5, <3>1 DEF PlannedDdl
  <2>9. /\ audit'.recorded = {} /\ performed' = {}
        /\ audit'.status = IF job'.audited THEN "running" ELSE "none"
    BY <1>1, <1>2, <2>1 DEF NoAudit
  <2>10. AuditSound'
    BY <2>9 DEF AuditSound, Unrecorded
  <2>11. AuditUnderWay'
    BY <2>7, <2>8, <2>9 DEF AuditUnderWay, Unrecorded
  <2> QED BY <2>1, <2>10, <2>11 DEF AuditInv
<1> QED BY <1>0, <1>3, <1>4, PlanDdlWell

LEMMA AuditNext ==
  ASSUME FullAssumption, BasicInv, BasicInv', AuditInv, [Next]_vars
  PROVE  AuditInv'
<1>0. TypeInv /\ PlanInv
  BY DEF BasicInv
<1>1. CASE UNCHANGED vars
  BY <1>1 DEF vars, files, AuditInv, AuditSound, Unrecorded, AuditUnderWay, At, Table
<1>2. ASSUME NEW command, NEW policy, NEW scope, Start(command, policy, scope) PROVE AuditInv'
  <2>1. /\ audit' = NoAudit /\ performed' = {}
        /\ job' = [NoJob EXCEPT !.command = command, !.stage = Stage(command), !.policy = policy,
                                !.tables = scope.tables, !.all = scope.all,
                                !.since = faults, !.held = PartlyFilled]
    BY <1>2 DEF Start
  <2>2. job'.todo = << >> /\ ~job'.audited
    BY <2>1 DEF NoJob
  <2>3. AuditSound'
    BY <2>1 DEF AuditSound, NoAudit, Unrecorded
  <2> QED BY <2>1, <2>2, <2>3 DEF AuditInv
<1>3. CASE RunDryRun
  <2>1. UNCHANGED <<audit, performed, job>> /\ job' = NoJob
    BY <1>3 DEF RunDryRun
  <2> QED BY <2>1, AuditStops DEF NoJob
<1>4. CASE AuditFailsToOpen \/ Refused \/ StatementFails \/ AuditStaysOpen \/ Crash
  <2>1. performed' = performed /\ job'.stage # "apply-ddl"
        /\ (audit' = audit \/ audit' = [audit EXCEPT !.status = "failed"])
    BY <1>4 DEF AuditFailsToOpen, Refused, StatementFails, AuditStaysOpen, Crash, Raise,
                RaiseByFault, CloseAsFailed, Finish, NoJob, files
  <2> QED BY <2>1, AuditStops
<1>5. CASE Skip \/ Blocked \/ SyncExisting \/ DropTargetOnly \/ Truncate \/ Create
  <2>1. PICK action \in {"skip", "blocked", "sync_existing", "drop_target_only", "truncate", "create"},
             failed \in BOOLEAN :
          Doing(action) /\ Advance(failed) /\ UNCHANGED <<audit, performed, safety, dryRun>>
    BY <1>5 DEF Skip, Blocked, SyncExisting, DropTargetOnly, Truncate, Create, KeepFiles, env
  <2>2. job.stage = "apply-ddl" /\ job.todo # << >> /\ Head(job.todo).action \notin Ends
    BY <1>0, <2>1, DoingFits DEF Ends
  <2>3. WentOn
    BY <1>0, <2>1, <2>2, AdvanceWell
  <2> QED BY <2>1, <2>3, AuditGoesOn DEF HalfDone
<1>6. CASE WriteSummary
  <2>1. /\ Doing("report") /\ UNCHANGED <<audit, performed, safety, dryRun>>
        /\ Becomes("close_audit") \/ Finish(FALSE)
    BY <1>6 DEF WriteSummary, KeepFiles, env
  <2>2. CASE Becomes("close_audit")
    <3>1. /\ job.stage = "apply-ddl" /\ job.todo # << >> /\ Head(job.todo).action = "report"
          /\ AuditUnderWay
      BY <2>1, AuditHead
    <3>2. /\ "close_audit" \in Steps \ Destructive /\ "close_audit" \in Ends
          /\ DdlItemFits(Item(Table, "close_audit"), job) /\ "report" \in Ends
      BY DEF Steps, Destructive, Ends, DdlItemFits, Item
    <3>3. Turned("close_audit")
      BY <1>0, <2>1, <2>2, <3>1, <3>2, BecomesWell
    <3>4. /\ Head(job'.todo).action = "close_audit" /\ job'.todo # << >>
          /\ job'.audited = job.audited
      BY <3>3 DEF Turned, Item
    <3>5. Once(job'.todo, performed')
      BY <1>0, <2>1, <3>1, <3>3, OnceTurns DEF AuditUnderWay, Halves
    <3>6. AuditUnderWay'
      BY <2>1, <3>1, <3>4, <3>5 DEF AuditUnderWay, Unrecorded
    <3> QED BY <2>1, <3>4, <3>6, AuditLeftAlone DEF AuditInv
  <2>3. CASE Finish(FALSE)
    BY <2>1, <2>3, AuditStops DEF Finish, NoJob
  <2> QED BY <2>1, <2>2, <2>3
<1>7. CASE Copy \/ Apply
  <2>1. UNCHANGED <<audit, performed>>
    BY <1>7
       DEF Copy, PlanCopy, CopyWhole, SyncWhole, CopyIsRefused, DeleteIsRefused, CopyFails,
           EndCopy, KeepDdl, files, Apply, ApplyPreIndexes, ApplyForeignKeys, ApplyIndexes
  <2>2. job'.stage # "apply-ddl"
    <3>1. CASE PlanCopy
      <4>1. job.stage \in {"migrate-data", "resume"}
        BY <3>1 DEF PlanCopy, At
      <4>2. SameJob \/ job' = NoJob
        BY <1>0, <3>1, PlanCopyWell DEF Ended
      <4> QED BY <4>1, <4>2 DEF SameJob, NoJob
    <3>2. CASE CopyStep
      <4>1. /\ Finish(FALSE) \/ Advance(FALSE)
            /\ job.stage \in {"migrate-data", "resume"}
        BY <3>2 DEF CopyStep, CopyWhole, SyncWhole, CopyIsRefused, DeleteIsRefused, CopyFails,
                    Copying, At
      <4>2. job \in Jobs
        BY <1>0 DEF TypeInv, JobOK
      <4>3. ASSUME Advance(FALSE) PROVE job'.stage = job.stage
        BY <4>2, <4>3 DEF Advance, Jobs
      <4>4. ASSUME Finish(FALSE) PROVE job'.stage = "none"
        BY <4>4 DEF Finish, NoJob
      <4> QED BY <4>1, <4>3, <4>4
    <3>3. CASE EndCopy \/ Apply
      <4>1. Succeed \/ Finish(FALSE)
        BY <3>3 DEF EndCopy, Apply, ApplyPreIndexes, ApplyForeignKeys, ApplyIndexes
      <4>2. Ended(FALSE) \/ Ended(TRUE) \/ Moved
        BY <1>0, <4>1, FinishWell, SucceedWell
      <4> QED BY <4>2 DEF Ended, Moved, NoJob, NextStage
    <3> QED BY <1>7, <3>1, <3>2, <3>3 DEF Copy, CopyStep
  <2> QED BY <2>1, <2>2, AuditStops
<1> QED
  BY <1>1, <1>2, <1>3, <1>4, <1>5, <1>6, <1>7, AuditPlans, AuditOverwrites, AuditLosesReply,
     AuditCloses
     DEF Next, Operate, Ddl

(* overwrite-audit.sqlite tells what was done, its own failures and lost   *)
(* replies included: no drop or create that was not done, all of them but  *)
(* the last statement, and all of them, each table re-created, in a run it *)
(* calls completed.                                                        *)
THEOREM AuditIsTrue == Spec => []AuditTellsTheTruth
<1>1. Init => BasicInv /\ AuditInv
  <2> SUFFICES ASSUME Init PROVE BasicInv /\ AuditInv
    OBVIOUS
  <2>1. audit = NoAudit /\ performed = {} /\ job = NoJob
    BY DEF Init
  <2>2. AuditInv
    BY <2>1 DEF AuditInv, AuditSound, NoAudit, NoJob, At, Unrecorded
  <2> QED BY <2>2, FullAssumption, InitTypes DEF BasicInv
<1>2. BasicInv /\ AuditInv /\ [Next]_vars => BasicInv' /\ AuditInv'
  BY FullAssumption, BasicNext, AuditNext
<1>3. BasicInv /\ AuditInv => AuditTellsTheTruth
  <2> SUFFICES ASSUME BasicInv, AuditInv PROVE AuditTellsTheTruth
    OBVIOUS
  <2>1. \A s, u \in Unrecorded : s = u
    BY DEF AuditInv, AuditSound
  <2>2. Unrecorded = {} \/ \E s : Unrecorded = {s}
    BY <2>1
  <2>3. Cardinality(Unrecorded) <= 1
    <3>1. Cardinality({}) = 0 /\ \A s : Cardinality({s}) = 1
      BY FS_EmptySet, FS_Singleton
    <3>2. Cardinality(Unrecorded) \in {0, 1}
      BY <2>2, <3>1
    <3> QED BY <3>2
  <2> QED BY <2>3 DEF AuditInv, AuditSound, AuditTellsTheTruth, Unrecorded
<1> QED BY <1>1, <1>2, <1>3, PTL DEF Spec

-----------------------------------------------------------------------------
(* What is ahead in a plan.                                                *)

Ahead(t, A) ==
  \E i \in 1 .. Len(job.todo) : job.todo[i].table = t /\ job.todo[i].action \in A

LEMMA AheadGoesOn ==
  ASSUME BasicInv, job.todo # << >>, WentOn, NEW t, NEW A, Ahead(t, A),
         ~(Table = t /\ Head(job.todo).action \in A)
  PROVE  Ahead(t, A)'
<1>1. job.todo \in Seq(JobItems) /\ job'.todo = Tail(job.todo)
  BY DEF BasicInv, TypeInv, JobOK, Jobs, WentOn
<1>2. /\ Head(job.todo) = job.todo[1] /\ Tail(job.todo) \in Seq(JobItems)
      /\ Len(Tail(job.todo)) = Len(job.todo) - 1 /\ Len(job.todo) \in Nat
      /\ \A k \in 1 .. Len(Tail(job.todo)) : Tail(job.todo)[k] = job.todo[k + 1]
  BY <1>1, TailOf, LenProperties
<1>3. PICK i \in 1 .. Len(job.todo) : job.todo[i].table = t /\ job.todo[i].action \in A
  BY DEF Ahead
<1>4. i # 1
  BY <1>2, <1>3 DEF Table
<1>5. i - 1 \in 1 .. Len(Tail(job.todo)) /\ (i - 1) + 1 = i
  BY <1>2, <1>4
<1>6. i - 1 \in 1 .. Len(job'.todo) /\ job'.todo[i - 1] = job.todo[i]
  BY <1>1, <1>2, <1>5
<1> QED BY <1>3, <1>6 DEF Ahead

LEMMA AheadTurns ==
  ASSUME BasicInv, job.todo # << >>, NEW action, Turned(action), NEW t, NEW A,
         \/ t = Table /\ action \in A
         \/ Ahead(t, A) /\ ~(Table = t /\ Head(job.todo).action \in A)
  PROVE  Ahead(t, A)'
<1> DEFINE todo == <<Item(Table, action)>> \o Tail(job.todo)
<1>1. job.todo \in Seq(JobItems) /\ job'.todo = todo /\ todo \in Seq(JobItems)
      /\ todo # << >> /\ Head(todo) = Item(Table, action)
  BY DEF BasicInv, TypeInv, JobOK, Jobs, Turned, SameJob
<1>2. Item(Table, action) \in JobItems
  <2> HIDE DEF todo
  <2> QED BY <1>1, TailOf
<1>3. /\ Len(todo) = Len(job.todo) /\ Head(job.todo) = job.todo[1] /\ todo[1] = Item(Table, action)
      /\ 1 \in 1 .. Len(todo)
      /\ \A i \in 1 .. Len(job.todo) : i # 1 => todo[i] = job.todo[i]
  BY <1>1, <1>2, BecomesOf, TailOf
<1> HIDE DEF todo
<1>4. CASE t = Table /\ action \in A
  BY <1>1, <1>3, <1>4 DEF Ahead, Item
<1>5. CASE Ahead(t, A) /\ ~(Table = t /\ Head(job.todo).action \in A)
  <2>1. PICK i \in 1 .. Len(job.todo) : job.todo[i].table = t /\ job.todo[i].action \in A
    BY <1>5 DEF Ahead
  <2>2. i # 1
    BY <1>3, <1>5, <2>1 DEF Table
  <2>3. i \in 1 .. Len(job'.todo) /\ job'.todo[i] = job.todo[i]
    BY <1>1, <1>3, <2>1, <2>2
  <2> QED BY <2>1, <2>3 DEF Ahead
<1> QED BY <1>4, <1>5

(* The only item of a plan that has come to its end is the one that ends   *)
(* it.                                                                     *)
LEMMA NothingAhead ==
  ASSUME job.todo \in Seq(JobItems), job.todo # << >>, Len(job.todo) = 1,
         NEW t, NEW A, Head(job.todo).action \notin A
  PROVE  ~Ahead(t, A)
<1>1. Head(job.todo) = job.todo[1]
  BY TailOf
<1> QED BY <1>1 DEF Ahead

(* What a plan was made of is ahead.                                       *)
LEMMA AheadPlanned ==
  ASSUME NEW items \in Seq(JobItems), NEW x \in JobItems, job'.todo = Append(items, x),
         NEW i \in 1 .. Len(items), NEW A, items[i].action \in A
  PROVE  Ahead(items[i].table, A)'
<1>1. /\ Len(Append(items, x)) = Len(items) + 1 /\ Len(items) \in Nat
      /\ Append(items, x)[i] = items[i]
  BY AppendOf, LenProperties
<1>2. i \in 1 .. Len(job'.todo) /\ job'.todo[i] = items[i]
  BY <1>1
<1> QED BY <1>2 DEF Ahead

(* The steps of apply-ddl on the head of its plan.                         *)
DdlStep(action) ==
  /\ Doing(action) /\ outcome' = outcome
  /\ \/ WentOn /\ action \notin {"overwrite", "record_drop", "recreate"}
     \/ Turned("record_drop") /\ action = "overwrite"
     \/ Turned("recreate") /\ action = "record_drop"
     \/ Turned("record_create") /\ action = "recreate"
     \/ Turned("close_audit") /\ action = "report"
  /\ action \in {"truncate", "overwrite"} => rows' = [rows EXCEPT ![Table] = {}]
  /\ \/ exists \subseteq exists'
     \/ action \in {"drop_target_only", "overwrite"} /\ exists' = exists \ {Table}
  /\ action \in {"create", "recreate"} => Table \in exists'

LEMMA DdlSteps ==
  ASSUME FullAssumption, BasicInv, Ddl
  PROVE  /\ job.stage = "apply-ddl"
         /\ \/ PlanDdl /\ PlannedWell
            \/ Ended(FALSE)
            \/ CloseAudit /\ Succeed
            \/ \E action \in Steps : DdlStep(action)
<1>0. TypeInv /\ PlanInv
  BY DEF BasicInv
<1>1. job.stage = "apply-ddl"
  BY DEF Ddl, PlanDdl, AuditFailsToOpen, Skip, Blocked, SyncExisting, Refused, DropTargetOnly,
         Truncate, OverwriteDrop, RecordDrop, Create, Recreate, RecordCreate, StatementFails,
         ReplyIsLost, WriteSummary, CloseAudit, AuditStaysOpen, Doing, At
<1>2. ASSUME Finish(FALSE) PROVE Ended(FALSE)
  BY <1>2, FinishWell
<1>3. ASSUME NEW action, NEW failed \in BOOLEAN, Doing(action), Advance(failed),
             action \notin Ends, UNCHANGED <<safety, dryRun>>
      PROVE  WentOn /\ outcome' = outcome
  <2>1. job.todo # << >> /\ Head(job.todo).action \notin Ends
    BY <1>0, <1>3, DoingFits
  <2> QED BY <1>0, <1>1, <1>3, <2>1, AdvanceWell
<1>4. CASE PlanDdl
  BY <1>0, <1>1, <1>4, PlanDdlWell
<1>5. CASE Skip \/ Blocked \/ SyncExisting \/ DropTargetOnly \/ Truncate \/ Create
  <2>1. PICK action \in {"skip", "blocked", "sync_existing", "drop_target_only", "truncate", "create"},
             failed \in BOOLEAN :
          /\ Doing(action) /\ Advance(failed) /\ UNCHANGED <<safety, dryRun>>
          /\ action = "truncate" => rows' = [rows EXCEPT ![Table] = {}]
          /\ \/ exists \subseteq exists'
             \/ action = "drop_target_only" /\ exists' = exists \ {Table}
          /\ action = "create" => Table \in exists'
    BY <1>5 DEF Skip, Blocked, SyncExisting, DropTargetOnly, Truncate, Create, KeepFiles, env,
                target, RemoveTable, EmptyTable, AddTable
  <2>2. WentOn /\ outcome' = outcome
    BY <1>3, <2>1 DEF Ends
  <2>3. DdlStep(action) /\ action \in Steps
    BY <2>1, <2>2 DEF DdlStep, Steps
  <2> QED BY <1>1, <2>3
<1>6. CASE RecordCreate
  <2>1. CASE Recorded("create") /\ Advance(FALSE)
    <3>1. Doing("record_create") /\ UNCHANGED <<safety, dryRun>> /\ exists' = exists
      BY <1>6 DEF RecordCreate, KeepFiles, env, target
    <3>2. WentOn /\ outcome' = outcome
      BY <1>3, <2>1, <3>1 DEF Ends
    <3>3. DdlStep("record_create") /\ "record_create" \in Steps
      BY <3>1, <3>2 DEF DdlStep, Steps
    <3> QED BY <1>1, <3>3
  <2>2. CASE ~(Recorded("create") /\ Advance(FALSE))
    BY <1>1, <1>2, <1>6, <2>2 DEF RecordCreate, RaiseByFault
  <2> QED BY <2>1, <2>2
<1>7. CASE OverwriteDrop
  <2>1. /\ Doing("overwrite") /\ Becomes("record_drop") /\ UNCHANGED <<safety, dryRun>>
        /\ rows' = [rows EXCEPT ![Table] = {}] /\ exists' = exists \ {Table}
    BY <1>7 DEF OverwriteDrop, RemoveTable, KeepFiles, env
  <2>2. Turned("record_drop") /\ outcome' = outcome
    BY <2>1, OverwriteGoesOn DEF Becomes
  <2>3. DdlStep("overwrite") /\ "overwrite" \in Steps
    BY <2>1, <2>2 DEF DdlStep, Steps
  <2> QED BY <1>1, <2>3
<1>8. CASE RecordDrop
  <2>1. CASE Becomes("recreate")
    <3>1. /\ Doing("record_drop") /\ UNCHANGED <<safety, dryRun>> /\ exists' = exists
      BY <1>8 DEF RecordDrop, KeepFiles, env, target
    <3>2. Turned("recreate") /\ outcome' = outcome
      BY <2>1, <3>1, OverwriteGoesOn DEF Becomes
    <3>3. DdlStep("record_drop") /\ "record_drop" \in Steps
      BY <3>1, <3>2 DEF DdlStep, Steps
    <3> QED BY <1>1, <3>3
  <2>2. CASE ~Becomes("recreate")
    BY <1>1, <1>2, <1>8, <2>2 DEF RecordDrop, RaiseByFault
  <2> QED BY <2>1, <2>2
<1>9. CASE Recreate
  <2>1. /\ Doing("recreate") /\ Becomes("record_create") /\ UNCHANGED <<safety, dryRun>>
        /\ exists' = exists \cup {Table}
    BY <1>9 DEF Recreate, AddTable, KeepFiles, env
  <2>2. Turned("record_create") /\ outcome' = outcome
    BY <2>1, OverwriteGoesOn DEF Becomes
  <2>3. DdlStep("recreate") /\ "recreate" \in Steps
    BY <2>1, <2>2 DEF DdlStep, Steps
  <2> QED BY <1>1, <2>3
<1>10. CASE WriteSummary
  <2>1. /\ Doing("report") /\ UNCHANGED <<exists, safety, dryRun>>
        /\ Becomes("close_audit") \/ Finish(FALSE)
    BY <1>10 DEF WriteSummary, KeepFiles, env, target
  <2>2. CASE Becomes("close_audit")
    <3>1. job.todo # << >> /\ Head(job.todo).action = "report"
      BY <1>0, <2>1, DoingFits
    <3>2. /\ "close_audit" \in Steps \ Destructive /\ "close_audit" \in Ends
          /\ DdlItemFits(Item(Table, "close_audit"), job) /\ "report" \in Ends
      BY DEF Steps, Destructive, Ends, DdlItemFits, Item
    <3>3. Turned("close_audit") /\ outcome' = outcome
      BY <1>0, <1>1, <2>1, <2>2, <3>1, <3>2, BecomesWell
    <3>4. DdlStep("report") /\ "report" \in Steps
      BY <2>1, <3>3 DEF DdlStep, Steps
    <3> QED BY <1>1, <3>4
  <2> QED BY <1>1, <1>2, <2>1, <2>2
<1>11. CASE CloseAudit
  BY <1>1, <1>2, <1>11 DEF CloseAudit
<1>12. CASE AuditFailsToOpen \/ Refused \/ StatementFails \/ ReplyIsLost \/ AuditStaysOpen
  <2>1. Finish(FALSE)
    BY <1>12 DEF AuditFailsToOpen, Refused, StatementFails, ReplyIsLost, AuditStaysOpen, Raise,
                 RaiseByFault
  <2> QED BY <1>1, <1>2, <2>1
<1> QED BY <1>4, <1>5, <1>6, <1>7, <1>8, <1>9, <1>10, <1>11, <1>12 DEF Ddl

-----------------------------------------------------------------------------
(* What a command that succeeds has done.                                  *)

(* A table that is missing in the target has its CREATE TABLE ahead.       *)
Creates == {"create", "record_drop", "recreate"}

ExistsInv ==
  /\ job.stage = "apply-ddl" /\ job.todo # << >> =>
       \A t \in job.tables : t \in exists \/ Ahead(t, Creates)
  /\ job.command = "full" /\ job.stage # "apply-ddl" => job.tables \subseteq exists
  /\ job = NoJob /\ outcome.success /\ outcome.command \in {"apply-ddl", "full"} =>
       outcome.tables \subseteq exists

LEMMA ExistsByDdl ==
  ASSUME FullAssumption, BasicInv, ExistsInv, NEW action \in Steps, DdlStep(action)
  PROVE  ExistsInv'
<1>1. /\ job.stage = "apply-ddl" /\ job.todo # << >> /\ Head(job.todo).action = action
      /\ action = "drop_target_only" => Table \notin Source
  BY DoingFits DEF BasicInv, DdlStep
<1>2. /\ job'.stage = "apply-ddl" /\ job'.tables = job.tables /\ job.tables \subseteq Source
      /\ job' # NoJob
  BY <1>1 DEF DdlStep, WentOn, Turned, SameJob, NoJob, BasicInv, TypeInv, JobOK, Jobs
<1>3. ASSUME NEW t \in job.tables, t \notin exists' PROVE Ahead(t, Creates)'
  <2>1. CASE t \in exists
    <3>1. t = Table /\ Turned("record_drop")
      BY <1>1, <1>2, <1>3, <2>1 DEF DdlStep
    <3> QED BY <1>1, <3>1, AheadTurns DEF Creates
  <2>2. CASE t \notin exists
    <3>1. Ahead(t, Creates)
      BY <1>1, <1>3, <2>2 DEF ExistsInv
    <3>2. CASE WentOn
      <4>1. ~(Table = t /\ action \in Creates)
        BY <1>3, <3>2 DEF DdlStep, Creates, Turned, WentOn
      <4> QED BY <1>1, <3>1, <3>2, <4>1, AheadGoesOn
    <3>3. CASE Turned("record_drop") /\ action = "overwrite"
      BY <1>1, <3>1, <3>3, AheadTurns DEF Creates
    <3>4. CASE Turned("recreate") /\ action = "record_drop"
      BY <1>1, <3>1, <3>4, AheadTurns DEF Creates
    <3>5. CASE Turned("record_create") /\ action = "recreate"
      <4>1. t # Table
        BY <1>3, <3>5 DEF DdlStep
      <4> QED BY <1>1, <3>1, <3>5, <4>1, AheadTurns
    <3>6. CASE Turned("close_audit") /\ action = "report"
      BY <1>1, <3>1, <3>6, AheadTurns DEF Creates
    <3> QED BY <3>2, <3>3, <3>4, <3>5, <3>6 DEF DdlStep
  <2> QED BY <2>1, <2>2
<1> QED BY <1>2, <1>3 DEF ExistsInv

(* Outside apply-ddl no table goes.                                        *)
LEMMA ExistsOutside ==
  ASSUME BasicInv, ExistsInv, UNCHANGED exists, job.stage # "apply-ddl", JobMoves, job # NoJob
  PROVE  ExistsInv'
<1>1. JobOK
  BY DEF BasicInv, TypeInv
<1>2. CASE job' = job /\ outcome' = outcome
  BY <1>2 DEF ExistsInv
<1>3. CASE SameJob
  <2>1. /\ job'.stage = job.stage /\ job'.command = job.command /\ job'.tables = job.tables
    BY <1>3 DEF SameJob
  <2>2. job'.stage # "none"
    BY <1>1, <2>1 DEF JobOK
  <2>3. job' # NoJob
    BY <2>2 DEF NoJob
  <2> QED BY <2>1, <2>3 DEF ExistsInv
<1>4. CASE Moved
  <2>1. /\ job'.command = "full" /\ job.command = "full" /\ job'.tables = job.tables
        /\ job'.stage \notin {"none", "apply-ddl"}
    BY <1>4 DEF Moved, NextStage
  <2>2. job' # NoJob
    BY <2>1 DEF NoJob
  <2> QED BY <2>1, <2>2 DEF ExistsInv
<1>5. CASE Ended(FALSE)
  BY <1>5 DEF Ended, ExistsInv, NoJob
<1>6. CASE Ended(TRUE)
  <2>1. /\ job' = NoJob /\ outcome'.tables = job.tables /\ outcome'.command = job.command
    BY <1>6 DEF Ended
  <2>2. job.command # "apply-ddl"
    BY <1>1 DEF JobOK
  <2>3. job.command = "full" => job.tables \subseteq exists
    BY DEF ExistsInv
  <2> QED BY <2>1, <2>2, <2>3 DEF ExistsInv, NoJob
<1> QED BY <1>2, <1>3, <1>4, <1>5, <1>6 DEF JobMoves

LEMMA ExistsNext ==
  ASSUME FullAssumption, BasicInv, ExistsInv, [Next]_vars
  PROVE  ExistsInv'
<1>0. TypeInv /\ PlanInv /\ JobOK /\ job.tables \subseteq Source
  BY DEF BasicInv, TypeInv, JobOK, Jobs
<1>1. CASE UNCHANGED vars
  BY <1>1 DEF vars, target, ExistsInv, Ahead
<1>2. ASSUME Ended(FALSE) PROVE ExistsInv'
  BY <1>2 DEF Ended, ExistsInv, NoJob
<1>3. CASE RunDryRun
  BY <1>3 DEF RunDryRun, target, ExistsInv, Ahead
<1>4. ASSUME NEW command \in Commands, NEW policy \in Policies, NEW scope \in Scopes,
             Start(command, policy, scope)
      PROVE  ExistsInv'
  <2>1. /\ job'.todo = << >> /\ job'.command = command /\ job'.stage = Stage(command)
        /\ ~outcome'.success
    BY <1>0, <1>4, StartsWell DEF Start, NoOutcome
  <2>2. command = "full" => job'.stage = "apply-ddl"
    BY <2>1 DEF Stage
  <2> QED BY <2>1, <2>2 DEF ExistsInv
<1>5. CASE PlanDdl /\ PlannedWell
  <2> DEFINE items == Planned
  <2>1. /\ job'.todo = Append(items, Report) /\ job'.tables = job.tables
        /\ job'.stage = "apply-ddl" /\ exists' = exists
    BY <1>5 DEF PlannedWell, SameJob, PlanDdl, At, target
  <2>2. /\ items \in Seq(JobItems)
        /\ \A t \in job.tables : \E i \in 1 .. Len(items) :
             items[i] = Item(t, ActionFor(t, job.policy))
    BY <1>0, DdlItemsFit DEF Planned
  <2> HIDE DEF items
  <2>3. Report \in JobItems
    BY DEF Report, Item, JobItems, Steps
  <2>4. ASSUME NEW t \in job.tables, t \notin exists PROVE Ahead(t, Creates)'
    <3>1. PICK i \in 1 .. Len(items) : items[i] = Item(t, "create")
      BY <2>2, <2>4 DEF ActionFor
    <3>2. items[i].table = t /\ items[i].action \in Creates
      BY <3>1 DEF Item, Creates
    <3> QED BY <2>1, <2>2, <2>3, <3>2, AheadPlanned
  <2>5. job' # NoJob
    BY <2>1 DEF NoJob
  <2> QED BY <2>1, <2>4, <2>5 DEF ExistsInv
<1>6. CASE CloseAudit /\ Succeed
  <2>1. /\ job.stage = "apply-ddl" /\ job.todo # << >> /\ Len(job.todo) = 1
        /\ job.todo \in Seq(JobItems) /\ Head(job.todo).action = "close_audit"
    BY <1>0, <1>6, DoingFits DEF CloseAudit, Ends
  <2>2. job.tables \subseteq exists
    <3>1. \A t : ~Ahead(t, Creates)
      BY <2>1, NothingAhead DEF Creates
    <3> QED BY <2>1, <3>1 DEF ExistsInv
  <2>3. exists' = exists
    BY <1>6 DEF CloseAudit, target
  <2>4. (Moved /\ outcome' = outcome) \/ Ended(TRUE)
    BY <1>0, <1>6, SucceedWell
  <2>5. CASE Moved /\ outcome' = outcome
    <3>1. job'.tables = job.tables /\ job'.stage \notin {"none", "apply-ddl"}
      BY <2>5 DEF Moved, NextStage
    <3>2. job' # NoJob
      BY <3>1 DEF NoJob
    <3> QED BY <2>2, <2>3, <3>1, <3>2 DEF ExistsInv
  <2>6. CASE Ended(TRUE)
    BY <2>2, <2>3, <2>6 DEF ExistsInv, Ended, NoJob
  <2> QED BY <2>4, <2>5, <2>6
<1>7. CASE Ddl
  BY <1>2, <1>5, <1>6, <1>7, DdlSteps, ExistsByDdl
<1>8. CASE Copy \/ Apply
  <2>1. /\ job.stage \notin {"none", "apply-ddl"}
        /\ exists' = exists
    BY <1>8
       DEF Copy, PlanCopy, CopyWhole, SyncWhole, CopyIsRefused, DeleteIsRefused, CopyFails,
           EndCopy, KeepDdl, target, Apply, ApplyPreIndexes, ApplyForeignKeys, ApplyIndexes,
           Copying, At
  <2>2. job # NoJob
    BY <2>1 DEF NoJob
  <2>3. JobMoves
    <3>1. ASSUME NEW command \in Commands, NEW policy \in Policies, NEW scope \in Scopes
          PROVE  ~Start(command, policy, scope)
      BY <2>2 DEF Start
    <3> QED BY <1>0, <1>8, <3>1, JobNext DEF Next
  <2> QED BY <2>1, <2>2, <2>3, ExistsOutside
<1>9. CASE Crash
  BY <1>2, <1>9, FinishWell DEF Crash
<1> QED
  BY <1>1, <1>3, <1>4, <1>7, <1>8, <1>9 DEF Next, Operate

-----------------------------------------------------------------------------
(* The rows that a full run leaves.                                        *)

(* A completed table was read to its end.                                  *)
CursorInv == \A t \in Source : Completed(t) => ckpt[t].cursor = RowCount

Fresh(t) == rows[t] \cap NewRows = {}

Reloads == job.policy \in {"truncate_reload", "overwrite"}

FillingRun == job.command = "full" /\ job.policy \notin {"append", "compare_only"}

BeforeCopy == \/ job.stage = "pre-indexes"
              \/ job.stage = "migrate-data" /\ job.todo = << >>

Emptying == {"truncate", "overwrite"}

Excused(t) == job.policy = "skip" /\ t \in job.held

(* Until the copy is planned, a table with rows of the source in it was    *)
(* held by an earlier run or is completed; the reloading policies have     *)
(* emptied it by then.  A copy that is ahead finds none of its rows.       *)
RowsInv ==
  /\ job.since <= faults
  /\ FillingRun /\ (job.stage = "apply-ddl" \/ BeforeCopy) =>
       \A t \in job.tables : t \in job.held \/ Completed(t) \/ Fresh(t)
  /\ FillingRun /\ Reloads /\ job.stage = "apply-ddl" /\ job.todo # << >> =>
       \A t \in job.tables : rows[t] = {} \/ Ahead(t, Emptying)
  /\ FillingRun /\ Reloads /\ BeforeCopy =>
       \A t \in job.tables : rows[t] = {}
  /\ FillingRun /\ job.stage = "migrate-data" =>
       /\ \A i, j \in 1 .. Len(job.todo) :
            /\ job.todo[i].action = "copy" /\ job.todo[j].action = "copy"
            /\ job.todo[i].table = job.todo[j].table
            => i = j
       /\ \A t \in job.tables : Ahead(t, {"copy"}) =>
            job.policy = "sync" \/ Fresh(t) \/ Excused(t)

(* A full run that met no fault has filled a table or has its copy ahead.  *)
Filled(t) == NewRows \subseteq rows[t] \/ ~Covered(t) \/ fks[t] # {}

Fills == FillingRun /\ faults = job.since

FilledInv ==
  /\ Fills /\ job.stage = "migrate-data" /\ job.todo # << >> =>
       \A t \in job.tables : Filled(t) \/ Excused(t) \/ Ahead(t, {"copy"})
  /\ Fills /\ job.stage \in {"apply-foreign-keys", "apply-indexes"} =>
       \A t \in job.tables : Filled(t) \/ Excused(t)
  /\ /\ job = NoJob /\ outcome.success /\ outcome.command = "full"
     /\ faults = outcome.since /\ outcome.policy \notin {"append", "compare_only"}
     => \A t \in outcome.tables :
          Filled(t) \/ (outcome.policy = "skip" /\ t \in outcome.held)

LEMMA CursorNext ==
  ASSUME FullAssumption, BasicInv, CursorInv, [Next]_vars
  PROVE  CursorInv'
<1>0. TypeInv /\ PlanInv /\ ckpt \in [Source -> Checkpoints]
  BY DEF BasicInv, TypeInv, FilesOK
<1>1. CASE CopyStep
  <2>1. /\ Table \in Source
        /\ \/ \E c, status : /\ Checkpoint(Table, status, c)
                             /\ status = "table_completed" => c = RowCount
           \/ UNCHANGED ckpt
    BY <1>0, <1>1, CopyWrites DEF RecordedUpTo
  <2> QED BY <1>0, <2>1 DEF Checkpoint, CursorInv, Completed
<1>2. CASE ~CopyStep
  BY <1>2, OnlyCopiesRecord DEF CursorInv, Completed
<1> QED BY <1>1, <1>2

(* A table whose rows nobody copies loses rows or keeps them.              *)
LEMMA RowsShrink ==
  ASSUME FullAssumption, BasicInv, [Next]_vars, NEW t \in Source,
         CopyStep => Table # t
  PROVE  /\ rows'[t] = rows[t] \/ rows'[t] = {}
         /\ ckpt'[t] = ckpt[t]
<1>0. /\ TypeInv /\ PlanInv /\ ckpt \in [Source -> Checkpoints] /\ t \in AllTables
      /\ rows \in [AllTables -> SUBSET (0 .. RowCount)]
  BY DEF BasicInv, TypeInv, TargetOK, FilesOK, AllTables
<1>1. CASE CopyStep
  <2>1. /\ Table \in Source /\ Table # t
        /\ \E d : \/ Wrote(Table, d)
                  \/ rows' = [rows EXCEPT ![Table] = Written(Table, d)]
        /\ (\E c, status : Checkpoint(Table, status, c)) \/ UNCHANGED ckpt
    BY <1>0, <1>1, CopyWrites DEF RecordedUpTo
  <2> QED BY <1>0, <2>1 DEF Checkpoint, Wrote
<1>2. CASE ~CopyStep
  BY <1>0, <1>2, OtherSteps
<1> QED BY <1>1, <1>2

(* A command counts its faults from those before it began.                 *)
LEMMA SinceNext ==
  ASSUME FullAssumption, BasicInv, job.since <= faults, [Next]_vars
  PROVE  job'.since <= faults'
<1>1. TypeInv /\ PlanInv /\ job.since \in Nat /\ faults \in Nat
  BY DEF BasicInv, TypeInv, JobOK, Jobs, FilesOK, FullAssumption
<1>2. faults' = faults \/ faults' = faults + 1
  BY <1>1, FaultsGrow
<1>3. job'.since = job.since \/ job'.since = 0 \/ job'.since = faults
  <2>1. CASE UNCHANGED vars
    BY <2>1 DEF vars
  <2>2. CASE Next
    <3>1. CASE JobMoves
      <4>1. CASE SameJob
        BY <4>1 DEF SameJob
      <4>2. CASE Moved
        BY <4>2 DEF Moved
      <4>3. CASE job' = NoJob
        BY <4>3 DEF NoJob
      <4> QED BY <3>1, <4>1, <4>2, <4>3 DEF JobMoves, Ended
    <3>2. ASSUME NEW command \in Commands, NEW policy \in Policies, NEW scope \in Scopes,
                 Start(command, policy, scope)
          PROVE  job'.since = faults
      BY <1>1, <3>2, StartsWell
    <3> QED BY <1>1, <2>2, <3>1, <3>2, JobNext
  <2> QED BY <2>1, <2>2
<1> QED BY <1>1, <1>2, <1>3

LEMMA RowsByStart ==
  ASSUME FullAssumption, BasicInv,
         NEW command \in Commands, NEW policy \in Policies, NEW scope \in Scopes,
         Start(command, policy, scope), job'.since <= faults'
  PROVE  RowsInv'
<1>1. /\ job'.todo = << >> /\ job'.stage = Stage(command) /\ job'.command = command
      /\ job'.held = PartlyFilled /\ job'.tables \in SUBSET Source
      /\ UNCHANGED <<rows, ckpt>>
  BY StartsWell DEF BasicInv, Start, target
<1>2. job'.command = "full" => job'.stage = "apply-ddl"
  BY <1>1 DEF Stage
<1>3. \A t \in job'.tables : t \in job'.held \/ Completed(t)' \/ Fresh(t)'
  BY <1>1 DEF PartlyFilled, Completed, Fresh
<1> QED BY <1>1, <1>2, <1>3 DEF RowsInv, FillingRun, BeforeCopy

LEMMA RowsByEnd ==
  ASSUME job' = NoJob, job'.since <= faults'
  PROVE  RowsInv'
  BY DEF RowsInv, NoJob, FillingRun

LEMMA RowsByDdl ==
  ASSUME FullAssumption, BasicInv, RowsInv, Ddl, job'.since <= faults'
  PROVE  RowsInv'
<1>0. TypeInv /\ PlanInv /\ job.tables \subseteq Source /\ job \in Jobs
  BY DEF BasicInv, TypeInv, JobOK, Jobs
<1>1. job.stage = "apply-ddl"
  BY DdlSteps
<1>2. \A t \in job.tables : (rows'[t] = rows[t] \/ rows'[t] = {}) /\ ckpt'[t] = ckpt[t]
  <2>1. ~CopyStep
    BY <1>1 DEF CopyStep, CopyWhole, SyncWhole, CopyIsRefused, DeleteIsRefused, CopyFails,
                Copying, At
  <2> QED BY <1>0, <2>1, RowsShrink DEF Next
<1>3. FillingRun => \A t \in job.tables : t \in job.held \/ Completed(t)' \/ Fresh(t)'
  BY <1>1, <1>2 DEF RowsInv, Completed, Fresh
<1>4. CASE Ended(FALSE)
  BY <1>4, RowsByEnd DEF Ended
<1>5. CASE PlanDdl /\ PlannedWell
  <2> DEFINE items == Planned
  <2>1. /\ job'.todo = Append(items, Report) /\ job'.tables = job.tables /\ job'.held = job.held
        /\ job'.stage = "apply-ddl" /\ job'.policy = job.policy /\ job'.command = job.command
        /\ UNCHANGED <<rows, exists>>
    BY <1>5 DEF PlannedWell, SameJob, PlanDdl, At, target
  <2>2. /\ items \in Seq(JobItems)
        /\ \A t \in job.tables : \E i \in 1 .. Len(items) :
             items[i] = Item(t, ActionFor(t, job.policy))
    BY <1>0, DdlItemsFit DEF Planned
  <2> HIDE DEF items
  <2>3. Report \in JobItems
    BY DEF Report, Item, JobItems, Steps
  <2>4. ASSUME Reloads, NEW t \in job.tables PROVE rows[t] = {} \/ Ahead(t, Emptying)'
    <3>1. CASE t \notin exists
      BY <1>0, <3>1 DEF TypeInv, TargetOK, AllTables
    <3>2. CASE t \in exists
      <4>1. PICK i \in 1 .. Len(items) : items[i] = Item(t, ActionFor(t, job.policy))
        BY <2>2
      <4>2. items[i].table = t /\ items[i].action \in Emptying
        BY <2>4, <3>2, <4>1 DEF ActionFor, Reloads, Emptying, Item
      <4> QED BY <2>1, <2>2, <2>3, <4>2, AheadPlanned
    <3> QED BY <3>1, <3>2
  <2> QED BY <1>3, <2>1, <2>4 DEF RowsInv, FillingRun, Reloads, BeforeCopy
<1>6. ASSUME NEW action \in Steps, DdlStep(action) PROVE RowsInv'
  <2>1. /\ job.todo # << >> /\ Head(job.todo).action = action
        /\ action \in Emptying => Table \in AllTables
    BY <1>0, <1>6, DoingFits DEF DdlStep, DdlActions, AllTables, Emptying
  <2>2. /\ job'.stage = "apply-ddl" /\ job'.tables = job.tables /\ job'.held = job.held
        /\ job'.policy = job.policy /\ job'.command = job.command
    BY <1>1, <1>6 DEF DdlStep, WentOn, Turned, SameJob
  <2>3. ASSUME FillingRun, Reloads, NEW t \in job.tables PROVE rows'[t] = {} \/ Ahead(t, Emptying)'
    <3>1. CASE rows[t] = {}
      BY <1>2, <3>1
    <3>2. CASE t = Table /\ action \in Emptying
      <4>1. rows' = [rows EXCEPT ![Table] = {}]
        BY <1>6, <3>2 DEF DdlStep, Emptying
      <4>2. rows \in [AllTables -> SUBSET (0 .. RowCount)]
        BY <1>0 DEF TypeInv, TargetOK
      <4> QED BY <2>1, <3>2, <4>1, <4>2
    <3>3. CASE rows[t] # {} /\ ~(t = Table /\ action \in Emptying)
      <4>1. Ahead(t, Emptying)
        BY <1>1, <2>1, <2>3, <3>3 DEF RowsInv
      <4>2. CASE WentOn
        BY <2>1, <3>3, <4>1, <4>2, AheadGoesOn
      <4>3. CASE ~WentOn
        <5>1. PICK next : Turned(next)
          BY <1>6, <4>3 DEF DdlStep
        <5> QED BY <2>1, <3>3, <4>1, <5>1, AheadTurns
      <4> QED BY <4>2, <4>3
    <3> QED BY <3>1, <3>2, <3>3
  <2> QED BY <1>3, <2>2, <2>3 DEF RowsInv, FillingRun, Reloads, BeforeCopy
<1>7. CASE CloseAudit /\ Succeed
  <2>1. /\ job.todo # << >> /\ Len(job.todo) = 1 /\ job.todo \in Seq(JobItems)
        /\ Head(job.todo).action = "close_audit"
    BY <1>0, <1>7, DoingFits DEF CloseAudit, Ends
  <2>2. CASE Moved
    <3>1. /\ job'.tables = job.tables /\ job'.held = job.held /\ job'.stage = "pre-indexes"
          /\ job'.policy = job.policy /\ job'.command = job.command
      BY <1>1, <2>2 DEF Moved, NextStage
    <3>2. ASSUME FillingRun, Reloads, NEW t \in job.tables PROVE rows'[t] = {}
      <4>1. ~Ahead(t, Emptying)
        BY <2>1, NothingAhead DEF Emptying
      <4> QED BY <1>1, <1>2, <2>1, <3>2, <4>1 DEF RowsInv
    <3> QED BY <1>3, <3>1, <3>2 DEF RowsInv, FillingRun, Reloads, BeforeCopy
  <2>3. CASE Ended(TRUE)
    BY <2>3, RowsByEnd DEF Ended
  <2> QED BY <1>0, <1>7, <2>2, <2>3, SucceedWell
<1> QED BY <1>4, <1>5, <1>6, <1>7, DdlSteps

(* The copies that are planned find none of their rows.                    *)
LEMMA RowsByPlan ==
  ASSUME FullAssumption, BasicInv, RowsInv, PlanCopy, job'.since <= faults'
  PROVE  RowsInv'
<1>0. TypeInv /\ PlanInv /\ job.tables \subseteq Source /\ job \in Jobs
  BY DEF BasicInv, TypeInv, JobOK, Jobs
<1>1. CASE Ended(FALSE)
  BY <1>1, RowsByEnd DEF Ended
<1>2. CASE SameJob /\ job'.todo = Append(CopyPlan(Chosen), CopyEnd)
  <2> DEFINE items == CopyPlan(Chosen)
  <2>1. /\ job.todo = << >> /\ UNCHANGED <<rows, ckpt>> /\ job'.todo # << >>
        /\ job'.stage = job.stage /\ job'.policy = job.policy /\ job'.tables = job.tables
        /\ job'.command = job.command /\ job'.held = job.held
        /\ job.stage \in {"migrate-data", "resume"}
    <3>1. items \in Seq(JobItems) /\ CopyEnd \in JobItems
      BY <1>0, CopyPlanFits DEF Chosen, CopyEnd, Item, JobItems, Steps
    <3>2. job'.todo # << >>
      BY <1>2, <3>1, AppendOf
    <3> QED BY <1>2, <3>2 DEF SameJob, PlanCopy, target, files, At
  <2>2. /\ items \in Seq(JobItems) /\ CopyEnd \in JobItems /\ CopyEnd.action = "end"
        /\ \A i \in 1 .. Len(items) : items[i].table \in Chosen /\ ~Skipped(items[i].table)
        /\ \A i, j \in 1 .. Len(items) : items[i].table = items[j].table => i = j
    <3>1. Chosen \in SUBSET job.tables
      BY DEF Chosen
    <3> QED BY <1>0, <3>1, CopyPlanFits DEF CopyEnd, Item, JobItems, Steps
  <2> HIDE DEF items
  <2>3. /\ Append(items, CopyEnd)[Len(items) + 1] = CopyEnd /\ Len(items) \in Nat
        /\ Len(Append(items, CopyEnd)) = Len(items) + 1
        /\ \A i \in 1 .. Len(items) : Append(items, CopyEnd)[i] = items[i]
    BY <2>2, AppendOf, LenProperties
  <2>4. ASSUME NEW i \in 1 .. Len(job'.todo), job'.todo[i].action = "copy"
        PROVE  i \in 1 .. Len(items) /\ job'.todo[i] = items[i]
    <3>1. job'.todo = Append(items, CopyEnd)
      BY <1>2 DEF items
    <3>2. i = Len(items) + 1 \/ i \in 1 .. Len(items)
      BY <2>3, <3>1
    <3> QED BY <2>2, <2>3, <2>4, <3>1, <3>2
  <2>5. ASSUME FillingRun, job.stage = "migrate-data", NEW t \in job.tables, Ahead(t, {"copy"})'
        PROVE  job.policy = "sync" \/ Fresh(t) \/ Excused(t)
    <3>1. ~Skipped(t)
      BY <2>2, <2>4, <2>5 DEF Ahead
    <3>2. t \in job.held \/ Completed(t) \/ Fresh(t)
      BY <2>1, <2>5 DEF RowsInv, BeforeCopy
    <3>3. CASE Completed(t) /\ job.policy # "sync"
      <4>1. ~(Cardinality(rows[t]) > 0)
        BY <2>5, <3>1, <3>3 DEF Skipped, Counted, At, FillingRun
      <4>2. IsFiniteSet(rows[t])
        <5>1. rows[t] \subseteq 0 .. RowCount /\ RowCount \in Nat
          BY <1>0 DEF TypeInv, TargetOK, AllTables, FullAssumption
        <5>2. IsFiniteSet(0 .. RowCount)
          BY <5>1, FS_Interval, 0 \in Int, RowCount \in Int
        <5> QED BY <5>1, <5>2, FS_Subset
      <4>3. rows[t] = {}
        BY <4>1, <4>2, FS_EmptySet, FS_CardinalityType
      <4> QED BY <4>3 DEF Fresh
    <3>4. CASE t \in job.held /\ job.policy \notin {"sync", "skip"}
      <4>1. Reloads
        BY <1>0, <2>5, <3>4 DEF FillingRun, Reloads, Jobs, PolicyNames
      <4> QED BY <2>1, <2>5, <4>1 DEF RowsInv, BeforeCopy, Fresh
    <3> QED BY <3>2, <3>3, <3>4 DEF Excused
  <2>6. \A i, j \in 1 .. Len(job'.todo) :
          /\ job'.todo[i].action = "copy" /\ job'.todo[j].action = "copy"
          /\ job'.todo[i].table = job'.todo[j].table
          => i = j
    BY <2>2, <2>4
  <2>7. FillingRun' => FillingRun
    BY <2>1 DEF FillingRun
  <2>8. \A t \in job.tables : /\ Fresh(t) => Fresh(t)'
                              /\ Excused(t) => Excused(t)'
    BY <2>1 DEF Fresh, Excused
  <2>9. FillingRun' => job'.stage = "migrate-data" /\ job'.todo # << >>
    BY <1>0, <2>1 DEF FillingRun, TypeInv, JobOK, NextStage
  <2> QED BY <2>1, <2>5, <2>6, <2>7, <2>8, <2>9 DEF RowsInv, BeforeCopy
<1> QED BY <1>0, <1>1, <1>2, PlanCopyWell

(* A copy that is done leaves the others as they were planned.             *)
LEMMA CopyMoves ==
  ASSUME FullAssumption, BasicInv, CopyStep
  PROVE  /\ job.stage \in {"migrate-data", "resume"} /\ job.todo # << >>
         /\ job.todo \in Seq(JobItems) /\ Head(job.todo) = Item(Table, "copy")
         /\ Table \in job.tables /\ Table \in Source
         /\ Ended(FALSE) \/ (WentOn /\ outcome' = outcome)
<1>1. /\ Copying("copy") /\ (Advance(FALSE) \/ Finish(FALSE)) /\ UNCHANGED <<safety, dryRun>>
  BY DEF CopyStep, CopyWhole, SyncWhole, CopyIsRefused, DeleteIsRefused, CopyFails, KeepDdl, env
<1>2. /\ job.stage \in {"migrate-data", "resume"} /\ job.todo # << >>
      /\ job.todo \in Seq(JobItems) /\ Head(job.todo) = Item(Table, "copy")
      /\ Table \in job.tables /\ Table \in Source /\ Head(job.todo).action \notin Ends
  BY <1>1, CopyingFits DEF BasicInv, Ends
<1> QED BY <1>1, <1>2, AdvanceWell, FinishWell DEF BasicInv

LEMMA RowsByCopy ==
  ASSUME FullAssumption, BasicInv, RowsInv, [Next]_vars, CopyStep, job'.since <= faults'
  PROVE  RowsInv'
<1>0. TypeInv /\ PlanInv /\ job.tables \subseteq Source /\ JobOK
  BY DEF BasicInv, TypeInv, JobOK, Jobs
<1>1. CASE Ended(FALSE)
  BY <1>1, RowsByEnd DEF Ended
<1>2. CASE WentOn
  <2>1. /\ job'.stage = job.stage /\ job'.policy = job.policy /\ job'.tables = job.tables
        /\ job'.command = job.command /\ job'.held = job.held
        /\ job'.todo = Tail(job.todo) /\ job'.todo # << >>
        /\ job.stage \in {"migrate-data", "resume"} /\ job.todo # << >>
        /\ job.todo \in Seq(JobItems) /\ Head(job.todo) = Item(Table, "copy")
        /\ Table \in job.tables
    BY <1>2, CopyMoves DEF WentOn, SameJob
  <2>2. /\ Head(job.todo) = job.todo[1] /\ 1 \in 1 .. Len(job.todo)
        /\ Tail(job.todo) \in Seq(JobItems)
        /\ \A i \in 1 .. Len(Tail(job.todo)) :
             i + 1 \in 1 .. Len(job.todo) /\ Tail(job.todo)[i] = job.todo[i + 1]
    BY <2>1, TailOf
  <2>3. \A i, j \in 1 .. Len(job'.todo) : i \in Nat /\ j \in Nat
    <3>1. Len(Tail(job.todo)) \in Nat
      BY <2>2, LenProperties
    <3> QED BY <2>1, <3>1
  <2>4. ASSUME FillingRun, job.stage = "migrate-data",
               NEW i \in 1 .. Len(job'.todo), NEW j \in 1 .. Len(job'.todo),
               job'.todo[i].action = "copy", job'.todo[j].action = "copy",
               job'.todo[i].table = job'.todo[j].table
        PROVE  i = j
    <3>1. i + 1 = j + 1
      BY <2>1, <2>2, <2>4 DEF RowsInv
    <3> QED BY <2>3, <3>1
  <2>5. ASSUME FillingRun, job.stage = "migrate-data", NEW t \in job.tables, Ahead(t, {"copy"})'
        PROVE  job.policy = "sync" \/ Fresh(t)' \/ Excused(t)
    <3>1. PICK i \in 1 .. Len(job'.todo) : job'.todo[i].table = t /\ job'.todo[i].action = "copy"
      BY <2>5 DEF Ahead
    <3>2. /\ i + 1 \in 1 .. Len(job.todo) /\ job.todo[i + 1].table = t
          /\ job.todo[i + 1].action = "copy" /\ i + 1 # 1
      BY <2>1, <2>2, <2>3, <3>1
    <3>3. t # Table
      <4>1. job.todo[1].action = "copy" /\ job.todo[1].table = Table
        BY <2>1, <2>2 DEF Item
      <4> QED BY <2>2, <2>5, <3>2, <4>1 DEF RowsInv
    <3>4. Ahead(t, {"copy"})
      BY <3>2 DEF Ahead
    <3>5. rows'[t] = rows[t] \/ rows'[t] = {}
      BY <1>0, <2>5, <3>3, RowsShrink
    <3> QED BY <2>5, <3>4, <3>5 DEF RowsInv, Fresh
  <2>6. FillingRun' => FillingRun /\ job.stage = "migrate-data"
    BY <1>0, <2>1 DEF FillingRun, JobOK, NextStage
  <2>7. \A t : Excused(t) => Excused(t)'
    BY <2>1 DEF Excused
  <2> QED BY <2>1, <2>4, <2>5, <2>6, <2>7 DEF RowsInv, BeforeCopy
<1> QED BY <1>1, <1>2, CopyMoves

LEMMA RowsNext ==
  ASSUME FullAssumption, BasicInv, RowsInv, [Next]_vars
  PROVE  RowsInv'
<1>0. TypeInv /\ PlanInv /\ JobOK /\ job'.since <= faults'
  BY SinceNext DEF BasicInv, TypeInv, RowsInv
<1>1. CASE UNCHANGED vars \/ RunDryRun
  <2>1. UNCHANGED <<job, rows, ckpt, faults>>
    BY <1>1 DEF vars, target, files, RunDryRun
  <2> QED BY <2>1 DEF RowsInv, FillingRun, BeforeCopy, Reloads, Completed, Fresh, Excused, Ahead
<1>2. ASSUME NEW command \in Commands, NEW policy \in Policies, NEW scope \in Scopes,
             Start(command, policy, scope)
      PROVE  RowsInv'
  BY <1>0, <1>2, RowsByStart
<1>3. CASE EndCopy \/ Apply
  <2>1. Succeed \/ Finish(FALSE)
    BY <1>3 DEF EndCopy, Apply, ApplyPreIndexes, ApplyForeignKeys, ApplyIndexes
  <2>2. CASE Moved
    <3>1. /\ job'.todo = << >> /\ job'.stage = NextStage[job.stage] /\ job.stage \in DOMAIN NextStage
          /\ job'.policy = job.policy /\ job'.tables = job.tables /\ job'.held = job.held
          /\ job.command = "full" /\ job'.command = "full"
      BY <2>2 DEF Moved
    <3>2. job.stage # "apply-ddl"
      BY <1>3 DEF EndCopy, Apply, ApplyPreIndexes, ApplyForeignKeys, ApplyIndexes, Copying, At
    <3>3. /\ job'.stage # "apply-ddl"
          /\ BeforeCopy' => job.stage = "pre-indexes"
          /\ Len(job'.todo) = 0
      BY <3>1, <3>2 DEF NextStage, BeforeCopy
    <3>4. BeforeCopy' => UNCHANGED <<rows, ckpt>>
      BY <1>3, <3>3 DEF EndCopy, Apply, ApplyPreIndexes, ApplyForeignKeys, ApplyIndexes, Copying,
                        At, target, files
    <3>5. BeforeCopy' /\ FillingRun' => BeforeCopy /\ FillingRun
      BY <3>1, <3>3 DEF BeforeCopy, FillingRun
    <3>6. \A t : ~Ahead(t, {"copy"})'
      BY <3>3 DEF Ahead
    <3>7. BeforeCopy' /\ FillingRun' =>
            \A t \in job'.tables : /\ t \in job'.held \/ Completed(t)' \/ Fresh(t)'
                                   /\ Reloads' => rows'[t] = {}
      BY <3>1, <3>4, <3>5 DEF RowsInv, Completed, Fresh, Reloads
    <3> QED BY <1>0, <3>3, <3>6, <3>7 DEF RowsInv
  <2>3. CASE Ended(TRUE) \/ Ended(FALSE)
    BY <1>0, <2>3, RowsByEnd DEF Ended
  <2> QED BY <1>0, <2>1, <2>2, <2>3, FinishWell, SucceedWell
<1>4. CASE Crash
  BY <1>0, <1>4, RowsByEnd DEF Crash, Finish
<1> QED
  BY <1>0, <1>1, <1>2, <1>3, <1>4, RowsByDdl, RowsByPlan, RowsByCopy
     DEF Next, Operate, Copy, CopyStep

(* A command that fails says nothing of rows.                              *)
LEMMA FailedFillsNothing ==
  ASSUME Ended(FALSE)
  PROVE  FilledInv'
  BY DEF Ended, FilledInv, Fills, FillingRun, NoJob

LEMMA FilledByDdl ==
  ASSUME FullAssumption, BasicInv, Ddl
  PROVE  FilledInv'
<1>1. job.stage = "apply-ddl"
  BY DdlSteps
<1>2. CASE job'.stage = "apply-ddl"
  BY <1>2 DEF FilledInv, NoJob
<1>3. CASE Ended(FALSE)
  BY <1>3, FailedFillsNothing
<1>4. CASE Succeed
  <2>1. CASE Moved
    <3>1. job'.stage = "pre-indexes"
      BY <1>1, <2>1 DEF Moved, NextStage
    <3> QED BY <3>1 DEF FilledInv, NoJob
  <2>2. CASE Ended(TRUE) /\ (job.command = "full" => job.stage = "apply-indexes")
    <3>1. job' = NoJob /\ outcome'.command # "full"
      BY <1>1, <2>2 DEF Ended
    <3> QED BY <3>1 DEF FilledInv, Fills, FillingRun, NoJob
  <2> QED BY <1>4, <2>1, <2>2, SucceedWell DEF BasicInv
<1>5. ASSUME NEW action, DdlStep(action) PROVE job'.stage = "apply-ddl"
  BY <1>1, <1>5 DEF DdlStep, WentOn, Turned, SameJob
<1>6. PlannedWell => job'.stage = "apply-ddl"
  BY <1>1 DEF PlannedWell, SameJob
<1> QED BY <1>2, <1>3, <1>4, <1>5, <1>6, DdlSteps

(* The copy has an item for every table that is not filled already.        *)
LEMMA FilledByPlan ==
  ASSUME FullAssumption, BasicInv, CursorInv, PlanCopy
  PROVE  FilledInv'
<1>0. TypeInv
  BY DEF BasicInv
<1>1. CASE Ended(FALSE)
  BY <1>1, FailedFillsNothing
<1>2. CASE SameJob /\ job'.todo = Append(CopyPlan(Chosen), CopyEnd)
  <2>1. job.stage \in {"migrate-data", "resume"} /\ UNCHANGED <<rows, fks, ckpt, faults>>
    BY DEF PlanCopy, At, target, files
  <2>2. job'.stage = job.stage /\ job'.policy = job.policy /\ job'.tables = job.tables
        /\ job'.command = job.command
    BY <1>2 DEF SameJob
  <2>3. ASSUME job.stage = "migrate-data", FillingRun, NEW t \in job.tables
        PROVE  Filled(t)' \/ Ahead(t, {"copy"})'
    <3>1. t \in Source /\ Chosen \in SUBSET job.tables /\ t \in Chosen
      BY <1>0, <2>3 DEF Chosen, IncludesDml, TypeInv, JobOK, Jobs, FillingRun
    <3>2. CASE Skipped(t)
      <4>1. Completed(t)
        BY <2>3, <3>2 DEF Skipped, Counted, At, FillingRun
      <4>2. ckpt[t].cursor = RowCount
        BY <3>1, <4>1 DEF CursorInv
      <4> QED BY <2>1, <4>2 DEF Filled, Covered, NewRows
    <3>3. CASE ~Skipped(t)
      <4>1. /\ CopyPlan(Chosen) \in Seq(JobItems)
            /\ \E i \in 1 .. Len(CopyPlan(Chosen)) : CopyPlan(Chosen)[i] = Item(t, "copy")
        BY <1>0, <3>1, <3>3, CopyPlanFits
      <4>2. CopyEnd \in JobItems
        BY DEF CopyEnd, Item, JobItems, Steps
      <4> DEFINE items == CopyPlan(Chosen)
      <4> HIDE DEF items
      <4>3. PICK i \in 1 .. Len(items) : items[i] = Item(t, "copy")
        BY <4>1 DEF items
      <4>4. items \in Seq(JobItems) /\ job'.todo = Append(items, CopyEnd)
        BY <1>2, <4>1 DEF items
      <4>5. items[i].table = t /\ items[i].action \in {"copy"}
        BY <4>3 DEF Item
      <4> QED BY <4>2, <4>4, <4>5, AheadPlanned
    <3> QED BY <3>2, <3>3
  <2>4. Fills' => FillingRun
    BY <2>2 DEF Fills, FillingRun
  <2> QED BY <2>1, <2>2, <2>3, <2>4 DEF FilledInv, NoJob
<1> QED BY <1>0, <1>1, <1>2, PlanCopyWell

(* A run that has met no fault so far is without one in this step.         *)
LEMMA FillsBefore ==
  ASSUME FullAssumption, BasicInv, job.since <= faults, [Next]_vars, faults' = job.since
  PROVE  faults = job.since /\ faults' = faults
<1>1. job.since \in Nat /\ faults \in Nat /\ (faults' = faults \/ faults' = faults + 1)
  BY FaultsGrow DEF BasicInv, TypeInv, JobOK, Jobs, FilesOK, FullAssumption
<1> QED BY <1>1

(* The copy of a table without foreign keys, without a fault: no row of    *)
(* the source is there, so none is refused.                                *)
LEMMA CopyFills ==
  ASSUME FullAssumption, BasicInv, CopyStep, faults' = faults, job.stage = "migrate-data",
         Table \in exists, fks[Table] = {}, job.policy = "sync" \/ Fresh(Table)
  PROVE  Finish(FALSE) \/ NewRows \subseteq rows'[Table]
<1>0. /\ TypeInv /\ PlanInv /\ Table \in Source /\ Table \in AllTables
      /\ rows \in [AllTables -> SUBSET (0 .. RowCount)] /\ RowCount \in Nat /\ faults \in Nat
  <2>1. Table \in Source
    BY CopyMoves
  <2> QED BY <2>1 DEF BasicInv, TypeInv, TargetOK, AllTables, FilesOK, FullAssumption
<1>1. StartRow(Table) = 0
  BY DEF StartRow, At
<1>2. Written(Table, RowCount) = NewRows
  BY <1>1 DEF Written, NewRows
<1>3. CASE CopyWhole \/ SyncWhole
  <2>1. CASE CopyWhole
    <3>1. rows' = [rows EXCEPT ![Table] = @ \cup NewRows]
      BY <1>2, <2>1 DEF CopyWhole
    <3> QED BY <1>0, <3>1
  <2>2. CASE SyncWhole
    <3>1. rows' = [rows EXCEPT ![Table] = NewRows]
      BY <1>2, <2>2 DEF SyncWhole
    <3> QED BY <1>0, <3>1
  <2> QED BY <1>3, <2>1, <2>2
<1>4. CASE CopyIsRefused
  <2>1. PICK w \in 0 .. RowCount - 1 : ~Writable(Table, w + 1)
    BY <1>1, <1>4 DEF CopyIsRefused
  <2>2. w + 1 \in NewRows
    BY <1>0 DEF NewRows
  <2>3. Writable(Table, w + 1)
    BY <2>2 DEF Writable, Fresh
  <2> QED BY <2>1, <2>3
<1>5. CASE DeleteIsRefused
  BY <1>5 DEF DeleteIsRefused
<1>6. ~CopyFails
  <2>1. CopyFails => faults' = faults + 1
    BY DEF CopyFails, Fault
  <2>2. faults' = faults /\ faults \in Nat
    BY <1>0
  <2> QED BY <2>1, <2>2
<1> QED BY <1>3, <1>4, <1>5, <1>6 DEF CopyStep

LEMMA FilledByCopy ==
  ASSUME FullAssumption, BasicInv, ExistsInv, RowsInv, FilledInv, [Next]_vars, CopyStep
  PROVE  FilledInv'
<1>0. TypeInv /\ PlanInv /\ JobOK /\ job.tables \subseteq Source
  BY DEF BasicInv, TypeInv, JobOK, Jobs
<1>1. fks' = fks
  BY <1>0, CopyWrites
<1>2. /\ job.stage \in {"migrate-data", "resume"} /\ job.todo # << >>
      /\ Head(job.todo) = Item(Table, "copy") /\ Head(job.todo) = job.todo[1]
      /\ 1 \in 1 .. Len(job.todo) /\ Table \in job.tables
  BY CopyMoves, TailOf
<1>3. CASE Ended(FALSE)
  BY <1>3, FailedFillsNothing
<1>4. CASE WentOn /\ outcome' = outcome
  <2>1. /\ job'.stage = job.stage /\ job'.command = job.command /\ job'.policy = job.policy
        /\ job'.tables = job.tables /\ job'.since = job.since /\ job'.held = job.held
        /\ job'.todo # << >> /\ job' # NoJob
    BY <1>2, <1>4 DEF WentOn, SameJob, NoJob
  <2>2. ASSUME Fills', job.stage = "migrate-data", NEW t \in job.tables
        PROVE  Filled(t)' \/ Excused(t)' \/ Ahead(t, {"copy"})'
    <3>1. Fills /\ faults' = faults
      BY <1>0, <2>1, <2>2, FillsBefore DEF Fills, FillingRun, RowsInv
    <3>2. CASE t = Table
      <4>1. Table \in exists
        BY <1>2, <2>2, <3>1 DEF ExistsInv, Fills, FillingRun
      <4>2. CASE fks[Table] # {}
        BY <1>1, <3>2, <4>2 DEF Filled
      <4>3. CASE Excused(Table)
        BY <2>1, <3>2, <4>3 DEF Excused
      <4>4. CASE fks[Table] = {} /\ ~Excused(Table)
        <5>1. Ahead(Table, {"copy"})
          BY <1>2 DEF Ahead, Item
        <5>2. job.policy = "sync" \/ Fresh(Table)
          BY <1>2, <2>2, <3>1, <4>4, <5>1 DEF RowsInv, Fills
        <5>3. ~Finish(FALSE)
          BY <2>1 DEF Finish
        <5>4. NewRows \subseteq rows'[Table]
          BY <2>2, <3>1, <4>1, <4>4, <5>2, <5>3, CopyFills
        <5> QED BY <3>2, <5>4 DEF Filled
      <4> QED BY <4>2, <4>3, <4>4
    <3>3. CASE t # Table
      <4>1. rows'[t] = rows[t] \/ rows'[t] = {}
        BY <1>0, <3>3, RowsShrink
      <4>2. ckpt'[t] = ckpt[t]
        BY <1>0, <3>3, RowsShrink
      <4>3. rows'[t] = rows[t]
        <5>1. /\ Table \in Source
              /\ \E d : \/ Wrote(Table, d)
                        \/ rows' = [rows EXCEPT ![Table] = Written(Table, d)]
          BY <1>0, CopyWrites
        <5>2. rows \in [AllTables -> SUBSET (0 .. RowCount)] /\ t \in AllTables
          BY <1>0 DEF TypeInv, TargetOK, AllTables
        <5> QED BY <3>3, <5>1, <5>2 DEF Wrote
      <4>4. Filled(t) => Filled(t)'
        BY <1>1, <4>2, <4>3 DEF Filled, Covered
      <4>5. Excused(t) => Excused(t)'
        BY <2>1 DEF Excused
      <4>6. Ahead(t, {"copy"}) => Ahead(t, {"copy"})'
        BY <1>2, <1>4, <3>3, AheadGoesOn
      <4>7. Filled(t) \/ Excused(t) \/ Ahead(t, {"copy"})
        BY <1>2, <2>2, <3>1 DEF FilledInv
      <4> QED BY <4>4, <4>5, <4>6, <4>7
    <3> QED BY <3>2, <3>3
  <2>3. job'.stage \notin {"apply-foreign-keys", "apply-indexes"}
    BY <1>2, <2>1
  <2> QED BY <2>1, <2>2, <2>3 DEF FilledInv
<1> QED BY <1>3, <1>4, CopyMoves

(* The last steps of the sequence keep what the copy filled.               *)
LEMMA FilledToTheEnd ==
  ASSUME FullAssumption, BasicInv, FilledInv, EndCopy \/ Apply
  PROVE  FilledInv'
<1>0. TypeInv /\ PlanInv /\ JobOK
  BY DEF BasicInv, TypeInv
<1>1. /\ Succeed \/ Finish(FALSE)
      /\ UNCHANGED <<rows, ckpt, faults>>
  BY DEF EndCopy, Apply, ApplyPreIndexes, ApplyForeignKeys, ApplyIndexes, target, files
<1>2. fks' = fks
  <2>1. CASE ApplyForeignKeys
    BY <1>0, <2>1, NothingToAdd
  <2>2. CASE ~ApplyForeignKeys
    BY <2>2 DEF EndCopy, Apply, ApplyPreIndexes, ApplyIndexes, target
  <2> QED BY <2>1, <2>2
<1>3. ASSUME NEW t PROVE Filled(t) => Filled(t)'
  BY <1>1, <1>2 DEF Filled, Covered
<1>4. job.stage \in {"pre-indexes", "migrate-data", "resume", "apply-foreign-keys", "apply-indexes"}
  BY DEF EndCopy, Apply, ApplyPreIndexes, ApplyForeignKeys, ApplyIndexes, Copying, At
<1>5. ASSUME Fills, job.stage \in {"migrate-data", "apply-foreign-keys", "apply-indexes"},
             NEW t \in job.tables
      PROVE  Filled(t) \/ Excused(t)
  <2>1. CASE job.stage = "migrate-data"
    <3>1. EndCopy
      BY <2>1 DEF Apply, ApplyPreIndexes, ApplyForeignKeys, ApplyIndexes, At
    <3>2. /\ job.todo # << >> /\ Len(job.todo) = 1 /\ job.todo \in Seq(JobItems)
          /\ Head(job.todo).action = "end"
      BY <1>0, <3>1, CopyingFits DEF EndCopy, Ends
    <3>3. ~Ahead(t, {"copy"})
      BY <3>2, NothingAhead
    <3> QED BY <1>5, <2>1, <3>2, <3>3 DEF FilledInv
  <2>2. CASE job.stage # "migrate-data"
    BY <1>5, <2>2 DEF FilledInv
  <2> QED BY <2>1, <2>2
<1>6. CASE Finish(FALSE)
  BY <1>6, FinishWell, FailedFillsNothing
<1>7. CASE Moved
  <2>1. /\ job'.todo = << >> /\ job.command = "full" /\ job'.command = "full"
        /\ job'.policy = job.policy /\ job'.since = job.since /\ job'.held = job.held
        /\ job'.tables = job.tables /\ job'.stage = NextStage[job.stage]
        /\ job.stage \in DOMAIN NextStage
    BY <1>7 DEF Moved
  <2>2. /\ job'.stage # "none"
        /\ job'.stage \in {"apply-foreign-keys", "apply-indexes"} =>
             job.stage \in {"migrate-data", "apply-foreign-keys"}
    BY <2>1 DEF NextStage
  <2>3. Fills' => Fills
    BY <1>1, <2>1 DEF Fills, FillingRun
  <2>4. job' # NoJob
    BY <2>2 DEF NoJob
  <2>5. \A t : Excused(t) => Excused(t)'
    BY <2>1 DEF Excused
  <2> QED BY <1>3, <1>5, <2>1, <2>2, <2>3, <2>4, <2>5 DEF FilledInv
<1>8. CASE Ended(TRUE) /\ (job.command = "full" => job.stage = "apply-indexes")
  <2>1. /\ job' = NoJob /\ outcome'.command = job.command /\ outcome'.policy = job.policy
        /\ outcome'.tables = job.tables /\ outcome'.since = job.since /\ outcome'.held = job.held
    BY <1>8 DEF Ended
  <2>2. job'.command = "none"
    BY <2>1 DEF NoJob
  <2>3. ASSUME outcome'.command = "full", faults' = outcome'.since,
               outcome'.policy \notin {"append", "compare_only"}, NEW t \in outcome'.tables
        PROVE  Filled(t)' \/ (outcome'.policy = "skip" /\ t \in outcome'.held)
    <3>1. Fills /\ job.stage = "apply-indexes"
      BY <1>1, <1>8, <2>1, <2>3 DEF Fills, FillingRun
    <3> QED BY <1>3, <1>5, <2>1, <2>3, <3>1 DEF Excused
  <2> QED BY <2>2, <2>3 DEF FilledInv, Fills, FillingRun
<1> QED BY <1>0, <1>1, <1>6, <1>7, <1>8, SucceedWell

LEMMA FilledNext ==
  ASSUME FullAssumption, BasicInv, ExistsInv, CursorInv, RowsInv, FilledInv, [Next]_vars
  PROVE  FilledInv'
<1>0. TypeInv
  BY DEF BasicInv
<1>1. CASE UNCHANGED vars \/ RunDryRun
  <2>1. UNCHANGED <<job, outcome, rows, fks, ckpt, faults>>
    BY <1>1 DEF vars, target, files, RunDryRun
  <2> QED BY <2>1 DEF FilledInv, Fills, FillingRun, Filled, Covered, Excused, Ahead
<1>2. ASSUME NEW command \in Commands, NEW policy \in Policies, NEW scope \in Scopes,
             Start(command, policy, scope)
      PROVE  FilledInv'
  <2>1. /\ job'.todo = << >> /\ job'.command = command /\ job'.stage = Stage(command)
        /\ ~outcome'.success
    BY <1>0, <1>2, StartsWell DEF Start, NoOutcome
  <2>2. command = "full" => job'.stage = "apply-ddl"
    BY <2>1 DEF Stage
  <2> QED BY <2>1, <2>2 DEF FilledInv, Fills, FillingRun
<1>3. CASE Crash
  BY <1>3, FinishWell, FailedFillsNothing DEF Crash
<1> QED
  BY <1>1, <1>2, <1>3, FilledByDdl, FilledByPlan, FilledByCopy, FilledToTheEnd
     DEF Next, Operate, Copy, CopyStep

(* A command that reports success did its work: apply-ddl left every       *)
(* selected table in place, and a full run that met no fault itself filled *)
(* them, whatever the target had, the policy, and the faults of the runs   *)
(* before it, but for a policy that leaves tables out, a table that an     *)
(* earlier run filled in part under skip, a reload behind a checkpoint and *)
(* foreign keys of the target that refuse rows.                            *)
THEOREM SuccessIsTrue == Spec => []SuccessLeavesTables
<1> DEFINE IInv == BasicInv /\ ExistsInv /\ CursorInv /\ RowsInv /\ FilledInv
<1>1. Init => IInv
  <2> SUFFICES ASSUME Init PROVE IInv
    OBVIOUS
  <2>1. BasicInv
    BY FullAssumption, InitTypes DEF BasicInv
  <2>2. /\ job.command = "none" /\ job.stage = "none" /\ ~outcome.success
        /\ job.since <= faults
    BY DEF Init, NoJob, NoOutcome
  <2>3. ExistsInv /\ FilledInv /\ RowsInv
    BY <2>2 DEF ExistsInv, FilledInv, RowsInv, Fills, FillingRun
  <2>4. CursorInv
    BY DEF Init, CursorInv, Completed, NoCheckpoint
  <2> QED BY <2>1, <2>3, <2>4
<1>2. IInv /\ [Next]_vars => IInv'
  BY FullAssumption, BasicNext, ExistsNext, CursorNext, RowsNext, FilledNext
<1>3. IInv => SuccessLeavesTables
  BY DEF SuccessLeavesTables, ExistsInv, FilledInv, Filled
<1> QED BY <1>1, <1>2, <1>3, PTL DEF Spec

=============================================================================
