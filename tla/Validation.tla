----------------------------- MODULE Validation -----------------------------
(***************************************************************************)
(* `validate` (service.run_validate, core/validation.py): one table is     *)
(* counted and sampled on both servers, statement by statement, and the    *)
(* report merges that with the comparison of the schema objects and with   *)
(* what earlier commands recorded.  Meanwhile other clients write and      *)
(* connections break; the validation connection of an adapter is reused    *)
(* and, on PostgreSQL, a statement is retried.                             *)
(***************************************************************************)
EXTENDS Integers, Sequences, FiniteSets, SequencesExt

CONSTANTS
  Contents,      \* contents of a table: functions from its keys to cells
  Requests,       \* what is fixed for a command
  SampleSize,    \* checksum_sample_size
  MaxLosses,     \* bound: connections lost
  MaxWrites      \* bound: writes of other clients to the target

(* keyed: the table has a primary key; order: that of the target's keys;   *)
(* unwritten: the column plan leaves a target column unwritten; renamed:   *)
(* the columns it renames; kind: the type of the cells; row_count,         *)
(* checksum and precision: the verification section; zone: it names, as    *)
(* checksum_timezone, the zone of the values without one.                  *)
ASSUME ValidationAssumption ==
  /\ SampleSize \in Nat /\ MaxLosses \in Nat /\ MaxWrites \in Nat
  /\ \A c \in Contents : IsFiniteSet(DOMAIN c) /\ DOMAIN c \subseteq Nat \ {0}
  /\ \A c \in Requests :
       /\ {c.keyed, c.unwritten, c.row_count, c.checksum, c.zone} \subseteq BOOLEAN
       /\ c.renamed \subseteq {"key", "cell"}
       /\ c.kind \in {"timestamp", "timestamptz", "time", "json", "boolean"}
       /\ c.precision \in {"seconds", "microseconds"}
       /\ {c.dbms.source, c.dbms.target} \subseteq {"postgresql", "mysql"}
       /\ c.order \in Seq(Nat) /\ \A i, j \in DOMAIN c.order : c.order[i] = c.order[j] => i = j
       /\ \A f \in Contents : DOMAIN f \subseteq ToSet(c.order)

VARIABLES
  rows,      \* the contents of the table on both servers; NoRows: it does not exist
  choice,    \* what is fixed for this command
  artifacts, \* whether the loaded report files recorded a failure
  objects,   \* the statuses of the compared schema objects
  link,      \* the validation connections: "none", "open" or "broken"
  attempt,   \* the attempt at the current statement
  got,       \* the answers so far
  verdict,   \* of the parts, and of the report
  losses,    \* history: the sides whose connection was lost, one by one
  foreign    \* history: writes of other clients

valVars == <<rows, choice, artifacts, objects, link, attempt, got, verdict, losses, foreign>>

NoRows == [k \in {0} |-> "absent"]
Attempts == 3   \* _POSTGRES_VALIDATION_MAX_ATTEMPTS

(* The statements of one table, in the order of the code.                  *)
Query(what, side) == [what |-> what, side |-> side]
Counts == <<Query("count", "source"), Query("count", "target")>>
Samples == <<Query("first", "source"), Query("last", "source"),
             Query("first", "target"), Query("last", "target")>>

Part(i) == IF i <= Len(Counts) THEN "row_count" ELSE "checksum"
Queries == Counts \o Samples

-----------------------------------------------------------------------------
(* The answers: order by the primary key, or else by all columns, of which *)
(* the key of a row is the first.  Ranks stand for the sort of the server. *)
KeyBefore(side, k, l) ==
  IF side = "source" THEN k < l
  ELSE \E i, j \in DOMAIN choice.order : i < j /\ choice.order[i] = k /\ choice.order[j] = l

SortedKeys(side) ==
  LET keys == DOMAIN rows[side]
  IN  [i \in 1 .. Cardinality(keys) |->
         CHOOSE k \in keys : Cardinality({l \in keys : KeyBefore(side, l, k)}) = i - 1]

(* A cell with the precision of seconds.                                   *)
NormalizedCell(v) ==
  IF choice.precision = "seconds" /\ v = "fraction" /\ choice.kind \in {"timestamp", "timestamptz"}
  THEN "second" ELSE v

(* Values that the two drivers return in forms the normalization leaves    *)
(* apart: parsed JSON and its text, a time of day and a timedelta, a       *)
(* timestamp with its offset and one without; and booleans of a renamed    *)
(* column, which are looked for under the source's name.                   *)
FormsDiffer ==
  /\ choice.dbms.source # choice.dbms.target
  /\ \/ choice.kind \in {"json", "time"}
     \/ choice.kind = "timestamptz" /\ ~choice.zone
     \/ choice.kind = "boolean" /\ "cell" \in choice.renamed

Form(side, v) == IF FormsDiffer /\ v # "null" THEN choice.dbms[side] ELSE "alike"

(* The source is read through the column plan, transform_row; the target   *)
(* with all its columns, of which the plan may leave one unwritten.        *)
ColumnsOf(side) ==
  IF side = "target" /\ choice.unwritten THEN {"key", "cell", "own"} ELSE {"key", "cell"}

(* Mutant: the values of the target are compared as they come.             *)
ShownRaw(side, k) ==
  [key |-> k, cell |-> IF side = "source" THEN NormalizedCell(rows[side][k]) ELSE rows[side][k],
   form |-> Form(side, rows[side][k]), columns |-> ColumnsOf(side)]

Shown(side, k) ==
  [key |-> k, cell |-> NormalizedCell(rows[side][k]), form |-> Form(side, rows[side][k]),
   columns |-> ColumnsOf(side)]

(* Mutant: the order of the last sample is not reversed.                   *)
SampleRowsForward(side, position) ==
  LET n == IF SampleSize < Len(SortedKeys(side)) THEN SampleSize ELSE Len(SortedKeys(side))
  IN  [i \in 1 .. n |-> Shown(side, SortedKeys(side)[i])]

(* sample_rows: as many rows as asked for, from either end.                *)
SampleRows(side, position) ==
  LET keys == IF position = "first" THEN SortedKeys(side) ELSE Reverse(SortedKeys(side))
      n == IF SampleSize < Len(keys) THEN SampleSize ELSE Len(keys)
  IN  [i \in 1 .. n |-> Shown(side, keys[i])]

Answer(q) ==
  IF q.what = "count" THEN Cardinality(DOMAIN rows[q.side]) ELSE SampleRows(q.side, q.what)

(* _combined_sample_rows and _rows_for_checksum: one after the other when  *)
(* the table has no primary key; else by key, of a key in both the first.  *)
(* A row whose key column was renamed has no value under the source's name *)
(* for it: all rows pass for one, the last of the first sample.            *)
Combined(first, last) ==
  IF ~choice.keyed THEN first \o last
  ELSE IF "key" \notin choice.renamed
  THEN ToSet(first) \cup {row \in ToSet(last) : \A other \in ToSet(first) : other.key # row.key}
  ELSE IF first # <<>> THEN {first[Len(first)]} ELSE {last[i] : i \in DOMAIN last \cap {1}}

PartVerdict(part, answers) ==
  IF part = "row_count" THEN IF answers[1] = answers[2] THEN "matched" ELSE "mismatched"
  ELSE IF Combined(answers[3], answers[4]) = Combined(answers[5], answers[6])
       THEN "matched" ELSE "mismatched"

TableVerdict(v) ==
  IF "failed" \in {v["row_count"], v["checksum"]} THEN "failed"
  ELSE IF "mismatched" \in {v["row_count"], v["checksum"]} THEN "mismatched" ELSE "matched"

-----------------------------------------------------------------------------
(* compare_schema_objects: named objects of one kind *)
ByName(s, t, manual) ==
  {IF n \notin DOMAIN s THEN "target_only"
   ELSE IF n \notin DOMAIN t THEN IF n \in manual THEN "manual_review" ELSE "missing"
   ELSE IF s[n] = t[n] THEN "matched" ELSE "mismatched" : n \in DOMAIN s \cup DOMAIN t}

NoNames == [n \in {} |-> ""]

Definition(key) ==
  [columns |-> [n \in {"key", "cell"} |-> IF n = key THEN "required" ELSE "optional"],
   key |-> key, increments |-> {"key"}, indexes |-> [n \in {"ix"} |-> "cell"], manual |-> {"ix"},
   references |-> NoNames]

NoDefinition == [Definition("none") EXCEPT !.columns = NoNames, !.increments = {}]

(* A table the target does not have shows as missing, with its generated   *)
(* keys, indexes and foreign keys; columns and keys are compared only      *)
(* where both have the table.                                              *)
ComparedObjects(s, t) ==
  IF t = NoDefinition
  THEN {"missing"} \cup ByName(s.indexes, NoNames, s.manual) \cup ByName(s.references, NoNames, {})
  ELSE {IF Cardinality(DOMAIN s.columns) = Cardinality(DOMAIN t.columns) THEN "matched" ELSE "mismatched"}
       \cup ByName(s.columns, t.columns, {})
       \cup {IF s.key = t.key THEN "matched" ELSE "mismatched"}
       \cup {IF n \in DOMAIN t.columns /\ n \in t.increments THEN "matched" ELSE "mismatched" : n \in s.increments}
       \cup ByName(s.indexes, t.indexes, s.manual) \cup ByName(s.references, t.references, {})

(* SchemaPairResolver: the definition to compare with is that of the       *)
(* existing target table, or the mapped source table where there is none.  *)
PlannedDefinition(actual) == IF actual = NoDefinition THEN Definition("key") ELSE actual

-----------------------------------------------------------------------------
Next1 == Len(got) + 1
PartOff(part) == IF part = "row_count" THEN ~choice.row_count ELSE ~choice.checksum
Reading1 == verdict["report"] = "reading" /\ Next1 <= Len(Queries)

(* Load: the target is scanned and the recorded results are read before    *)
(* any row is.  A file that is missing or not JSON counts as no result.    *)
LoadEvidence ==
  /\ verdict["report"] = "none"
  /\ \E actual \in IF rows.target = NoRows THEN {NoDefinition} ELSE {Definition("key"), Definition("cell")} :
       objects' = ComparedObjects(PlannedDefinition(actual), actual)
  /\ artifacts' \in BOOLEAN
  /\ verdict' = [verdict EXCEPT !["report"] = "reading"]
  /\ UNCHANGED <<rows, choice, link, attempt, got, losses, foreign>>

(* A part that is switched off, or that failed already, asks nothing.      *)
PassOver ==
  /\ Reading1
  /\ LET part == Part(Next1) IN
       /\ PartOff(part) \/ verdict[part] = "failed"
       /\ verdict' = IF PartOff(part) THEN [verdict EXCEPT ![part] = "skipped"] ELSE verdict
       /\ got' = Append(got, 0)
       /\ attempt' = 1
  /\ UNCHANGED <<rows, choice, artifacts, objects, link, losses, foreign>>

Asked == /\ Reading1
         /\ ~PartOff(Part(Next1)) /\ verdict[Part(Next1)] # "failed"

(* ReusableConnection.get: a new connection when there is none.            *)
ReadRows ==
  LET q == Queries[Next1] IN
  /\ Asked
  /\ link[q.side] # "broken" /\ rows[q.side] # NoRows
  /\ link' = [link EXCEPT ![q.side] = "open"]
  /\ got' = Append(got, Answer(q))
  /\ attempt' = 1
  /\ verdict' = IF Next1 \in {Len(Counts), Len(Queries)}
                THEN [verdict EXCEPT ![Part(Next1)] = PartVerdict(Part(Next1), got')] ELSE verdict
  /\ UNCHANGED <<rows, choice, artifacts, objects, losses, foreign>>

(* An adapter forgets a broken connection.                                 *)
Forget(side) == [link EXCEPT ![side] = "none"]

(* Mutant: a retried statement only counts for the MySQL adapters.         *)
MayRetryMySql(side) == choice.dbms[side] = "mysql" /\ attempt < Attempts
MayRetry(side) == choice.dbms[side] = "postgresql" /\ attempt < Attempts

(* The statement fails: because the connection is broken, or because the   *)
(* table does not exist.                                                   *)
ReadRefused ==
  LET q == Queries[Next1]
      lost == link[q.side] = "broken"
  IN  /\ Asked
      /\ lost \/ rows[q.side] = NoRows
      /\ link' = IF lost \/ choice.dbms[q.side] = "mysql" THEN Forget(q.side)
                 ELSE [link EXCEPT ![q.side] = "open"]
      /\ IF lost /\ MayRetry(q.side)
         THEN attempt' = attempt + 1 /\ UNCHANGED <<got, verdict>>
         ELSE /\ attempt' = 1
              /\ got' = Append(got, 0)
              /\ verdict' = [verdict EXCEPT ![Part(Next1)] = "failed"]
      /\ UNCHANGED <<rows, choice, artifacts, objects, losses, foreign>>

(* ValidationReport.status *)
ReportVerdict ==
  IF TableVerdict(verdict) = "failed" \/ artifacts THEN "failed"
  ELSE IF \/ TableVerdict(verdict) = "mismatched"
          \/ objects \cap {"missing", "mismatched", "manual_review"} # {}
       THEN "mismatched" ELSE "matched"

Conclude ==
  /\ verdict["report"] = "reading" /\ Next1 > Len(Queries)
  /\ verdict' = [verdict EXCEPT !["report"] = ReportVerdict]
  /\ UNCHANGED <<rows, choice, artifacts, objects, link, attempt, got, losses, foreign>>

-----------------------------------------------------------------------------
(* Other clients: the table of the target is written to or dropped.        *)
OtherWrites ==
  /\ verdict["report"] \in {"none", "reading"} /\ foreign < MaxWrites
  /\ \E c \in Contents \cup {NoRows} : c # rows.target /\ rows' = [rows EXCEPT !.target = c]
  /\ foreign' = foreign + 1
  /\ UNCHANGED <<choice, artifacts, objects, link, attempt, got, verdict, losses>>

(* A connection breaks, or a new one is refused.                           *)
LoseConnection ==
  /\ Reading1 /\ Len(losses) < MaxLosses
  /\ \E side \in {"source", "target"} :
       /\ link[side] = "open" \/ (link[side] = "none" /\ Asked /\ side = Queries[Next1].side)
       /\ link' = [link EXCEPT ![side] = "broken"]
       /\ losses' = Append(losses, side)
  /\ UNCHANGED <<rows, choice, artifacts, objects, attempt, got, verdict, foreign>>

ValidationInit ==
  /\ rows \in [source : Contents, target : Contents \cup {NoRows}]
  /\ choice \in Requests
  /\ artifacts = FALSE /\ objects = {}
  /\ link = [side \in {"source", "target"} |-> "none"] /\ attempt = 1
  /\ got = <<>>
  /\ verdict = [p \in {"row_count", "checksum", "report"} |-> "none"]
  /\ losses = <<>> /\ foreign = 0

ValidationNext ==
  LoadEvidence \/ PassOver \/ ReadRows \/ ReadRefused \/ Conclude \/ OtherWrites \/ LoseConnection

ValidationSpec == ValidationInit /\ [][ValidationNext]_valVars

-----------------------------------------------------------------------------
Normal(side) == [k \in DOMAIN rows[side] |-> NormalizedCell(rows[side][k])]

(* SmallTablesAreCompared: a report that says matched, with both checks    *)
(* on and nobody writing, means that a table of up to twice the sample     *)
(* size holds the same rows on both servers, up to the normalization, and  *)
(* that no recorded statement had failed: the count rules out rows between *)
(* the two samples, the samples rule out everything else.  Named           *)
(* exception: of a table whose primary key column the plan renames, one    *)
(* row is compared (validation.py _row_key).                                *)
KeyIsRenamed == choice.keyed /\ "key" \in choice.renamed

SmallTablesAreCompared ==
  verdict["report"] = "matched" /\ foreign = 0 /\ choice.row_count /\ choice.checksum
    => /\ ~artifacts
       /\ ~KeyIsRenamed /\ Cardinality(DOMAIN rows.source) <= 2 * SampleSize
            => Normal("source") = Normal("target")

(* FaithfulCopyMatches: a table that was copied as it is, all columns      *)
(* written, is never reported as different, provided both servers order    *)
(* its keys alike, or the first sample holds the whole table and the key   *)
(* keeps its name.  Named exception: values whose forms differ between the *)
(* drivers (FormsDiffer) are reported as different although they are not.  *)
FaithfulCopyMatches ==
  /\ verdict["report"] # "none" /\ foreign = 0 /\ rows.source = rows.target
  /\ ~choice.unwritten /\ ~FormsDiffer
  /\ \/ \A i, j \in 1 .. Len(choice.order) : i < j => choice.order[i] < choice.order[j]
     \/ choice.keyed /\ ~KeyIsRenamed /\ Cardinality(DOMAIN rows.source) <= SampleSize
  => "mismatched" \notin {verdict[p] : p \in DOMAIN verdict}

(* LostConnectionsAreRetried: fewer losses than attempts, all of them on   *)
(* the PostgreSQL side, never make a part of a validation fail.            *)
LostConnectionsAreRetried ==
  /\ Len(losses) < Attempts /\ foreign = 0 /\ rows.target # NoRows
  /\ \A i \in DOMAIN losses : choice.dbms[losses[i]] = "postgresql"
  => \A p \in {"row_count", "checksum"} : verdict[p] # "failed"

=============================================================================
