---------------------------- MODULE KeysetReader ----------------------------
(***************************************************************************)
(* How one source table is read over interruptions: the order and the key  *)
(* chosen for it (schema/table_selection.py), the query of read_rows with  *)
(* its offset or its row comparison, the cursor of each batch, and its way *)
(* through the JSON of the checkpoint store into the query of a resume.    *)
(* A batch is written, committed and recorded in the step that fetches it: *)
(* module DmlMigration takes that apart, and takes for granted what this   *)
(* one is about.  The source does not change.                              *)
(***************************************************************************)
EXTENDS Naturals, Sequences, FiniteSets, TableOrder

CONSTANTS
  ReadTables,  \* the source tables; see below
  FetchSize,   \* batch_size
  MaxStops     \* bound: interruptions of the read

(* A table: width, its number of columns; rows, a sequence of sequences of *)
(* values by column; primary, the columns of its primary key; unique,      *)
(* those of its first unique index (<<>> for none of either); generated,   *)
(* its generated columns; text, the columns whose values json.dumps turns  *)
(* into another text (bytes); read, the read columns of the column plan.   *)
(* A value is 0 for NULL or an even number; odd numbers are the places in  *)
(* between.                                                                *)
Even == {n \in Nat : n % 2 = 0}

ASSUME ReaderAssumption ==
  /\ FetchSize \in Nat \ {0} /\ MaxStops \in Nat
  /\ \A t \in ReadTables :
       /\ t.width \in Nat
       /\ t.rows \in Seq([1 .. t.width -> Even])
       /\ t.primary \in Seq(1 .. t.width) /\ t.unique \in Seq(1 .. t.width)
       /\ t.read \in Seq(1 .. t.width)
       /\ ToSet(t.read) \cap t.generated = {}

VARIABLES
  read,       \* the table
  reader,     \* "postgresql" or "mysql"
  textPlace,  \* where the texts of bytes come among the values
  cursor,     \* the cursor behind the last batch of this run
  recorded,   \* the latest checkpoint, NoCursor before the first one
  unread,     \* the rows of the open query that were not fetched
  taken,      \* the rows that were copied, as a bag
  reading,    \* "no", "yes" or "completed"
  stops       \* the interruptions so far

readerVars == <<read, reader, textPlace, cursor, recorded, unread, taken, reading, stops>>

NoCursor == [keys |-> <<>>, last |-> <<>>, offset |-> 0, none |-> TRUE]

-----------------------------------------------------------------------------
(* The order and the key.                                                  *)

Among(columns, chosen) == Picked(columns, {p \in DOMAIN columns : columns[p] \in ToSet(chosen)})

Writable == Sorted((1 .. read.width) \ read.generated)

StableOrder(columns) == IF read.primary # <<>> THEN Among(read.primary, columns) ELSE columns

ResumeKey(order) == Among(IF read.primary # <<>> THEN read.primary ELSE read.unique, order)

(* Without a key the cursor counts rows.                                   *)
InitialCursor(columns) ==
  [keys |-> ResumeKey(StableOrder(columns)), last |-> <<>>, offset |-> 0, none |-> FALSE]

(* A run that finds no checkpoint: migrate-data asks for the read columns  *)
(* of its plan, resume for the writable ones.                              *)
FirstCursors == {InitialCursor(read.read), InitialCursor(Writable)}

-----------------------------------------------------------------------------
(* The query.                                                              *)

(* ORDER BY: NULL comes first in MySQL and last in PostgreSQL.             *)
Before(v, w) ==
  /\ v # w
  /\ IF v = 0 THEN reader = "mysql" ELSE IF w = 0 THEN reader = "postgresql" ELSE v < w

Precedes(r, s, order) ==
  \E i \in DOMAIN order :
    /\ Before(r[order[i]], s[order[i]])
    /\ \A j \in 1 .. i - 1 : r[order[j]] = s[order[j]]

(* Mutant: the columns of the key are compared one by one.                 *)
BehindByColumn(r, c) == \A i \in DOMAIN c.last : r[c.keys[i]] > c.last[i]

(* WHERE (keys) > (last): nothing is greater than a NULL, or equal to one. *)
Behind(r, c) ==
  \/ c.last = <<>>
  \/ \E i \in DOMAIN c.last :
       /\ c.last[i] # 0 /\ r[c.keys[i]] > c.last[i]
       /\ \A j \in 1 .. i - 1 : c.last[j] # 0 /\ r[c.keys[j]] = c.last[j]

(* What the server may answer: rows that the order does not tell apart     *)
(* come in any order, which may be another one each time.                  *)
Rows(c) ==
  LET behind == {i \in DOMAIN read.rows : Behind(read.rows[i], c)}
      order  == StableOrder(read.read)
      sorted == {p \in SetToSeqs(behind) :
                   \A i, j \in DOMAIN p : i < j => ~Precedes(read.rows[p[j]], read.rows[p[i]], order)}
      skip   == IF c.keys # <<>> THEN 0 ELSE c.offset
  IN  {[k \in 1 .. Cardinality(behind) - skip |-> read.rows[p[skip + k]]] : p \in sorted}

OpenQuery ==
  /\ reading = "no"
  /\ cursor' \in IF recorded.none THEN FirstCursors ELSE {recorded}
  /\ unread' \in Rows(cursor')
  /\ reading' = "yes"
  /\ UNCHANGED <<read, reader, textPlace, recorded, taken, stops>>

(* The row as a dict of the read columns; row.get of another one is None.  *)
Copied(r) == [c \in ToSet(read.read) |-> r[c]]
ValueOf(r, c) == IF c \in ToSet(read.read) THEN r[c] ELSE 0

NextCursor(batch) ==
  [cursor EXCEPT !.last = [i \in DOMAIN cursor.keys |-> ValueOf(batch[Len(batch)], cursor.keys[i])],
                 !.offset = @ + Len(batch)]

(* json.dumps(default=str) and json.loads.                                 *)
Stored(c) ==
  [c EXCEPT !.last = [i \in DOMAIN @ |-> IF c.keys[i] \in read.text /\ @[i] # 0 THEN textPlace ELSE @[i]]]

FetchBatch ==
  /\ reading = "yes" /\ unread # <<>>
  /\ LET size  == IF Len(unread) < FetchSize THEN Len(unread) ELSE FetchSize
         batch == SubSeq(unread, 1, size)
     IN  /\ taken' = taken (+) ToBag([i \in DOMAIN batch |-> Copied(batch[i])])
         /\ cursor' = NextCursor(batch)
         /\ recorded' = Stored(cursor')
         /\ unread' = SubSeq(unread, size + 1, Len(unread))
  /\ UNCHANGED <<read, reader, textPlace, reading, stops>>

(* A crash or a failing read records nothing; a failing batch its start,   *)
(* and a cancel what was read so far: the same place.                      *)
StopReading ==
  /\ reading = "yes" /\ stops < MaxStops
  /\ recorded' \in {recorded, Stored(cursor)}
  /\ reading' = "no"
  /\ unread' = <<>>
  /\ stops' = stops + 1
  /\ UNCHANGED <<read, reader, textPlace, cursor, taken>>

EndQuery ==
  /\ reading = "yes" /\ unread = <<>>
  /\ reading' = "completed"
  /\ UNCHANGED <<read, reader, textPlace, cursor, recorded, unread, taken, stops>>

ReaderInit ==
  /\ read \in ReadTables
  /\ reader \in {"postgresql", "mysql"}
  /\ textPlace \in IF read.text = {} THEN {1} ELSE {1, 3, 5}
  /\ cursor = NoCursor /\ recorded = NoCursor
  /\ unread = <<>>
  /\ taken = EmptyBag
  /\ reading = "no"
  /\ stops = 0

ReaderNext == OpenQuery \/ FetchBatch \/ StopReading \/ EndQuery

ReaderSpec == ReaderInit /\ [][ReaderNext]_readerVars

-----------------------------------------------------------------------------
(* The key of the cursor begins the order of the query, tells the rows     *)
(* apart, is never NULL and survives JSON.                                 *)
Faithful(keys, order) ==
  /\ keys # <<>> /\ IsPrefix(keys, order)
  /\ ToSet(keys) \cap read.text = {}
  /\ \A i \in DOMAIN read.rows : \A c \in ToSet(keys) : read.rows[i][c] # 0
  /\ \A i, j \in DOMAIN read.rows :
       i # j => \E c \in ToSet(keys) : read.rows[i][c] # read.rows[j][c]

Resumable ==
  \/ stops = 0
  \/ Faithful(cursor.keys, StableOrder(read.read))
  \/ cursor.keys = <<>> /\ StableOrder(read.read) # <<>>

(* A read that was interrupted at any batches and resumed from what the    *)
(* checkpoints say (checkpoint.py, _keyset_where_clause) has copied every  *)
(* row of the source exactly once when it ends, with a faithful key and    *)
(* just as well by counting rows, as long as there is an order; and in any *)
(* case when nothing interrupted it.                                       *)
ResumedReadIsWhole ==
  reading = "completed" /\ Resumable =>
    taken = ToBag([i \in DOMAIN read.rows |-> Copied(read.rows[i])])
=============================================================================
