----------------------------- MODULE SchemaScan -----------------------------
(***************************************************************************)
(* scan_schema of the PostgreSQL and MySQL readers: the catalog is asked   *)
(* kind by kind, in statements of their own, while other clients may       *)
(* execute DDL, and the answers are put together by table name.  What is   *)
(* not a table of the catalog but has columns, a view, is put together     *)
(* like one.                                                               *)
(***************************************************************************)
EXTENDS Integers, Sequences, FiniteSets, TableOrder

CONSTANTS
  Catalogs,    \* what the schema may hold: functions from names to relations
  MaxDdl       \* bound: DDL of other clients during the scan

(* A relation of the catalog; names are numbers in their order.  columns:  *)
(* [column -> "plain", "generated", "expression" (an expression as its     *)
(* default) or "serial"]; key: its primary key; indexes: records [parts,   *)
(* included, unique, method, partial] by name, an expression among the     *)
(* parts being 0; references: records [columns, table, referenced] by      *)
(* constraint name.                                                        *)
RelationKinds == {"table", "view"}

ASSUME ScanAssumption ==
  /\ MaxDdl \in Nat
  /\ \A c \in Catalogs :
       /\ DOMAIN c \subseteq Nat /\ IsFiniteSet(DOMAIN c)
       /\ \A n \in DOMAIN c :
            /\ c[n].kind \in RelationKinds
            /\ \A x \in DOMAIN c[n].indexes : c[n].indexes[x].parts \in Seq(Nat)
            /\ \A x \in DOMAIN c[n].references :
                 LET r == c[n].references[x]
                 IN  r.columns \in Seq(Nat) /\ r.referenced \in Seq(Nat) /\ Len(r.columns) = Len(r.referenced)

VARIABLES
  server,   \* "postgresql" or "mysql"
  catalog,  \* what the schema holds now
  fetched,  \* the answers so far, by kind
  scanned,  \* the snapshot: functions from table names to tables
  views,    \* the names of the views of the snapshot
  scan,     \* the next statement, "done" or "failed"
  changes   \* history: DDL of other clients since the scan began

scanVars == <<server, catalog, fetched, scanned, views, scan, changes>>

(* MySQL has neither partial indexes nor included columns.                 *)
Possible(c) ==
  server = "mysql" =>
    \A n \in DOMAIN c : \A x \in DOMAIN c[n].indexes :
      ~c[n].indexes[x].partial /\ c[n].indexes[x].included = <<>>

Statements == <<"columns", "keys", "indexes", "references", "objects">>
NoAnswer == [n \in {} |-> <<>>]
OfTables(field(_)) ==
  [n \in {m \in DOMAIN catalog : catalog[m].kind = "table"} |-> field(catalog[n])]

-----------------------------------------------------------------------------
(* Mutant: an expression among the columns goes unnoticed.                 *)
NeedsReviewByColumns(columns, i) ==
  columns = <<>> \/ i.method # "btree" \/ (server = "postgresql" /\ i.partial)

(* The manual review reason of an index: no column, another method, a      *)
(* predicate or an expression; MySQL's catalog row does not show the       *)
(* expression of an index that also has columns.                           *)
NeedsReview(columns, i) ==
  \/ columns = <<>>
  \/ i.method # "btree"
  \/ server = "postgresql" /\ (i.partial \/ 0 \in ToSet(i.parts))

ColumnsAmong(parts) == Picked(parts, {p \in DOMAIN parts : parts[p] # 0})

(* _fetch_indexes: the columns without the expressions; PostgreSQL lists   *)
(* the included columns behind those of the key.                           *)
FetchedIndex(i) ==
  LET columns == ColumnsAmong(i.parts) \o (IF server = "postgresql" THEN i.included ELSE <<>>)
  IN  [columns |-> columns, unique |-> i.unique, auto |-> ~NeedsReview(columns, i)]

FetchedIndexes(r) == [n \in DOMAIN r.indexes |-> FetchedIndex(r.indexes[n])]

(* PostgreSQL's key_column_usage and constraint_column_usage are joined by *)
(* the name of the constraint alone: every column of a foreign key meets   *)
(* every referenced column of every constraint of that name.               *)
SameName(name) == {n \in DOMAIN catalog : catalog[n].kind = "table" /\ name \in DOMAIN catalog[n].references}

(* Where the catalog says which columns of t are referenced.               *)
Referring(name, t) ==
  {p \in UNION {{n} \X DOMAIN catalog[n].references[name].referenced : n \in SameName(name)} :
     catalog[p[1]].references[name].table = t}

Ahead(p, q) == p[1] < q[1] \/ (p[1] = q[1] /\ p[2] < q[2])

Pairs(name, r, t) ==
  LET places == Referring(name, t)
      place(k) == CHOOSE p \in places : Cardinality({q \in places : Ahead(q, p)}) = k
      other(k) == catalog[place(k)[1]].references[name].referenced[place(k)[2]]
      size == Cardinality(places)
  IN  [i \in 1 .. Len(r.columns) * size |-> <<r.columns[((i - 1) \div size) + 1], other((i - 1) % size)>>]

(* One foreign key for each referenced table.                              *)
FetchedReferences(r) ==
  IF server = "mysql"
  THEN {[name |-> n, columns |-> r.references[n].columns, table |-> r.references[n].table,
         referenced |-> r.references[n].referenced] : n \in DOMAIN r.references}
  ELSE UNION {{LET p == Pairs(n, r.references[n], t)
               IN  [name |-> n, columns |-> [i \in DOMAIN p |-> p[i][1]], table |-> t,
                    referenced |-> [i \in DOMAIN p |-> p[i][2]]]
               : t \in {catalog[m].references[n].table : m \in SameName(n)}} : n \in DOMAIN r.references}

(* _fetch_columns: information_schema.columns also holds the columns of    *)
(* the views.                                                              *)
FetchedColumns == [n \in DOMAIN catalog |-> catalog[n].columns]

AnswerTo(statement) ==
  CASE statement = "columns" -> FetchedColumns
    [] statement = "keys" -> OfTables(LAMBDA r : r.key)
    [] statement = "indexes" -> OfTables(FetchedIndexes)
    [] statement = "references" -> OfTables(FetchedReferences)
    [] OTHER -> [n \in {m \in DOMAIN catalog : catalog[m].kind = "view"} |-> <<>>]

-----------------------------------------------------------------------------
(* is_generated: ALWAYS on PostgreSQL; on MySQL anything with GENERATED in *)
(* EXTRA, which MySQL 8 also says of a column with an expression default.  *)
IsGenerated(kind) == kind = "generated" \/ (server = "mysql" /\ kind = "expression")

(* _is_postgres_auto_increment_column: the single column of the key.       *)
IsAutoIncrement(c, kind, primary) ==
  kind = "serial" /\ (server = "mysql" \/ primary = <<c>>)

AnswerFor(kind, n, none) == IF n \in DOMAIN fetched[kind] THEN fetched[kind][n] ELSE none

Assembled ==
  [n \in DOMAIN fetched["columns"] |->
     LET primary == AnswerFor("keys", n, <<>>)
         columns == fetched["columns"][n]
     IN  [columns    |-> [c \in DOMAIN columns |->
                            [generated |-> IsGenerated(columns[c]),
                             increment |-> IsAutoIncrement(c, columns[c], primary)]],
          key        |-> primary,
          indexes    |-> AnswerFor("indexes", n, NoAnswer),
          references |-> AnswerFor("references", n, {})]]

FetchNext ==
  /\ scan \in DOMAIN Statements
  /\ fetched' = [fetched EXCEPT ![Statements[scan]] = AnswerTo(Statements[scan])]
  /\ scan' = scan + 1
  /\ UNCHANGED <<server, catalog, scanned, views, changes>>

Assemble ==
  /\ scan = Len(Statements) + 1
  /\ scanned' = Assembled
  /\ views' = DOMAIN fetched["objects"]
  /\ scan' = 0
  /\ UNCHANGED <<server, catalog, fetched, changes>>

(* A statement or the connection fails: there is no snapshot.              *)
ScanFails ==
  /\ scan \in DOMAIN Statements
  /\ scan' = -1
  /\ UNCHANGED <<server, catalog, fetched, scanned, views, changes>>

OtherDdl ==
  /\ scan \in 1 .. Len(Statements) + 1 /\ changes < MaxDdl
  /\ catalog' \in {c \in Catalogs : c # catalog /\ Possible(c)}
  /\ changes' = changes + 1
  /\ UNCHANGED <<server, fetched, scanned, views, scan>>

ScanInit ==
  /\ server \in {"postgresql", "mysql"}
  /\ catalog \in Catalogs /\ Possible(catalog)
  /\ fetched = [k \in ToSet(Statements) |-> NoAnswer]
  /\ scanned = NoAnswer /\ views = {}
  /\ scan = 1 /\ changes = 0

ScanNext == FetchNext \/ Assemble \/ ScanFails \/ OtherDdl

ScanSpec == ScanInit /\ [][ScanNext]_scanVars
-----------------------------------------------------------------------------
(* A foreign key that the snapshot shows as it is: on PostgreSQL one with  *)
(* a single column, whose name no other table uses.                        *)
ShownExactly(name, r) ==
  server = "mysql" \/ (Len(r.references[name].columns) = 1 /\ Cardinality(SameName(name)) = 1)

(* QuietScansAreFaithful: what a scan that nobody disturbs says of a table *)
(* is so, key, columns, indexes that are to be created automatically and   *)
(* foreign keys, but for the columns and indexes that the catalog of MySQL *)
(* describes ambiguously and PostgreSQL's included columns and foreign     *)
(* keys of several columns or of the same name.                            *)
QuietScansAreFaithful ==
  scan = 0 /\ changes = 0 =>
    \A n \in {m \in DOMAIN catalog : catalog[m].kind = "table"} :
      LET r == catalog[n]
          s == scanned[n]
      IN  /\ s.key = r.key /\ DOMAIN s.columns = DOMAIN r.columns
          /\ \A c \in DOMAIN r.columns :
               /\ s.columns[c].generated /\ r.columns[c] # "generated" =>
                    server = "mysql" /\ r.columns[c] = "expression"
               /\ r.columns[c] = "generated" => s.columns[c].generated
               /\ s.columns[c].increment => r.columns[c] = "serial"
          /\ \A x \in DOMAIN r.indexes :
               s.indexes[x].auto =>
                 \/ s.indexes[x].columns = r.indexes[x].parts
                 \/ IF server = "mysql" THEN 0 \in ToSet(r.indexes[x].parts) ELSE r.indexes[x].included # <<>>
          /\ \A x \in DOMAIN r.references :
               ShownExactly(x, r) =>
                 {f \in s.references : f.name = x} =
                   {[name |-> x, columns |-> r.references[x].columns, table |-> r.references[x].table,
                     referenced |-> r.references[x].referenced]}

=============================================================================
