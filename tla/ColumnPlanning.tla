--------------------------- MODULE ColumnPlanning ---------------------------
(***************************************************************************)
(* The column plan of one table (schema/column_plan.py): how the columns   *)
(* of the source reach those of the target.  The plan is made twice: by    *)
(* apply-ddl, which alters, empties, replaces or creates the table, and    *)
(* anew by migrate-data, over the target that apply-ddl has left.  One     *)
(* source row is copied; a cell of the target holds what came of it.       *)
(* Generated columns are in neither set of columns.                        *)
(***************************************************************************)
EXTENDS Naturals, TableOrder

CONSTANTS
  Columns,         \* names: in the order of the source and of the settings
  KeyColumn,       \* the primary key of the source table
  SourceChoices,   \* source tables: [column -> class]
  TargetChoices,   \* targets: the server, the class and the place of each column
  MistypedChoices, \* columns with a type other than the one they should have
  SettingChoices   \* settings: [configured column -> setting]

(* NOT NULL without a default, NOT NULL with one, nullable without one.    *)
Classes == {"required", "defaulted", "optional"}

NoTable == [c \in {} |-> "required"]

(* A setting (ColumnTransformConfig): what feeds the column.  A type that  *)
(* the target does not know makes it "invalid".                            *)
ColumnSettings == [how : {"from"}, source : Columns]
             \cup [how : {"skip", "null", "default", "invalid"}, source : {0}]

ColumnPolicies == {"skip", "sync", "truncate_reload", "overwrite"}

ASSUME ColumnAssumption ==
  /\ IsFiniteSet(Columns) /\ Columns \subseteq Nat \ {0} /\ KeyColumn \in Columns
  /\ \A f \in SourceChoices \cup {t.columns : t \in TargetChoices} :
       DOMAIN f \subseteq Columns /\ f \in [DOMAIN f -> Classes]
  /\ \A f \in SourceChoices : KeyColumn \in DOMAIN f
  /\ \A t \in TargetChoices :
       t.dbms \in {"postgresql", "mysql"} /\ t.order \in Seq(Columns) /\ Range(t.order) = DOMAIN t.columns
  /\ \A f \in SettingChoices :
       DOMAIN f \subseteq Columns /\ \A c \in DOMAIN f : f[c] \in ColumnSettings

VARIABLES
  source,    \* the columns of the source table
  nulls,     \* those that are NULL in the source row
  settings,  \* TableRunConfig.columns
  ignored,   \* columns with source_only_columns ignore or manual
  policyOf,  \* existing_table_policy
  dbms,      \* the server of the target
  before,    \* the target table when apply-ddl planned, NoTable if it did not exist
  table,     \* the columns of the target table
  order,     \* and their order in it
  mistyped,  \* columns whose type is not that of the column, or of the setting, they are fed by
  key,       \* its primary key column, 0 if it has none
  cells,     \* the target row with the key of the source row, NoRow if there is none
  phase      \* "ddl", "ddl_failed", "data", then "written", "kept", "blocked", "failed"

planVars   == <<source, nulls, settings, ignored, policyOf, dbms, before>>
columnVars == <<planVars, table, order, mistyped, key, cells, phase>>

NoRow == << >>
Own    == <<"target", 0>>
Null   == <<"null", 0>>
Value  == <<"default", 0>>
Src(c) == IF c \in nulls THEN Null ELSE <<"source", c>>

-----------------------------------------------------------------------------
(* build_column_plan over the target columns base.                         *)

How(c) == IF c \in DOMAIN settings THEN settings[c].how ELSE "auto"
FedBy(c) == IF How(c) = "from" THEN settings[c].source ELSE 0
ConfiguredSources == {settings[c].source : c \in {x \in DOMAIN settings : How(x) = "from"}}

(* A configured column that is missing takes the place of the target       *)
(* column that has the name of its source; the last configured one wins.   *)
Claims(a, base) == {c \in DOMAIN settings \ DOMAIN base : FedBy(c) = a}

Renames(base) == [a \in {b \in DOMAIN base : Claims(b, base) # {}} |-> Max(Claims(a, base))]

ConfiguredAdds(base) ==
  {c \in DOMAIN settings \ DOMAIN base : FedBy(c) \in DOMAIN source \ DOMAIN Renames(base)}

DefaultAdds(base) == DOMAIN source \ (DOMAIN base \cup ConfiguredSources \cup ignored)

(* What becomes of the base columns, and all the columns of the plan.      *)
Renamed(base) ==
  LET r == Renames(base)
  IN  [c \in (DOMAIN base \ DOMAIN r) \cup Range(r) |->
         IF c \in Range(r) THEN base[CHOOSE a \in DOMAIN r : r[a] = c] ELSE base[c]]

Planned(base) ==
  LET kept == Renamed(base)
      configured == ConfiguredAdds(base)
  IN  [c \in DOMAIN kept \cup configured \cup DefaultAdds(base) |->
         IF c \in DOMAIN kept THEN kept[c]
         ELSE IF c \in configured THEN source[FedBy(c)] ELSE source[c]]

(* A column can be in the plan twice: renamed or configured, and again     *)
(* because it is in the source only.                                       *)
Doubled(base) == DefaultAdds(base) \cap (DOMAIN Renamed(base) \cup ConfiguredAdds(base))

SourceOf(c) ==
  CASE How(c) = "from" -> FedBy(c)
    [] How(c) \in {"auto", "null", "default"} /\ c \in DOMAIN source -> c
    [] OTHER -> 0

Unresolved(base) ==
  \/ \E c \in DOMAIN Planned(base) :
       \/ How(c) = "invalid"
       \/ How(c) = "from" /\ FedBy(c) \notin DOMAIN source
       \/ How(c) = "auto" /\ SourceOf(c) = 0 /\ Planned(base)[c] = "required"
  \/ \E c \in (DOMAIN settings \cap DOMAIN source) \ DOMAIN Planned(base) : How(c) = "invalid"

WriteColumns(base) ==
  {c \in DOMAIN Planned(base) : SourceOf(c) # 0 \/ How(c) \in {"null", "default"}}

ReadColumns(base) == {SourceOf(c) : c \in DOMAIN Planned(base)} \ {0}

(* transform_row: a cell for every column that is written.                *)
Transformed(base) ==
  [c \in WriteColumns(base) |->
     IF SourceOf(c) # 0 THEN Src(SourceOf(c)) ELSE IF How(c) = "default" THEN Value ELSE Null]

(* The adapters insert every column of the plan's table, and NULL where    *)
(* transform_row has left the column out.                                  *)
Inserted(c, base) == IF c \in WriteColumns(base) THEN Transformed(base)[c] ELSE Null

-----------------------------------------------------------------------------
(* apply-ddl *)

Base == IF table = NoTable THEN source ELSE table

After(b) == IF b \in DOMAIN Renames(Base) THEN Renames(Base)[b] ELSE b

(* The columns of the plan in its order.                                   *)
PlanOrder ==
  LET base == IF table = NoTable THEN Sorted(DOMAIN source) ELSE order
  IN  [i \in 1 .. Len(base) |-> After(base[i])]
      \o Sorted(ConfiguredAdds(Base)) \o Sorted(DefaultAdds(Base))

(* target_key_columns_for: the first column that is fed by the key.        *)
TargetKey ==
  LET fed == {i \in DOMAIN PlanOrder : SourceOf(PlanOrder[i]) = KeyColumn}
  IN  IF fed = {} THEN 0 ELSE PlanOrder[Min(fed)]

(* The columns with a change of type: a column that is fed by one whose    *)
(* name is renamed in the target is judged by the type of that one.        *)
Retyped ==
  {c \in DOMAIN Planned(Base) :
     SourceOf(c) \in DOMAIN source
     /\ (IF SourceOf(c) \in DOMAIN Renames(Base) THEN SourceOf(c) ELSE c) \in mistyped}

RenamedKey == After(IF table = NoTable THEN KeyColumn ELSE key)

(* Mutant: the table is created again as it was.                           *)
RecreateBase ==
  /\ cells' = NoRow /\ table' = Base /\ key' = RenamedKey /\ phase' = "data"
  /\ order' = IF table = NoTable THEN Sorted(DOMAIN source) ELSE order
  /\ UNCHANGED mistyped

(* CREATE TABLE of the plan's columns, which may drop the table first: the *)
(* columns of the base keep their types.                                   *)
Recreate ==
  /\ cells' = NoRow
  /\ IF Doubled(Base) = {}
     THEN /\ table' = Planned(Base) /\ order' = PlanOrder
          /\ key' = RenamedKey
          /\ mistyped' = {After(b) : b \in mistyped}
          /\ phase' = "data"
     ELSE /\ table' = NoTable /\ order' = << >> /\ key' = 0
          /\ mistyped' = {} /\ phase' = "ddl_failed"

CreateTable ==
  /\ phase = "ddl"
  /\ table = NoTable \/ policyOf = "overwrite"
  /\ Recreate
  /\ UNCHANGED planVars

Truncated ==
  /\ phase = "ddl" /\ table # NoTable /\ policyOf = "truncate_reload"
  /\ cells' = NoRow
  /\ phase' = "data"
  /\ UNCHANGED <<planVars, table, order, mistyped, key>>

Untouched ==
  /\ phase = "ddl" /\ table # NoTable /\ policyOf = "skip"
  /\ phase' = "data"
  /\ UNCHANGED <<planVars, table, order, mistyped, key, cells>>

(* MODIFY COLUMN also sets what the source says of NULL, TYPE does not.    *)
Modified(c) == IF dbms = "mysql" THEN source[SourceOf(c)] ELSE Planned(Base)[c]

(* The row that is there when columns are renamed and added: an added one  *)
(* has its default, or that of its type.                                   *)
Altered(adds) ==
  LET old(c) == CHOOSE a \in DOMAIN cells : After(a) = c
  IN  IF cells = NoRow THEN NoRow
      ELSE [c \in DOMAIN Renamed(Base) \cup adds |->
              IF c \notin adds THEN cells[old(c)]
              ELSE IF Planned(Base)[c] = "optional" THEN Null ELSE Value]

(* A change of type fails for a column that is not there yet, and where it *)
(* makes a column NOT NULL that holds a NULL; it may fail for any values.  *)
CannotRetype(c) ==
  \/ c \notin DOMAIN Renamed(Base)
  \/ cells # NoRow /\ Modified(c) # "optional" /\ Altered({})[c] = Null

(* RENAME COLUMN, then the changes of type, then ADD COLUMN one by one: a  *)
(* second statement for a doubled column fails, and one for a required     *)
(* column may, since the table has rows; on PostgreSQL it does.  What was  *)
(* executed before stays.                                                  *)
SyncAltered ==
  /\ phase = "ddl" /\ table # NoTable /\ policyOf = "sync"
  /\ LET types == Picked(PlanOrder, {i \in DOMAIN PlanOrder : PlanOrder[i] \in Retyped})
         adds  == Sorted(ConfiguredAdds(Base)) \o Sorted(DefaultAdds(Base))
         there(i) == DOMAIN Renamed(Base) \cup {adds[j] : j \in 1 .. i - 1}
         required(i) == Planned(Base)[adds[i]] = "required"
     IN  \E t \in 0 .. Len(types), n \in 0 .. Len(adds) :
           LET done    == {adds[j] : j \in 1 .. n}
               changed == {types[j] : j \in 1 .. t}
           IN  /\ \A c \in changed : ~CannotRetype(c)
               /\ t < Len(types) => n = 0
               /\ \A i \in 1 .. n :
                    /\ adds[i] \notin there(i)
                    /\ ~ (required(i) /\ dbms = "postgresql" /\ cells # NoRow)
               /\ t = Len(types) /\ n < Len(adds) => adds[n + 1] \in there(n + 1) \/ required(n + 1)
               /\ table' = [c \in DOMAIN Renamed(Base) \cup done |->
                              IF c \in changed THEN Modified(c) ELSE Planned(Base)[c]]
               /\ order' = SubSeq(PlanOrder, 1, Len(order) + n)
               /\ mistyped' = {After(b) : b \in mistyped} \ changed
               /\ cells' = Altered(done)
               /\ phase' = IF t = Len(types) /\ n = Len(adds) THEN "data" ELSE "ddl_failed"
  /\ key' = RenamedKey
  /\ UNCHANGED planVars

-----------------------------------------------------------------------------
(* migrate-data: the preflight and the row.                                *)

Blocks == Unresolved(Base) \/ (policyOf = "sync" /\ TargetKey = 0)

(* A sync run compares the columns it has read under their source names; a *)
(* column that the target does not have counts as NULL.                    *)
Unchanged ==
  \A c \in ReadColumns(Base) : Src(c) = (IF c \in DOMAIN cells THEN cells[c] ELSE Null)

(* What the target takes; the conflict key of an upsert must be its key on *)
(* PostgreSQL.                                                             *)
Accepted ==
  /\ table # NoTable
  /\ DOMAIN Planned(Base) \subseteq DOMAIN table /\ Doubled(Base) = {}
  /\ \A c \in DOMAIN Planned(Base) : Inserted(c, Base) = Null => table[c] = "optional"
  /\ policyOf = "sync" /\ dbms = "postgresql" => TargetKey = key

(* Values that a column of another type may refuse.                        *)
Misfits == {c \in mistyped : Inserted(c, Base) # Null}

Insert ==
  /\ cells = NoRow /\ Accepted
  /\ cells' = [c \in DOMAIN table |-> Inserted(c, Base)]
  /\ phase' = "written"

Update ==
  /\ cells # NoRow /\ policyOf = "sync" /\ Accepted /\ ~Unchanged
  /\ cells' = [c \in DOMAIN table |-> Inserted(c, Base)]
  /\ phase' = "written"

KeepRow ==
  /\ cells # NoRow /\ policyOf = "sync" /\ Unchanged
  /\ phase' = "kept"
  /\ UNCHANGED cells

Rejected ==
  /\ ~Accepted \/ Misfits # {}
  /\ cells = NoRow \/ ~Unchanged
  /\ phase' = "failed"
  /\ UNCHANGED cells

Migrate ==
  /\ phase \in {"data", "ddl_failed"}
  /\ IF Blocks THEN phase' = "blocked" /\ UNCHANGED cells
     ELSE Insert \/ Update \/ KeepRow \/ Rejected
  /\ UNCHANGED <<planVars, table, order, mistyped, key>>

-----------------------------------------------------------------------------
ColumnInit ==
  /\ source \in SourceChoices
  /\ nulls \in SUBSET {c \in DOMAIN source : source[c] = "optional"}
  /\ settings \in SettingChoices
  /\ ignored \in SUBSET (DOMAIN source \ {KeyColumn})
  /\ policyOf \in ColumnPolicies
  /\ \E t \in TargetChoices : dbms = t.dbms /\ before = t.columns /\ order = t.order
  /\ table = before
  /\ mistyped \in {m \cap DOMAIN Base : m \in MistypedChoices}
  /\ key = IF KeyColumn \in DOMAIN table THEN KeyColumn ELSE 0
  /\ \/ cells = NoRow
     \/ /\ table # NoTable /\ policyOf # "skip"
        /\ \/ cells = [c \in DOMAIN table |-> Own]
           \/ cells = [c \in DOMAIN table |->
                         IF c \in DOMAIN source /\ (Src(c) = Null => table[c] = "optional")
                         THEN Src(c) ELSE Own]
  /\ phase = "ddl"

ColumnNext == CreateTable \/ Truncated \/ Untouched \/ SyncAltered \/ Migrate

ColumnSpec == ColumnInit /\ [][ColumnNext]_columnVars

-----------------------------------------------------------------------------
FirstBase == IF before = NoTable THEN source ELSE before

(* The dry run shows nothing to worry about: the plan is resolved and no   *)
(* column is in it twice.                                                  *)
Clean == ~Unresolved(FirstBase) /\ Doubled(FirstBase) = {}

(* apply-ddl brings the target to the plan: only sync alters a table.      *)
Executed == before = NoTable \/ policyOf \in {"sync", "overwrite"} \/ Planned(before) = before

(* The plan made after the statements differs from the first one: a        *)
(* column that they make is the source of a missing one, or two missing    *)
(* columns have one source, or a renamed column is configured again.       *)
Missing == DOMAIN settings \ DOMAIN FirstBase
Contested ==
  \E a \in {FedBy(c) : c \in Missing} \ {0} :
    \/ a \in DOMAIN Planned(FirstBase) \ DOMAIN FirstBase
    \/ a \in DOMAIN settings \cap DOMAIN FirstBase
    \/ Cardinality({c \in Missing : FedBy(c) = a}) > 1

(* No NULL goes to a NOT NULL column: neither one of the source row, nor   *)
(* one that is configured, nor that of a column which is not written (with *)
(* or without a default).  The dry run looks at none of them.              *)
NullsFit ==
  \A c \in DOMAIN Planned(FirstBase) :
    Inserted(c, FirstBase) = Null => Planned(FirstBase)[c] = "optional"

(* When the dry run shows a clean plan and the NULLs fit, apply-ddl        *)
(* executes it and settles it, migrate-data writes the row: what apply-ddl *)
(* has destroyed comes back.  Otherwise a column has kept a type that may  *)
(* refuse the value, or a sync run lacks a column that could not be added, *)
(* has nothing to upsert by, or a column that is not the key of the target.*)
CleanPlansCopy ==
  phase \in {"blocked", "failed"} /\ Clean /\ NullsFit /\ Executed /\ ~Contested =>
    \/ phase = "failed" /\ mistyped # {}
    \/ /\ policyOf = "sync"
       /\ ~ (DOMAIN Planned(FirstBase) \subseteq DOMAIN table) \/ TargetKey = 0 \/ TargetKey # key

(* What a column plan does not write keeps its value in the row of the     *)
(* target (tests/unit/test_schema_pair_column_plan.py: write_columns and   *)
(* transform_row leave the skipped column out).                            *)
UnwrittenColumnsKeepTheirValues ==
  [][ \A c \in DOMAIN cells \ WriteColumns(Base) :
        table # NoTable /\ Migrate => cells'[c] = cells[c] ]_columnVars
=============================================================================
