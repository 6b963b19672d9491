---------------------------- MODULE TableSettings ---------------------------
(***************************************************************************)
(* The settings of the single tables: the tables section of the            *)
(* configuration file, the grid of the window that is filled by            *)
(* scan-tables, and the dialog that edits a row of it (gui/main.py).       *)
(* Every button writes the whole form and the grid to the file before its  *)
(* command reads it.  The grid is never filled from the file.              *)
(* Comments and windows are written with the name; they are left out.      *)
(***************************************************************************)
EXTENDS Naturals, FiniteSets, TLC

CONSTANTS
  SourceTables,    \* the tables of the source
  SourceColumns,   \* their columns, numbers
  TargetColumns,   \* columns that a source column may be mapped to
  Schemas,         \* schemas of the target
  MaxSettingSteps  \* bound: steps of the operator

Unset == "unset"
OwnName == "own"      \* the name of the source table

ASSUME SettingsAssumption ==
  /\ Unset \notin Schemas
  /\ SourceColumns \subseteq TargetColumns /\ TargetColumns \subseteq Nat \ {0}
  /\ IsFiniteSet(TargetColumns)
  /\ MaxSettingSteps \in Nat

VARIABLES
  default,      \* the default target schema that the form gives
  grid,         \* the rows of the window: a function from the tables it shows
  file,         \* config.tables
  command,      \* what the last command found: its file and the grid of that moment
  settingSteps

settingVars == <<default, grid, file, command, settingSteps>>

NoneYet    == [c \in {} |-> 0]
NewEntry == [schema |-> Unset, name |-> Unset, columns |-> NoneYet, ignored |-> {}]

(* A column setting takes its value from a source column (0: not given),   *)
(* may be marked as skipped, and may give the type of the target column.   *)
Setting(s, skip, typed) == [source |-> s, skip |-> skip, typed |-> typed]

-----------------------------------------------------------------------------
(* _set_initial_table_item_data.                                           *)
FreshRow == [schema |-> default, name |-> OwnName, mapping |-> NoneYet, types |-> {}, ignored |-> {}]

IsDefault(row) ==
  /\ row.schema = default /\ row.name = OwnName
  /\ row.mapping = NoneYet /\ row.types = {} /\ row.ignored = {}

(* _apply_column_mappings_to_config: settings made from source columns go, *)
(* the others stay and keep their mark and, if the grid gives none, their  *)
(* type.  A column with an overridden type feeds the column it is mapped   *)
(* to, its own name if it is mapped to none; an identical name without     *)
(* such a type needs no setting.  Of two columns that feed the same one    *)
(* the last has it.                                                        *)
StayingSettings(columns) == {c \in DOMAIN columns : columns[c].source \notin SourceColumns}

GoesTo(row, s) == IF s \in DOMAIN row.mapping THEN row.mapping[s] ELSE s

Feeding(row, c) ==
  {s \in DOMAIN row.mapping \cup row.types : GoesTo(row, s) = c /\ (s # c \/ s \in row.types)}

LastOf(fed) == CHOOSE s \in fed : \A r \in fed : r <= s

SettingFrom(row, columns, c) ==
  LET stays == c \in StayingSettings(columns)
  IN  Setting(LastOf(Feeding(row, c)), stays /\ columns[c].skip,
              Feeding(row, c) \cap row.types # {} \/ (stays /\ columns[c].typed))

ColumnsFrom(row, columns) ==
  [c \in StayingSettings(columns) \cup {d \in TargetColumns : Feeding(row, d) # {}} |->
     IF Feeding(row, c) = {} THEN columns[c] ELSE SettingFrom(row, columns, c)]

EntryFrom(row, entry) ==
  [schema  |-> IF row.schema = default THEN Unset ELSE row.schema,
   name    |-> IF row.name = OwnName THEN Unset ELSE row.name,
   columns |-> ColumnsFrom(row, entry.columns),
   ignored |-> row.ignored]

(* Mutant: rows with nothing set are passed over.                          *)
SavedSettingsKeepingOld ==
  [t \in DOMAIN file \cup {u \in DOMAIN grid : ~IsDefault(grid[u])} |->
     IF t \notin DOMAIN grid \/ IsDefault(grid[t]) THEN file[t]
     ELSE EntryFrom(grid[t], IF t \in DOMAIN file THEN file[t] ELSE NewEntry)]

(* _save_table_run_configs: a row with nothing set removes the entry of    *)
(* its table, with settings that the grid cannot show.                     *)
SavedSettings ==
  [t \in (DOMAIN file \ DOMAIN grid) \cup {u \in DOMAIN grid : ~IsDefault(grid[u])} |->
     IF t \notin DOMAIN grid THEN file[t]
     ELSE EntryFrom(grid[t], IF t \in DOMAIN file THEN file[t] ELSE NewEntry)]

-----------------------------------------------------------------------------
OperatorStep == settingSteps < MaxSettingSteps /\ settingSteps' = settingSteps + 1

(* Any button: the file is written, then read by the command.              *)
RunCommand ==
  /\ OperatorStep
  /\ file' = SavedSettings
  /\ command' = [default |-> default, grid |-> grid, tables |-> SavedSettings]
  /\ UNCHANGED <<default, grid>>

(* scan-tables is such a command, and fills the grid anew when it is done. *)
ScanIntoGrid ==
  /\ OperatorStep
  /\ file' = SavedSettings
  /\ command' = [default |-> default, grid |-> grid, tables |-> SavedSettings]
  /\ \E tables \in SUBSET SourceTables : grid' = [t \in tables |-> FreshRow]
  /\ UNCHANGED default

(* The dialog is accepted.  It proposes the name of each column, and no    *)
(* mapping for those that the operator clears or ignores.  A type that is  *)
(* not the one of the target column is an override, also of a column that  *)
(* is cleared: the text that is left is compared with the target column of *)
(* its own name.  An empty schema is the default.                          *)
AcceptDialog ==
  /\ OperatorStep
  /\ \E t \in DOMAIN grid, schema \in Schemas, name \in {OwnName, "other"}, ignored \in SUBSET SourceColumns :
       \E mapping \in UNION {[S -> TargetColumns] : S \in SUBSET (SourceColumns \ ignored)},
          types \in SUBSET (SourceColumns \ ignored) :
         grid' = [grid EXCEPT ![t] = [schema |-> schema, name |-> name, mapping |-> mapping,
                                      types |-> types, ignored |-> ignored]]
  /\ UNCHANGED <<default, file, command>>

(* The target schema or database of the form: the rows keep the default    *)
(* of the scan.                                                            *)
ChangeDefault ==
  /\ OperatorStep
  /\ \E schema \in Schemas \ {default} : default' = schema
  /\ UNCHANGED <<grid, file, command>>

(* The file is edited by hand.                                             *)
EditFile ==
  /\ OperatorStep
  /\ \E t \in SourceTables, c \in TargetColumns, s \in SourceColumns \cup {0}, name \in {Unset, "other"} :
       /\ s # c
       /\ file' = (t :> [NewEntry EXCEPT !.name = name, !.columns = c :> Setting(s, s = 0, s = 0)]) @@ file
       /\ UNCHANGED <<default, grid, command>>

SettingsInit ==
  /\ default \in Schemas
  /\ grid = NoneYet /\ file = NoneYet
  /\ command = [default |-> default, grid |-> NoneYet, tables |-> NoneYet]
  /\ settingSteps = 0

SettingsNext == RunCommand \/ ScanIntoGrid \/ AcceptDialog \/ ChangeDefault \/ EditFile

SettingsSpec == SettingsInit /\ [][SettingsNext]_settingVars

-----------------------------------------------------------------------------
(* table_mapping.py: target_ref_for, over the tables of the command.       *)
TargetRef(t) ==
  LET entry == IF t \in DOMAIN command.tables THEN command.tables[t] ELSE NewEntry
  IN  <<IF entry.schema = Unset THEN command.default ELSE entry.schema,
        IF entry.name = Unset THEN OwnName ELSE entry.name>>

EntryColumns(t) == IF t \in DOMAIN command.tables THEN command.tables[t].columns ELSE NoneYet

(* The columns that the row shows as mapped to c under another name.       *)
Mapped(row, c) == {s \in DOMAIN row.mapping : row.mapping[s] = c /\ s # c}

(* A command does to the tables of the grid what the grid showed when it   *)
(* was started, whatever the file held and whatever was chosen and changed *)
(* before: the target, the ignored columns, the source of every column     *)
(* that one column is mapped to, and the type that is given to a column    *)
(* nothing else feeds; and no mapping is left over from an earlier choice. *)
(* One mapping is not used: to a column whose name another source column   *)
(* has, if that one is a later name with a type of its own that is not     *)
(* mapped elsewhere; cleared or not, it takes the column back.             *)
TakenBack(row, c, s) == c \in row.types /\ GoesTo(row, c) = c /\ s < c

GridIsUsed ==
  \A t \in DOMAIN command.grid :
    LET row == command.grid[t]
        columns == EntryColumns(t) IN
    /\ TargetRef(t) = <<row.schema, row.name>>
    /\ row.ignored = IF t \in DOMAIN command.tables THEN command.tables[t].ignored ELSE {}
    /\ \A c \in TargetColumns, s \in SourceColumns :
         Mapped(row, c) = {s} /\ ~TakenBack(row, c, s) => c \in DOMAIN columns /\ columns[c].source = s
    /\ \A s \in row.types : Feeding(row, GoesTo(row, s)) = {s} =>
         GoesTo(row, s) \in DOMAIN columns /\ columns[GoesTo(row, s)].source = s /\ columns[GoesTo(row, s)].typed
    /\ \A c \in DOMAIN columns :
         columns[c].source \in SourceColumns => columns[c].source \in Feeding(row, c)
=============================================================================
