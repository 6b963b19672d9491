---------------------------- MODULE CommandProofs ----------------------------
(***************************************************************************)
(* Proofs about what surrounds the commands, for any tables and operations *)
(* and any number of steps and troubles.  WriteGate: what the window       *)
(* promises before it lets a command destroy something.  TableSettings: a  *)
(* command does what the grid shows.  SelfTest: a self-test keeps its      *)
(* word, whatever earlier runs have left.  CommandSession: one worker at a *)
(* time, what a call opens is closed, and tunnels are used wherever they   *)
(* are enabled.                                                            *)
(***************************************************************************)
EXTENDS CommandSession, WriteGate, TableSettings, SelfTest, TableOrderProofs

-----------------------------------------------------------------------------
(* WriteGate.  The properties look back at the last operation; the         *)
(* invariant says what is known of the target meanwhile, and what a        *)
(* confirmed operation carries along.                                      *)


(* Every table of the target is one the window has seen or has come up     *)
(* since.                                                                  *)
Known == present \subseteq options \cup origins \cup appeared

(* While an operation waits, neither the policy nor what the window has    *)
(* seen changes.                                                           *)
ListedStays ==
  policy = "overwrite" => pending.selection \cap (options \cup origins) \subseteq pending.listed

(* What the gate lets through without a report.                            *)
UnreviewedStays ==
  pending # NoOperation /\ ~pending.reviewed =>
    /\ ~safetyConfig.production
    /\ policy # "sync"
    /\ policy = "overwrite" => pending.selection \cap (options \cup origins) = {}

GateInv == Known /\ ListedStays /\ UnreviewedStays /\ OverwritesAreListed /\ DestructionIsReviewed

-----------------------------------------------------------------------------
LEMMA GateInitInv == GateInit => GateInv
  BY DEF GateInit, GateInv, Known, ListedStays, UnreviewedStays, OverwritesAreListed,
         DestructionIsReviewed, NoOperation, Nothing

LEMMA ScanInv == GateInv /\ Scan => GateInv'
  BY DEF Scan, Waiting, GateInv, Known, ListedStays, UnreviewedStays, OverwritesAreListed,
         DestructionIsReviewed, NoOperation

(* What goes out of sight with a narrower dry run is remembered.           *)
LEMMA ReviewInv == GateInv /\ Review => GateInv'
<1> SUFFICES ASSUME GateInv, Review PROVE GateInv'
  OBVIOUS
<1>1. PICK selection \in SUBSET GateTables :
        /\ origins' = present \cap selection
        /\ appeared' = (appeared \ selection) \cup ((origins \ options) \ selection)
  BY DEF Review
<1>2. Known'
  BY <1>1 DEF Review, GateInv, Known
<1>3. ListedStays' /\ UnreviewedStays'
  BY DEF Review, Waiting, ListedStays, UnreviewedStays, NoOperation
<1>4. OverwritesAreListed' /\ DestructionIsReviewed'
  BY DEF Review, GateInv, OverwritesAreListed, DestructionIsReviewed
<1> QED
  BY <1>2, <1>3, <1>4 DEF GateInv

LEMMA ChoosePolicyInv == GateInv /\ ChoosePolicy => GateInv'
  BY DEF ChoosePolicy, Waiting, GateInv, Known, ListedStays, UnreviewedStays,
         OverwritesAreListed, DestructionIsReviewed, NoOperation

LEMMA OthersInv == GateInv /\ Others => GateInv'
  BY DEF Others, GateInv, Known, ListedStays, UnreviewedStays, OverwritesAreListed,
         DestructionIsReviewed

(* The gate is asked about the tables that the confirmation lists.         *)
LEMMA ConfirmInv == GateInv /\ Confirm => GateInv'
<1> SUFFICES ASSUME GateInv, Confirm PROVE GateInv'
  OBVIOUS
<1>1. PICK selection \in SUBSET GateTables :
        /\ GateOpens(Listed(selection))
        /\ pending' = [selection |-> selection,
                       listed |-> IF policy = "overwrite" THEN Listed(selection) ELSE {},
                       reviewed |-> ReportExists]
  BY DEF Confirm
<1>2. Known' /\ ListedStays'
  BY <1>1 DEF Confirm, GateInv, Known, ListedStays, Listed
<1>3. UnreviewedStays'
  BY <1>1 DEF Confirm, UnreviewedStays, GateOpens, Listed
<1>4. OverwritesAreListed' /\ DestructionIsReviewed'
  BY DEF Confirm, GateInv, OverwritesAreListed, DestructionIsReviewed
<1> QED
  BY <1>2, <1>3, <1>4 DEF GateInv

LEMMA ExecuteInv == GateInv /\ Execute => GateInv'
<1> SUFFICES ASSUME GateInv, Execute PROVE GateInv'
  OBVIOUS
<1> DEFINE destructive ==
      IF policy \in {"sync", "overwrite"} THEN present \cap pending.selection ELSE {}
<1>1. ListedStays' /\ UnreviewedStays'
  BY DEF Execute, ListedStays, UnreviewedStays, NoOperation
<1>2. CASE GuardOpens(destructive)
  <2>1. /\ destroyed' = [tables |-> destructive, listed |-> pending.listed,
                         reviewed |-> pending.reviewed, policy |-> policy, unseen |-> appeared]
        /\ present' = present \cup pending.selection
        /\ appeared' = appeared \cup (pending.selection \ present)
        /\ UNCHANGED <<safetyConfig, policy, options, origins>>
        /\ pending # NoOperation
    BY <1>2 DEF Execute
  <2>2. Known'
    BY <2>1 DEF GateInv, Known
  <2>3. OverwritesAreListed'
    BY <2>1 DEF GateInv, Known, ListedStays, OverwritesAreListed
  <2>4. DestructionIsReviewed'
    BY <2>1 DEF GateInv, Known, UnreviewedStays, DestructionIsReviewed
  <2> QED
    BY <1>1, <2>2, <2>3, <2>4 DEF GateInv
<1>3. CASE ~GuardOpens(destructive)
  <2>1. destroyed' = Nothing /\ UNCHANGED <<present, appeared, options, origins>>
    BY <1>3 DEF Execute
  <2>2. Known' /\ OverwritesAreListed' /\ DestructionIsReviewed'
    BY <2>1 DEF GateInv, Known, OverwritesAreListed, DestructionIsReviewed, Nothing
  <2> QED
    BY <1>1, <2>2 DEF GateInv
<1> QED
  BY <1>2, <1>3

LEMMA GateSteps == GateInv /\ [GateNext]_gateVars => GateInv'
<1>1. GateInv /\ UNCHANGED gateVars => GateInv'
  BY DEF gateVars, GateInv, Known, ListedStays, UnreviewedStays, OverwritesAreListed,
         DestructionIsReviewed
<1> QED
  BY <1>1, ScanInv, ReviewInv, ChoosePolicyInv, OthersInv, ConfirmInv, ExecuteInv DEF GateNext

-----------------------------------------------------------------------------
(* No overwrite drops a table that the confirmation did not list, except   *)
(* one that came up after the window last looked (gui/main.py              *)
(* _confirm_write_operation, _selected_existing_target_tables).            *)
THEOREM ConfirmedOverwrites == GateSpec => []OverwritesAreListed
<1>1. GateInv => OverwritesAreListed
  BY DEF GateInv
<1> QED
  BY <1>1, GateInitInv, GateSteps, PTL DEF GateSpec

(* Nothing is destroyed without a dry-run report, except tables that the   *)
(* window had not seen, by overwrite and outside production                *)
(* (application/safety.py evaluate_dry_run_gate).                          *)
THEOREM ReviewedDestruction == GateSpec => []DestructionIsReviewed
<1>1. GateInv => DestructionIsReviewed
  BY DEF GateInv
<1> QED
  BY <1>1, GateInitInv, GateSteps, PTL DEF GateSpec

-----------------------------------------------------------------------------
(* TableSettings.  Every command takes the whole grid with it, so the      *)
(* property is about one step; but the rows of the grid must be such that  *)
(* "unset" in the file cannot be mistaken for something that was chosen.   *)

GridRows ==
  \A t \in DOMAIN grid :
    /\ grid[t].schema \in Schemas /\ grid[t].name \in {OwnName, "other"}
    /\ DOMAIN grid[t].mapping \cup grid[t].types \subseteq SourceColumns
    /\ \A s \in DOMAIN grid[t].mapping : grid[t].mapping[s] \in TargetColumns

SettingsInv == default \in Schemas /\ GridRows /\ GridIsUsed

RowIsOK(row) ==
  /\ DOMAIN row.mapping \cup row.types \subseteq SourceColumns
  /\ \A s \in DOMAIN row.mapping : row.mapping[s] \in TargetColumns

(* Of the columns that feed one, the last one has it.                      *)
LEMMA LastFeeds ==
  ASSUME SettingsAssumption, NEW row, RowIsOK(row), NEW c, Feeding(row, c) # {}
  PROVE  /\ LastOf(Feeding(row, c)) \in Feeding(row, c)
         /\ \A r \in Feeding(row, c) : r <= LastOf(Feeding(row, c))
         /\ Feeding(row, c) \subseteq Nat
<1>1. Feeding(row, c) \subseteq SourceColumns /\ SourceColumns \subseteq Nat /\ IsFiniteSet(SourceColumns)
  BY FS_Subset DEF Feeding, SettingsAssumption, RowIsOK
<1>2. Feeding(row, c) \subseteq Nat /\ IsFiniteSet(Feeding(row, c))
  BY <1>1, FS_Subset
<1>3. \E s \in Feeding(row, c) : \A r \in Feeding(row, c) : r <= s
  BY <1>2, Greatest
<1> QED BY <1>2, <1>3 DEF LastOf

(* What the grid says of the columns, and the settings made from it.       *)
ColumnsAgree(row, new) ==
  /\ \A c \in TargetColumns, s \in SourceColumns :
       Mapped(row, c) = {s} /\ ~TakenBack(row, c, s) => c \in DOMAIN new /\ new[c].source = s
  /\ \A s \in row.types : Feeding(row, GoesTo(row, s)) = {s} =>
       GoesTo(row, s) \in DOMAIN new /\ new[GoesTo(row, s)].source = s /\ new[GoesTo(row, s)].typed
  /\ \A c \in DOMAIN new : new[c].source \in SourceColumns => new[c].source \in Feeding(row, c)

LEMMA ColumnsAreThoseOfTheGrid ==
  ASSUME SettingsAssumption, NEW row, RowIsOK(row), NEW columns
  PROVE  ColumnsAgree(row, ColumnsFrom(row, columns))
<1> DEFINE new == ColumnsFrom(row, columns)
<1>1. DOMAIN new = StayingSettings(columns) \cup {d \in TargetColumns : Feeding(row, d) # {}}
  BY DEF ColumnsFrom
<1>2. \A c \in DOMAIN new : Feeding(row, c) = {} => new[c] = columns[c]
  BY DEF ColumnsFrom
<1>3. \A c \in DOMAIN new : Feeding(row, c) # {} => new[c] = SettingFrom(row, columns, c)
  BY DEF ColumnsFrom
<1>4. \A c : /\ SettingFrom(row, columns, c).source = LastOf(Feeding(row, c))
             /\ Feeding(row, c) \cap row.types # {} => SettingFrom(row, columns, c).typed
  BY DEF SettingFrom, Setting
<1> HIDE DEF new
<1>5. ASSUME NEW c \in TargetColumns, NEW s \in SourceColumns, Mapped(row, c) = {s}, ~TakenBack(row, c, s)
      PROVE  c \in DOMAIN new /\ new[c].source = s
  <2>1. s \in Feeding(row, c) /\ s # c
    BY <1>5 DEF Feeding, Mapped, GoesTo
  <2>2. LastOf(Feeding(row, c)) \in Feeding(row, c) /\ s <= LastOf(Feeding(row, c)) /\ s \in Nat
        /\ LastOf(Feeding(row, c)) \in Nat
    BY <2>1, LastFeeds
  <2>3. ASSUME NEW r \in Feeding(row, c), r # s PROVE r = c /\ c \in row.types /\ GoesTo(row, c) = c
    <3>1. CASE r \in DOMAIN row.mapping
      BY <1>5, <2>3, <3>1 DEF Feeding, Mapped, GoesTo
    <3>2. CASE r \notin DOMAIN row.mapping
      BY <2>3, <3>2 DEF Feeding, GoesTo
    <3> QED BY <3>1, <3>2
  <2>4. LastOf(Feeding(row, c)) = s
    BY <1>5, <2>1, <2>2, <2>3 DEF TakenBack
  <2> QED BY <1>1, <1>3, <1>4, <2>1, <2>4
<1>6. ASSUME NEW s \in row.types, Feeding(row, GoesTo(row, s)) = {s}
      PROVE  GoesTo(row, s) \in DOMAIN new /\ new[GoesTo(row, s)].source = s /\ new[GoesTo(row, s)].typed
  <2>1. GoesTo(row, s) \in TargetColumns
    BY DEF GoesTo, RowIsOK, SettingsAssumption
  <2>2. LastOf(Feeding(row, GoesTo(row, s))) = s
    BY <1>6, LastFeeds
  <2>3. Feeding(row, GoesTo(row, s)) \cap row.types # {} /\ Feeding(row, GoesTo(row, s)) # {}
    BY <1>6
  <2> QED BY <1>1, <1>3, <1>4, <2>1, <2>2, <2>3
<1>7. ASSUME NEW c \in DOMAIN new, new[c].source \in SourceColumns PROVE new[c].source \in Feeding(row, c)
  <2>1. CASE Feeding(row, c) = {}
    <3>1. c \in StayingSettings(columns)
      BY <1>1, <2>1
    <3> QED BY <1>2, <1>7, <2>1, <3>1 DEF StayingSettings
  <2>2. CASE Feeding(row, c) # {}
    BY <1>3, <1>4, <2>2, LastFeeds
  <2> QED BY <2>1, <2>2
<1> QED BY <1>5, <1>6, <1>7 DEF new, ColumnsAgree

(* What a button hands to its command.                                     *)
LEMMA CommandTakesTheGrid ==
  ASSUME SettingsAssumption, default \in Schemas, GridRows,
         command' = [default |-> default, grid |-> grid, tables |-> SavedSettings]
  PROVE  GridIsUsed'
<1>1. command'.default = default /\ command'.grid = grid /\ command'.tables = SavedSettings
  OBVIOUS
<1> DEFINE entry(t) == IF t \in DOMAIN SavedSettings THEN SavedSettings[t] ELSE NewEntry
           old(t) == IF t \in DOMAIN file THEN file[t] ELSE NewEntry
<1>2. ASSUME NEW t \in DOMAIN grid
      PROVE  /\ IsDefault(grid[t]) => t \notin DOMAIN SavedSettings
             /\ ~IsDefault(grid[t]) =>
                  t \in DOMAIN SavedSettings /\ SavedSettings[t] = EntryFrom(grid[t], old(t))
  BY DEF SavedSettings
<1> SUFFICES ASSUME NEW t \in DOMAIN grid
             PROVE  LET row == grid[t]
                        columns == IF t \in DOMAIN SavedSettings THEN SavedSettings[t].columns ELSE NoneYet IN
               /\ <<IF entry(t).schema = Unset THEN default ELSE entry(t).schema,
                    IF entry(t).name = Unset THEN OwnName ELSE entry(t).name>> = <<row.schema, row.name>>
               /\ row.ignored = IF t \in DOMAIN SavedSettings THEN SavedSettings[t].ignored ELSE {}
               /\ ColumnsAgree(row, columns)
  BY <1>1 DEF GridIsUsed, TargetRef, EntryColumns, ColumnsAgree
<1> DEFINE row == grid[t]
<1>3. row.schema \in Schemas /\ row.name \in {OwnName, "other"} /\ RowIsOK(row)
  BY DEF GridRows, RowIsOK
<1>4. CASE IsDefault(row)
  <2>1. t \notin DOMAIN SavedSettings
    BY <1>2, <1>4
  <2>2. row.schema = default /\ row.name = OwnName /\ row.mapping = NoneYet /\ row.types = {} /\ row.ignored = {}
    BY <1>4 DEF IsDefault
  <2>3. ColumnsAgree(row, NoneYet)
    BY <2>2 DEF ColumnsAgree, Mapped, NoneYet
  <2>4. entry(t).schema = Unset /\ entry(t).name = Unset
    BY <2>1 DEF NewEntry
  <2> HIDE DEF row, entry
  <2> QED BY <2>1, <2>2, <2>3, <2>4 DEF row
<1>5. CASE ~IsDefault(row)
  <2> DEFINE saved == EntryFrom(row, old(t))
  <2>1. t \in DOMAIN SavedSettings /\ SavedSettings[t] = saved /\ entry(t) = saved
    BY <1>2, <1>5
  <2>2. /\ saved.schema = IF row.schema = default THEN Unset ELSE row.schema
        /\ saved.name = IF row.name = OwnName THEN Unset ELSE row.name
        /\ saved.columns = ColumnsFrom(row, old(t).columns)
        /\ saved.ignored = row.ignored
    BY DEF EntryFrom
  <2>3. Unset # "other" /\ row.schema # Unset /\ default # Unset
    BY <1>3 DEF SettingsAssumption, Unset
  <2>4. ColumnsAgree(row, saved.columns)
    BY <1>3, <2>2, ColumnsAreThoseOfTheGrid
  <2>5. /\ row.schema = IF saved.schema = Unset THEN default ELSE saved.schema
        /\ row.name = IF saved.name = Unset THEN OwnName ELSE saved.name
    BY <1>3, <2>2, <2>3
  <2> HIDE DEF row, entry, saved
  <2> QED BY <2>1, <2>2, <2>4, <2>5 DEF row
<1> QED BY <1>4, <1>5

LEMMA SettingsNextInv ==
  ASSUME SettingsAssumption, SettingsInv, [SettingsNext]_settingVars
  PROVE  SettingsInv'
<1>1. default \in Schemas /\ GridRows /\ GridIsUsed
  BY DEF SettingsInv
<1>2. command' = command => GridIsUsed'
  BY <1>1 DEF GridIsUsed, TargetRef, EntryColumns
<1>3. CASE RunCommand
  BY <1>1, <1>3, CommandTakesTheGrid DEF RunCommand, SettingsInv, GridRows
<1>4. CASE ScanIntoGrid
  <2>1. default' = default /\ GridIsUsed'
    BY <1>1, <1>4, CommandTakesTheGrid DEF ScanIntoGrid
  <2>2. PICK tables : grid' = [t \in tables |-> FreshRow]
    BY <1>4 DEF ScanIntoGrid
  <2>3. FreshRow.schema = default /\ FreshRow.name = OwnName /\ DOMAIN FreshRow.mapping = {} /\ FreshRow.types = {}
    BY DEF FreshRow, NoneYet
  <2>4. GridRows'
    BY <1>1, <2>2, <2>3 DEF GridRows
  <2> QED BY <1>1, <2>1, <2>4 DEF SettingsInv
<1>5. CASE AcceptDialog
  <2>1. default' = default /\ command' = command
    BY <1>5 DEF AcceptDialog
  <2>2. PICK t \in DOMAIN grid, schema \in Schemas, name \in {OwnName, "other"}, hidden \in SUBSET SourceColumns :
          \E mapping \in UNION {[S -> TargetColumns] : S \in SUBSET (SourceColumns \ hidden)},
             types \in SUBSET (SourceColumns \ hidden) :
            grid' = [grid EXCEPT ![t] = [schema |-> schema, name |-> name, mapping |-> mapping,
                                         types |-> types, ignored |-> hidden]]
    BY <1>5 DEF AcceptDialog
  <2>3. PICK mapping \in UNION {[S -> TargetColumns] : S \in SUBSET (SourceColumns \ hidden)},
             types \in SUBSET (SourceColumns \ hidden) :
            grid' = [grid EXCEPT ![t] = [schema |-> schema, name |-> name, mapping |-> mapping,
                                         types |-> types, ignored |-> hidden]]
    BY <2>2
  <2>4. DOMAIN mapping \subseteq SourceColumns /\ types \subseteq SourceColumns
        /\ \A s \in DOMAIN mapping : mapping[s] \in TargetColumns
    <3>1. PICK S \in SUBSET (SourceColumns \ hidden) : mapping \in [S -> TargetColumns]
      OBVIOUS
    <3> QED BY <3>1
  <2>5. GridRows'
    BY <1>1, <2>3, <2>4 DEF GridRows
  <2> QED BY <1>1, <1>2, <2>1, <2>5 DEF SettingsInv
<1>6. CASE ChangeDefault
  BY <1>1, <1>2, <1>6 DEF ChangeDefault, SettingsInv, GridRows
<1>7. CASE EditFile
  <2>1. default' = default /\ grid' = grid /\ command' = command
    BY <1>7 DEF EditFile
  <2> QED BY <1>1, <1>2, <2>1 DEF SettingsInv, GridRows
<1>8. CASE UNCHANGED settingVars
  BY <1>1, <1>2, <1>8 DEF settingVars, SettingsInv, GridRows
<1> QED BY <1>3, <1>4, <1>5, <1>6, <1>7, <1>8 DEF SettingsNext

(* GridIsUsed: a command does to the tables of the grid what the grid      *)
(* showed, whatever the file held and whatever was chosen before, but for  *)
(* a mapping that another column's type override takes back (gui/main.py,  *)
(* _save_table_run_configs and _apply_column_mappings_to_config).          *)
THEOREM SettingsAreUsed ==
  ASSUME SettingsAssumption
  PROVE  SettingsSpec => []GridIsUsed
<1>1. SettingsInit => SettingsInv
  BY DEF SettingsInit, SettingsInv, GridRows, GridIsUsed, NoneYet
<1>2. SettingsInv /\ [SettingsNext]_settingVars => SettingsInv'
  BY SettingsNextInv
<1>3. SettingsInv => GridIsUsed
  BY DEF SettingsInv
<1> QED BY <1>1, <1>2, <1>3, PTL DEF SettingsSpec

-----------------------------------------------------------------------------
(* SelfTest.                                                               *)


TestPlaces == {"idle", "config", "clean", "up", "seed", "ddl", "copy", "keys", "indexes",
               "validate", "judge", "cleanup"}

TestRow == [there : BOOLEAN, rows : Nat]

TestRows == [TestTables -> TestRow]

Volumes == [up : BOOLEAN, tables : TestRows, keys : BOOLEAN]

TestRuns ==
  [at : TestPlaces, size : Nat, keep : BOOLEAN, completed : SUBSET TestTables,
   copied : [TestTables -> Nat], matched : BOOLEAN,
   verdict : {"none", "success", "error", "escaped"}]

TestTypeOK == volumes \in Volumes /\ test \in TestRuns /\ selfTests \in Nat

(* Of what the run has found to be complete, it has copied all rows.       *)
CompletedIsOwn ==
  test.at \in {"keys", "indexes", "validate", "judge"} =>
    \A t \in test.completed : test.copied[t] = SeededRows(t)

MatchedIsSame == test.at = "judge" /\ test.matched => SameCounts

KeysAreThere == test.at \in {"indexes", "validate", "judge"} => volumes.keys

VerdictIsLate == test.verdict = "success" => At("cleanup")

TestInv ==
  /\ TestTypeOK /\ CompletedIsOwn /\ MatchedIsSame /\ KeysAreThere
  /\ VerdictIsLate /\ SelfTestKeepsItsWord

-----------------------------------------------------------------------------
LEMMA NothingThere == NoContainers \in Volumes /\ NoTest \in TestRuns
<1>1. NotThere \in TestRow
  BY DEF NotThere, TestRow
<1>2. [t \in TestTables |-> NotThere] \in TestRows
  BY <1>1 DEF TestRows
<1> QED
  BY <1>2 DEF NoContainers, NoTest, Volumes, TestRuns, TestPlaces

LEMMA TestInitInv == SelfTestInit => TestInv
  BY NothingThere
  DEF SelfTestInit, TestInv, TestTypeOK, NoTest, At, CompletedIsOwn, MatchedIsSame, KeysAreThere, VerdictIsLate, SelfTestKeepsItsWord, SuccessIsEarned,
      NothingIsLeft

(* A step inside the try that does not yet look for completed tables.      *)
LEMMA Early ==
  ASSUME TestInv, TestTypeOK',
         test.at \notin {"idle", "cleanup"}, test'.at \in {"clean", "up", "seed", "ddl", "copy", "cleanup"},
         test'.verdict # "success"
  PROVE  TestInv'
  BY DEF TestInv, At, CompletedIsOwn, MatchedIsSame, KeysAreThere, VerdictIsLate, SelfTestKeepsItsWord,
         SuccessIsEarned, NothingIsLeft

LEMMA NotSuccess ==
  ASSUME TestInv, test.at # "cleanup" PROVE test.verdict # "success"
  BY DEF TestInv, VerdictIsLate, At

LEMMA FailInv ==
  ASSUME TestInv, CommandFails, test.at \notin {"idle", "cleanup"},
         volumes' \in Volumes,
         UNCHANGED selfTests
  PROVE  TestInv'
<1>1. PICK verdict \in {"error", "escaped"} :
        test' = [test EXCEPT !.at = "cleanup", !.verdict = verdict]
  BY DEF CommandFails, EndTry
<1>2. TestTypeOK' /\ test'.at = "cleanup" /\ test'.verdict = verdict
  BY <1>1 DEF TestInv, TestTypeOK, TestRuns, TestPlaces, Volumes
<1> QED
  BY <1>2, Early

LEMMA StartInv == TestInv /\ StartSelfTest => TestInv'
<1> SUFFICES ASSUME TestInv, StartSelfTest PROVE TestInv'
  OBVIOUS
<1>0. selfTests' = selfTests + 1 /\ UNCHANGED <<volumes, litter>>
  BY DEF StartSelfTest
<1>1. TestTypeOK'
  <2>1. CASE UNCHANGED test
    BY <1>0, <2>1 DEF TestInv, TestTypeOK
  <2>2. CASE \E size \in Sizes, keep \in BOOLEAN :
               test' = [NoTest EXCEPT !.at = "config", !.size = size, !.keep = keep]
    <3>1. PICK size \in Nat, keep \in BOOLEAN :
            test' = [NoTest EXCEPT !.at = "config", !.size = size, !.keep = keep]
      BY <2>2, SelfTestAssumption
    <3>2. test' \in TestRuns
      BY <3>1 DEF TestRuns, TestPlaces, NoTest
    <3> QED
      BY <1>0, <3>2 DEF TestInv, TestTypeOK
  <2> QED
    BY <2>1, <2>2 DEF StartSelfTest
<1>2. test'.at \in {"idle", "config"} /\ test'.verdict # "success" /\ (test'.at = "idle" => test' = test)
  BY NotSuccess DEF StartSelfTest, NoTest, At
<1>3. test.at = "idle"
  BY DEF StartSelfTest, At
<1> QED
  BY <1>0, <1>1, <1>2, <1>3
  DEF TestInv, At, CompletedIsOwn, MatchedIsSame, KeysAreThere, VerdictIsLate, SelfTestKeepsItsWord,
      SuccessIsEarned, NothingIsLeft

LEMMA ComposeConfigInv == TestInv /\ ComposeConfig => TestInv'
<1> SUFFICES ASSUME TestInv, ComposeConfig PROVE TestInv'
  OBVIOUS
<1>1. CASE To("clean")
  <2>1. TestTypeOK' /\ test'.at = "clean" /\ test'.verdict = test.verdict
    BY <1>1 DEF ComposeConfig, To, TestInv, TestTypeOK, TestRuns, TestPlaces, Volumes
  <2> QED
    BY <2>1, Early, NotSuccess DEF ComposeConfig, At
<1>2. CASE CommandFails
  BY <1>2, FailInv DEF ComposeConfig, At, TestInv, TestTypeOK, TestRuns, Volumes
<1> QED
  BY <1>1, <1>2 DEF ComposeConfig

LEMMA CleanBeforeInv == TestInv /\ CleanBefore => TestInv'
<1> SUFFICES ASSUME TestInv, CleanBefore PROVE TestInv'
  OBVIOUS
<1>1. volumes' \in {volumes, NoContainers} /\ UNCHANGED selfTests /\ test.at = "clean"
  BY DEF CleanBefore, At
<1>2. \/ test' = [test EXCEPT !.at = "up"]
      \/ test' = [test EXCEPT !.at = "cleanup", !.verdict = "escaped"]
  BY DEF CleanBefore, To, EndTry
<1>3. TestTypeOK'
  BY <1>1, <1>2, NothingThere DEF TestInv, TestTypeOK, TestRuns, TestPlaces
<1>4. test'.at \in {"up", "cleanup"} /\ test'.verdict # "success"
  BY <1>1, <1>2, NotSuccess DEF TestInv, TestTypeOK, TestRuns, Volumes
<1> QED
  BY <1>1, <1>3, <1>4, Early

LEMMA ComposeUpInv == TestInv /\ ComposeUp => TestInv'
<1> SUFFICES ASSUME TestInv, ComposeUp PROVE TestInv'
  OBVIOUS
<1>1. volumes' \in {volumes, [volumes EXCEPT !.up = TRUE]} /\ UNCHANGED selfTests /\ test.at = "up"
  BY DEF ComposeUp, At
<1>2. CASE To("seed")
  <2>1. TestTypeOK' /\ test'.at = "seed" /\ test'.verdict = test.verdict
    BY <1>1, <1>2 DEF To, TestInv, TestTypeOK, TestRuns, TestPlaces, Volumes
  <2> QED
    BY <1>1, <2>1, Early, NotSuccess
<1>3. CASE CommandFails
  BY <1>1, <1>3, FailInv DEF TestInv, TestTypeOK, TestRuns, Volumes
<1> QED
  BY <1>2, <1>3 DEF ComposeUp

LEMMA SeedSourceInv == TestInv /\ SeedSource => TestInv'
<1> SUFFICES ASSUME TestInv, SeedSource PROVE TestInv'
  OBVIOUS
<1>1. UNCHANGED <<volumes, selfTests>> /\ test.at = "seed"
  BY DEF SeedSource, At
<1>2. CASE To("ddl")
  <2>1. TestTypeOK' /\ test'.at = "ddl" /\ test'.verdict = test.verdict
    BY <1>1, <1>2 DEF To, TestInv, TestTypeOK, TestRuns, TestPlaces, Volumes
  <2> QED
    BY <1>1, <2>1, Early, NotSuccess
<1>3. CASE CommandFails
  BY <1>1, <1>3, FailInv DEF TestInv, TestTypeOK, TestRuns, Volumes
<1> QED
  BY <1>2, <1>3 DEF SeedSource

LEMMA CreateTargetsInv == TestInv /\ CreateTargets => TestInv'
<1> SUFFICES ASSUME TestInv, CreateTargets PROVE TestInv'
  OBVIOUS
<1>1. UNCHANGED selfTests /\ test.at = "ddl"
  BY DEF CreateTargets, At
<1>2. CASE To("copy") /\ \E failing \in SUBSET TestTables :
             volumes' = [volumes EXCEPT !.tables = [t \in TestTables |->
               [there |-> There(t) \/ t \notin failing, rows |-> @[t].rows]]]
  <2>1. PICK failing \in SUBSET TestTables :
          volumes' = [volumes EXCEPT !.tables = [t \in TestTables |->
            [there |-> There(t) \/ t \notin failing, rows |-> @[t].rows]]]
    BY <1>2
  <2> DEFINE created == [t \in TestTables |->
        [there |-> There(t) \/ t \notin failing, rows |-> volumes.tables[t].rows]]
  <2>2. created \in TestRows
    BY DEF TestInv, TestTypeOK, Volumes, TestRows, TestRow, There
  <2>3. volumes' = [volumes EXCEPT !.tables = created]
    BY <2>1 DEF TestInv, TestTypeOK, Volumes
  <2> HIDE DEF created
  <2>4. volumes' \in Volumes
    BY <2>2, <2>3 DEF TestInv, TestTypeOK, Volumes
  <2>5. test' \in TestRuns /\ test'.at = "copy" /\ test'.verdict = test.verdict
    BY <1>1, <1>2 DEF To, TestInv, TestTypeOK, TestRuns, TestPlaces
  <2>6. TestTypeOK'
    BY <1>1, <2>4, <2>5 DEF TestInv, TestTypeOK
  <2> QED
    BY <1>1, <2>5, <2>6, Early, NotSuccess
<1>3. CASE CommandFails /\ UNCHANGED volumes
  BY <1>1, <1>3, FailInv DEF TestInv, TestTypeOK, TestRuns, Volumes
<1> QED
  BY <1>2, <1>3 DEF CreateTargets

LEMMA FilledVolumes ==
  ASSUME TestInv, NEW copied \in [TestTables -> Nat], Filled(copied) PROVE volumes' \in Volumes
<1> DEFINE filled == [t \in TestTables |->
      [there |-> volumes.tables[t].there, rows |-> volumes.tables[t].rows + copied[t]]]
<1>1. filled \in TestRows
  <2>1. \A t \in TestTables : volumes.tables[t] \in TestRow /\ copied[t] \in Nat
    BY DEF TestInv, TestTypeOK, Volumes, TestRows
  <2>2. \A t \in TestTables :
          [there |-> volumes.tables[t].there, rows |-> volumes.tables[t].rows + copied[t]] \in TestRow
    BY <2>1 DEF TestRow
  <2> QED
    BY <2>2, Zenon DEF TestRows
<1>2. volumes' = [volumes EXCEPT !.tables = filled]
  BY DEF Filled, TestInv, TestTypeOK, Volumes
<1> HIDE DEF filled
<1> QED
  BY <1>1, <1>2 DEF TestInv, TestTypeOK, Volumes

(* The tables that count as completed are copied in this very step.        *)
LEMMA CopyTablesInv == TestInv /\ CopyTables => TestInv'
<1> SUFFICES ASSUME TestInv, CopyTables PROVE TestInv'
  OBVIOUS
<1>1. UNCHANGED selfTests /\ test.at = "copy"
  BY DEF CopyTables, At
<1>2. PICK copied \in Copies :
        /\ Filled(copied)
        /\ \/ \E completed \in SUBSET {t \in Copyable : copied[t] = SeededRows(t)} :
                test' = [test EXCEPT !.at = "keys", !.completed = completed, !.copied = copied]
           \/ CommandFails
  BY DEF CopyTables
<1>3. copied \in [TestTables -> Nat]
  BY SelfTestAssumption DEF Copies, TestInv, TestTypeOK, TestRuns
<1>4. volumes' \in Volumes
  BY <1>2, <1>3, FilledVolumes
<1>5. CASE CommandFails
  BY <1>1, <1>4, <1>5, FailInv
<1>6. ASSUME NEW completed \in SUBSET {t \in Copyable : copied[t] = SeededRows(t)},
             test' = [test EXCEPT !.at = "keys", !.completed = completed, !.copied = copied]
      PROVE  TestInv'
  <2>1. completed \in SUBSET TestTables
    BY DEF Copyable
  <2>2. /\ test' \in TestRuns /\ test'.at = "keys" /\ test'.verdict # "success"
        /\ test'.size = test.size /\ test'.completed = completed /\ test'.copied = copied
    BY <1>1, <1>3, <1>6, <2>1, NotSuccess DEF TestInv, TestTypeOK, TestRuns, TestPlaces
  <2>3. TestTypeOK'
    BY <1>1, <1>4, <2>2 DEF TestInv, TestTypeOK
  <2>4. CompletedIsOwn'
    BY <2>2 DEF CompletedIsOwn, SeededRows
  <2> QED
    BY <2>2, <2>3, <2>4
    DEF TestInv, At, MatchedIsSame, KeysAreThere, VerdictIsLate, SelfTestKeepsItsWord,
        SuccessIsEarned, NothingIsLeft
<1> QED
  BY <1>2, <1>5, <1>6

LEMMA AddForeignKeysInv == TestInv /\ AddForeignKeys => TestInv'
<1> SUFFICES ASSUME TestInv, AddForeignKeys PROVE TestInv'
  OBVIOUS
<1>1. UNCHANGED selfTests /\ test.at = "keys"
  BY DEF AddForeignKeys, At
<1>2. CASE volumes' = [volumes EXCEPT !.keys = TRUE] /\ To("indexes")
  <2>1. TestTypeOK' /\ test'.at = "indexes" /\ test'.verdict # "success"
    BY <1>1, <1>2, NotSuccess DEF To, TestInv, TestTypeOK, TestRuns, TestPlaces, Volumes
  <2>2. CompletedIsOwn' /\ KeysAreThere'
    BY <1>1, <1>2 DEF To, TestInv, TestTypeOK, TestRuns, Volumes, CompletedIsOwn, SeededRows, KeysAreThere
  <2> QED
    BY <2>1, <2>2
    DEF TestInv, At, MatchedIsSame, VerdictIsLate, SelfTestKeepsItsWord, SuccessIsEarned, NothingIsLeft
<1>3. CASE EndTry("escaped") /\ volumes' \in {volumes, [volumes EXCEPT !.keys = TRUE]}
  <2>1. TestTypeOK' /\ test'.at = "cleanup" /\ test'.verdict # "success"
    BY <1>1, <1>3 DEF EndTry, TestInv, TestTypeOK, TestRuns, TestPlaces, Volumes
  <2> QED
    BY <1>1, <2>1, Early
<1>4. CASE CommandFails /\ volumes' \in {volumes, [volumes EXCEPT !.keys = TRUE]}
  BY <1>1, <1>4, FailInv DEF TestInv, TestTypeOK, TestRuns, Volumes
<1> QED
  BY <1>2, <1>3, <1>4 DEF AddForeignKeys

(* Steps that leave the containers alone and go on to the judgement.       *)
LEMMA Onward ==
  ASSUME TestInv, TestTypeOK', UNCHANGED <<volumes, selfTests>>,
         test.at \in {"indexes", "validate"}, test'.at \in {"validate", "judge"},
         test'.completed = test.completed, test'.copied = test.copied,
         test'.size = test.size, test'.verdict = test.verdict,
         test'.at = "judge" /\ test'.matched => SameCounts
  PROVE  TestInv'
<1>1. \A t : SeededRows(t)' = SeededRows(t)
  BY DEF SeededRows
<1>2. MatchedIsSame'
  BY <1>1 DEF MatchedIsSame, SameCounts, There
<1> QED
  BY <1>1, <1>2
  DEF TestInv, At, CompletedIsOwn, KeysAreThere, VerdictIsLate, SelfTestKeepsItsWord,
      SuccessIsEarned, NothingIsLeft

LEMMA CreateTestIndexesInv == TestInv /\ CreateTestIndexes => TestInv'
<1> SUFFICES ASSUME TestInv, CreateTestIndexes PROVE TestInv'
  OBVIOUS
<1>1. UNCHANGED <<volumes, selfTests>> /\ test.at = "indexes"
  BY DEF CreateTestIndexes, At
<1>2. CASE To("validate")
  <2>1. /\ TestTypeOK' /\ test'.at = "validate"
        /\ test'.completed = test.completed /\ test'.copied = test.copied
        /\ test'.size = test.size /\ test'.verdict = test.verdict
    BY <1>1, <1>2 DEF To, TestInv, TestTypeOK, TestRuns, TestPlaces, Volumes
  <2> QED
    BY <1>1, <2>1, Onward
<1>3. CASE CommandFails
  BY <1>1, <1>3, FailInv DEF TestInv, TestTypeOK, TestRuns, Volumes
<1> QED
  BY <1>2, <1>3 DEF CreateTestIndexes

LEMMA ValidateTablesInv == TestInv /\ ValidateTables => TestInv'
<1> SUFFICES ASSUME TestInv, ValidateTables PROVE TestInv'
  OBVIOUS
<1>1. UNCHANGED <<volumes, selfTests>> /\ test.at = "validate"
  BY DEF ValidateTables, At
<1>2. ASSUME NEW matched \in BOOLEAN, matched => SameCounts,
             test' = [test EXCEPT !.at = "judge", !.matched = matched]
      PROVE  TestInv'
  <2>1. /\ TestTypeOK' /\ test'.at = "judge" /\ test'.matched = matched
        /\ test'.completed = test.completed /\ test'.copied = test.copied
        /\ test'.size = test.size /\ test'.verdict = test.verdict
    BY <1>1, <1>2 DEF TestInv, TestTypeOK, TestRuns, TestPlaces, Volumes
  <2> QED
    BY <1>1, <1>2, <2>1, Onward
<1>3. CASE CommandFails
  BY <1>1, <1>3, FailInv DEF TestInv, TestTypeOK, TestRuns, Volumes
<1> QED
  BY <1>2, <1>3 DEF ValidateTables

(* Success needs all tables completed, so copied by this run, and the      *)
(* target's rows to be as many.                                            *)
LEMMA JudgeInv == TestInv /\ Judge => TestInv'
<1> SUFFICES ASSUME TestInv, Judge PROVE TestInv'
  OBVIOUS
<1>1. PICK verdict \in {"success", "error"} :
        /\ test' = [test EXCEPT !.at = "cleanup", !.verdict = verdict]
        /\ verdict = "success" => test.completed = TestTables /\ test.matched
        /\ UNCHANGED <<volumes, selfTests>>
        /\ test.at = "judge"
  BY DEF Judge, EndTry, At
<1>2. /\ TestTypeOK' /\ test'.at = "cleanup" /\ test'.verdict = verdict
      /\ test'.size = test.size /\ test'.copied = test.copied
  BY <1>1 DEF TestInv, TestTypeOK, TestRuns, TestPlaces, Volumes
<1>3. SuccessIsEarned'
  <2>1. SUFFICES ASSUME verdict = "success" PROVE SuccessIsEarned'
    BY <1>2 DEF SuccessIsEarned
  <2>2. (\A t \in TestTables : test.copied[t] = SeededRows(t)) /\ SameCounts /\ volumes.keys
    BY <1>1, <2>1 DEF TestInv, CompletedIsOwn, MatchedIsSame, KeysAreThere
  <2> QED
    BY <1>1, <1>2, <2>2 DEF SuccessIsEarned, SameCounts, SeededRows, There
<1> QED
  BY <1>2, <1>3
  DEF TestInv, At, CompletedIsOwn, MatchedIsSame, KeysAreThere, VerdictIsLate,
      SelfTestKeepsItsWord, NothingIsLeft

(* The end of a run: what is left is explained.                            *)
LEMMA Ended ==
  ASSUME TestTypeOK', test' = NoTest, litter' = {} => volumes' = NoContainers
  PROVE  TestInv'
  BY DEF NoTest, TestInv, At, CompletedIsOwn, MatchedIsSame, KeysAreThere, VerdictIsLate, SelfTestKeepsItsWord,
         SuccessIsEarned, NothingIsLeft

LEMMA CleanUpInv == TestInv /\ CleanUp => TestInv'
<1> SUFFICES ASSUME TestInv, CleanUp PROVE TestInv'
  OBVIOUS
<1>1. test' = NoTest /\ volumes' \in {volumes, NoContainers} /\ UNCHANGED selfTests
  BY DEF CleanUp
<1>2. TestTypeOK'
  BY <1>1, NothingThere DEF TestInv, TestTypeOK
<1>3. litter' = {} => volumes' = NoContainers
  BY DEF CleanUp
<1> QED
  BY <1>1, <1>2, <1>3, Ended

LEMMA KillInv == TestInv /\ KillSelfTest => TestInv'
<1> SUFFICES ASSUME TestInv, KillSelfTest PROVE TestInv'
  OBVIOUS
<1>1. TestTypeOK'
  BY DEF KillSelfTest, TestInv, TestTypeOK, TestRuns, TestPlaces, Volumes, NoTest
<1>2. litter' # {}
  BY DEF KillSelfTest
<1> QED
  BY <1>1, <1>2, Ended DEF KillSelfTest

LEMMA SelfTestSteps == TestInv /\ [SelfTestNext]_selfTestVars => TestInv'
<1>1. TestInv /\ UNCHANGED selfTestVars => TestInv'
  BY DEF selfTestVars, TestInv, TestTypeOK, At, CompletedIsOwn, MatchedIsSame, KeysAreThere, VerdictIsLate,
         SelfTestKeepsItsWord, SuccessIsEarned, NothingIsLeft, SeededRows, SameCounts, There
<1> QED
  BY <1>1, StartInv, ComposeConfigInv, CleanBeforeInv, ComposeUpInv, SeedSourceInv,
     CreateTargetsInv, CopyTablesInv, AddForeignKeysInv, CreateTestIndexesInv, ValidateTablesInv,
     JudgeInv, CleanUpInv, KillInv DEF SelfTestNext

-----------------------------------------------------------------------------
(* A self-test that reports success has copied every row of the target     *)
(* itself and added the foreign keys, and containers are left only where   *)
(* that has a reason (selftest/runner.py run_self_test).                   *)
THEOREM SelfTestIsHonest == SelfTestSpec => []SelfTestKeepsItsWord
<1>1. TestInv => SelfTestKeepsItsWord
  BY DEF TestInv
<1> QED
  BY <1>1, TestInitInv, SelfTestSteps, PTL DEF SelfTestSpec

-----------------------------------------------------------------------------
(* CommandSession.                                                         *)


USE SessionAssumption

ServiceCalls ==
  {TestSource, TestTarget, ScanTables, DryRun, ApplyDdl, ApplyIndexCall, ApplyForeignCall,
   MigrateData, RunIncremental, Validate}

Working == {"starting", "doctor", "source tunnel", "target tunnel", "body", "publish", "hung",
            "close", "stop"}

WorkerOK ==
  /\ worker \in [at : Places, calls : Seq(ServiceCalls), cancelled : BOOLEAN, ok : BOOLEAN]
  /\ worker.at \in Working => worker.calls # << >>

WindowOK ==
  window \in [thread : BOOLEAN, operation : Operations \cup {"none"}, enabled : BOOLEAN,
              cancellable : BOOLEAN, terminating : BOOLEAN]

(* The event that a place of the worker has posted.  A terminated worker   *)
(* may have left its result.                                               *)
PostedOK ==
  /\ worker.at \in Working \cup {"quitting"} => posted = << >>
  /\ worker.at = "emitted" => posted = <<"completed">>
  /\ worker.at = "ended" => posted = <<"finished">>
  /\ worker.at = "none" => posted \in {<< >>, <<"completed">>}

WindowKnows ==
  /\ window.thread <=> worker.at # "none"
  /\ window.thread /\ window.enabled <=> worker.at \in {"quitting", "ended"}
  /\ ~window.thread => window.enabled
  /\ window.cancellable \/ window.terminating => window.thread /\ ~window.enabled

(* What is open, place by place.                                           *)
OpenOK ==
  /\ tunnels \subseteq Sides \cap Tunnelled /\ connected \subseteq Sides
  /\ worker.at \in {"none", "starting", "doctor", "emitted", "quitting", "ended", "source tunnel"} => tunnels = {}
  /\ worker.at = "target tunnel" => tunnels \subseteq {"source"}
  /\ worker.at \notin {"publish", "hung", "close"} => connected = {}

LeaksOK ==
  /\ leaked \subseteq Tunnelled
  /\ "terminated" \notin causes => leaked \subseteq {"source"}
  /\ causes \subseteq {"source"} => leaked = {}

(* The tunnels that a call needs are there when its adapters connect.      *)
RoutesOK ==
  /\ worker.at = "target tunnel" =>
       CurrentCall.sides \cap Tunnelled \cap {"source"} \subseteq tunnels
  /\ worker.at = "body" => CurrentCall.sides \cap Tunnelled \subseteq tunnels
  /\ TunnelsAreUsed

TroublesOK == troubles \in 0 .. MaxTroubles

SessionInv ==
  /\ WorkerOK /\ WindowOK /\ PostedOK /\ WindowKnows
  /\ OpenOK /\ LeaksOK /\ RoutesOK /\ TroublesOK

-----------------------------------------------------------------------------
(* Every operation is a sequence of service calls, with one at least.      *)
LEMMA CallsAreServices ==
  ASSUME NEW operation \in Operations
  PROVE  Calls(operation) \in Seq(ServiceCalls) /\ Calls(operation) # << >>
<1>1. \/ \E call \in {TestSource, TestTarget, ScanTables, DryRun, ApplyDdl, MigrateData} :
           Calls(operation) = <<call>>
      \/ Calls(operation) \in {FullSequence, DataSequence, IncrementalSequence}
  BY DEF Calls, Tests
<1>2. \A call \in ServiceCalls : <<call>> \in Seq(ServiceCalls) /\ <<call>> # << >>
  OBVIOUS
<1>3. FullSequence \in Seq(ServiceCalls) /\ FullSequence # << >>
  BY DEF FullSequence, ServiceCalls
<1>4. DataSequence \in Seq(ServiceCalls) /\ DataSequence # << >>
  BY DEF DataSequence, ServiceCalls
<1>5. IncrementalSequence \in Seq(ServiceCalls) /\ IncrementalSequence # << >>
  BY DEF IncrementalSequence, ServiceCalls
<1>6. {TestSource, TestTarget, ScanTables, DryRun, ApplyDdl, MigrateData} \subseteq ServiceCalls
  BY DEF ServiceCalls
<1>7. CASE \E call \in {TestSource, TestTarget, ScanTables, DryRun, ApplyDdl, MigrateData} :
              Calls(operation) = <<call>>
  BY <1>7, <1>2, <1>6, Zenon
<1>8. CASE Calls(operation) \in {FullSequence, DataSequence, IncrementalSequence}
  BY <1>8, <1>3, <1>4, <1>5, Zenon
<1> QED BY <1>1, <1>7, <1>8

(* No call but run_scan_tables scans a side without opening its tunnel.    *)
LEMMA CallsOpenWhatTheyScan ==
  ASSUME NEW call \in ServiceCalls
  PROVE  /\ call.sides \subseteq Sides
         /\ call.scans /\ "target" \notin call.sides => call.name = "scan-tables"
<1>1. CASE call = ScanTables
  BY <1>1 DEF ScanTables, Call, Sides
<1>2. CASE call # ScanTables
  <2>1. call.sides = Sides \/ call = TestTarget
    BY <1>2 DEF ServiceCalls, TestSource, DryRun, ApplyDdl, ApplyIndexCall, ApplyForeignCall,
                MigrateData, RunIncremental, Validate, Call
  <2> QED BY <2>1 DEF TestTarget, Call, Sides
<1> QED BY <1>1, <1>2

(* Emit, from a place that has posted nothing and has nothing open.        *)
LEMMA EmitKeeps ==
  ASSUME SessionInv, worker.at \in Working, NEW ok \in BOOLEAN, Emit(ok), UNCHANGED window
  PROVE  WorkerOK' /\ WindowOK' /\ PostedOK' /\ WindowKnows' /\ worker'.at = "emitted"
<1>1. posted = << >>
  BY DEF SessionInv, PostedOK
<1>3. posted' = <<"completed">>
  BY <1>1 DEF Emit
<1>2. worker' \in [at : Places, calls : Seq(ServiceCalls), cancelled : BOOLEAN, ok : BOOLEAN]
      /\ worker'.at = "emitted"
  BY DEF SessionInv, WorkerOK, Emit, Places
<1>4. worker.at \notin {"none", "quitting", "ended"}
  BY DEF Working
<1>5. WindowOK' /\ WindowKnows'
  BY <1>2, <1>4 DEF SessionInv, WindowOK, WindowKnows
<1> QED BY <1>2, <1>3, <1>5 DEF WorkerOK, PostedOK, Working

(* The worker goes on to another place, posting nothing.                   *)
LEMMA WorkingKeeps ==
  ASSUME SessionInv, worker.at \in Working, NEW place \in Working, NEW ok \in BOOLEAN,
         worker' = [worker EXCEPT !.at = place, !.ok = ok], UNCHANGED <<window, posted>>
  PROVE  /\ WorkerOK' /\ WindowOK' /\ PostedOK' /\ WindowKnows'
         /\ worker'.at = place /\ worker'.calls = worker.calls
<1>1. place \in Places /\ {worker.at, place} \cap {"none", "quitting", "ended", "emitted"} = {}
  BY DEF Working, Places
<1>2. WorkerOK' /\ worker'.at = place /\ worker'.calls = worker.calls
  BY <1>1 DEF SessionInv, WorkerOK
<1>3. WindowOK' /\ WindowKnows'
  BY <1>1, <1>2 DEF SessionInv, WindowOK, WindowKnows
<1>4. PostedOK'
  BY <1>1, <1>2 DEF SessionInv, PostedOK
<1> QED BY <1>2, <1>3, <1>4

LEMMA GoingOnKeeps ==
  ASSUME SessionInv, worker.at \in Working, NEW place \in Working,
         worker' = [worker EXCEPT !.at = place], UNCHANGED <<window, posted>>
  PROVE  /\ WorkerOK' /\ WindowOK' /\ PostedOK' /\ WindowKnows'
         /\ worker'.at = place /\ worker'.calls = worker.calls
<1>1. worker.ok \in BOOLEAN /\ worker' = [worker EXCEPT !.at = place, !.ok = worker.ok]
  BY DEF SessionInv, WorkerOK
<1> QED BY <1>1, WorkingKeeps

LEMMA NoWorkerIsOK == ASSUME worker' = NoWorker PROVE WorkerOK' /\ worker'.at = "none"
<1>1. NoWorker \in [at : Places, calls : Seq(ServiceCalls), cancelled : BOOLEAN, ok : BOOLEAN]
      /\ NoWorker.at = "none"
  BY DEF NoWorker, Places
<1> QED BY <1>1 DEF WorkerOK, Working

(* Which place an event was posted from.                                   *)
LEMMA EventsOfPlaces ==
  ASSUME SessionInv, posted # << >>
  PROVE  \/ posted = <<"completed">> /\ worker.at \in {"emitted", "none"}
         \/ posted = <<"finished">> /\ worker.at = "ended"
<1>1. worker.at \in Places
  BY DEF SessionInv, WorkerOK
<1> QED BY <1>1, Zenon DEF SessionInv, PostedOK, Places, Working

LEMMA TroubleKeeps ==
  ASSUME TroublesOK, Trouble \/ UNCHANGED troubles PROVE TroublesOK'
  BY DEF Trouble, TroublesOK

LEMMA InitEstablishes == SessionInit => SessionInv
<1> SUFFICES ASSUME SessionInit PROVE SessionInv
  OBVIOUS
<1> USE DEF SessionInit
<1>1. WorkerOK /\ WindowOK
  BY DEF WorkerOK, WindowOK, NoWorker, Idle, Places, Working
<1>2. PostedOK /\ WindowKnows
  BY DEF PostedOK, WindowKnows, NoWorker, Idle, Working
<1>3. OpenOK /\ LeaksOK /\ RoutesOK /\ TroublesOK
  BY DEF OpenOK, LeaksOK, RoutesOK, TroublesOK, TunnelsAreUsed, NoWorker
<1> QED BY <1>1, <1>2, <1>3 DEF SessionInv

-----------------------------------------------------------------------------
(* One lemma per action.                                                   *)

LEMMA ClickKeeps ==
  ASSUME SessionInv, NEW operation \in Operations, Click(operation)
  PROVE  SessionInv'
<1> USE DEF SessionInv, Click, Listening
<1>1. worker.at = "none" /\ worker'.at = "starting" /\ posted' = << >> /\ worker'.calls = Calls(operation)
  BY DEF WindowKnows, NoWorker
<1>2. WorkerOK'
  BY <1>1, CallsAreServices DEF WorkerOK, NoWorker, Places
<1>3. WindowOK'
  BY DEF WindowOK
<1>4. PostedOK' /\ WindowKnows'
  BY <1>1 DEF PostedOK, WindowKnows, Working
<1>5. OpenOK' /\ LeaksOK' /\ TroublesOK'
  BY <1>1 DEF OpenOK, LeaksOK, TroublesOK
<1>6. RoutesOK'
  BY <1>1 DEF RoutesOK, TunnelsAreUsed
<1> QED BY <1>2, <1>3, <1>4, <1>5, <1>6

LEMMA CancelKeeps == ASSUME SessionInv, Cancel PROVE SessionInv'
<1> USE DEF SessionInv, Cancel, Listening
<1>1. worker'.at = worker.at /\ worker'.calls = worker.calls
  BY DEF WorkerOK
<1>2. WorkerOK'
  <2> DEFINE cancelled == worker.at # "starting"
  <2>1. cancelled \in BOOLEAN /\ worker' = [worker EXCEPT !.cancelled = cancelled]
    OBVIOUS
  <2> HIDE DEF cancelled
  <2> QED BY <2>1 DEF WorkerOK
<1>6. WindowOK'
  <2> DEFINE terminating == window.operation \in Tests
  <2>1. /\ terminating \in BOOLEAN
        /\ window' = [window EXCEPT !.cancellable = FALSE, !.terminating = terminating]
    OBVIOUS
  <2> HIDE DEF terminating
  <2> QED BY <2>1 DEF WindowOK
<1>3. PostedOK' /\ WindowKnows'
  BY <1>1 DEF PostedOK, WindowKnows, WindowOK
<1>4. OpenOK' /\ LeaksOK' /\ TroublesOK'
  BY <1>1 DEF OpenOK, LeaksOK, TroublesOK
<1>5. RoutesOK'
  BY <1>1 DEF RoutesOK, TunnelsAreUsed, CurrentCall
<1> QED BY <1>2, <1>6, <1>3, <1>4, <1>5

LEMMA TerminateKeeps == ASSUME SessionInv, Terminate PROVE SessionInv'
<1> USE DEF SessionInv, Terminate
<1>1. worker'.at = "none" /\ posted' \in {<< >>, <<"completed">>}
  BY DEF NoWorker, PostedOK, WindowKnows, WorkerOK, Places, Working
<1>2. WorkerOK'
  BY NoWorkerIsOK
<1>6. WindowOK'
  BY DEF WindowOK, Idle
<1>3. PostedOK' /\ WindowKnows'
  BY <1>1 DEF PostedOK, WindowKnows, Idle, Working
<1>4. OpenOK' /\ LeaksOK' /\ TroublesOK'
  BY <1>1 DEF OpenOK, LeaksOK, TroublesOK
<1>5. RoutesOK'
  BY <1>1 DEF RoutesOK, TunnelsAreUsed
<1> QED BY <1>2, <1>6, <1>3, <1>4, <1>5

LEMMA CommandCompletedKeeps == ASSUME SessionInv, CommandCompleted PROVE SessionInv'
<1> USE DEF SessionInv, CommandCompleted, Handles
<1>a. posted = <<"completed">> /\ worker.at \in {"emitted", "none"}
  <2>1. posted # << >> /\ Head(posted) = "completed"
    OBVIOUS
  <2>2. posted # <<"finished">>
    BY <2>1
  <2> QED BY <2>1, <2>2, EventsOfPlaces, Zenon
<1>1. posted = <<"completed">> /\ posted' = << >> /\ worker.at \in {"emitted", "none"}
  BY <1>a
<1>2. worker'.at = (IF window.thread THEN "quitting" ELSE "none") /\ worker'.calls = worker.calls
  BY <1>1 DEF WorkerOK, WindowKnows
<1>3. WorkerOK' /\ WindowOK'
  BY <1>1 DEF WorkerOK, WindowOK, Places, Working
<1>b. worker'.at \in {"quitting", "none"} /\ routes' = routes
  BY <1>2, Zenon
<1>4. PostedOK'
  <2> HIDE DEF SessionInv, CommandCompleted, Handles
  <2> QED BY <1>1, <1>b DEF PostedOK, Working
<1>7. WindowKnows'
  <2>1. /\ window'.thread = window.thread /\ window'.enabled = TRUE
        /\ window'.cancellable = FALSE /\ window'.terminating = window.terminating
    BY DEF WindowOK
  <2>2. ~window.terminating
    OBVIOUS
  <2> QED BY <1>1, <1>2, <2>1, <2>2 DEF WindowKnows
<1>5. OpenOK' /\ LeaksOK' /\ TroublesOK'
  BY <1>1, <1>2 DEF OpenOK, LeaksOK, TroublesOK
<1>6. RoutesOK'
  <2> HIDE DEF CommandCompleted, Handles
  <2>1. worker'.at # "target tunnel" /\ worker'.at # "body"
    BY <1>b
  <2> QED BY <2>1, <1>b DEF RoutesOK, TunnelsAreUsed
<1> QED BY <1>3, <1>4, <1>5, <1>6, <1>7

LEMMA ClearWorkerKeeps == ASSUME SessionInv, ClearWorker PROVE SessionInv'
<1> USE DEF SessionInv, ClearWorker, Handles
<1> HIDE DEF SessionInv
<1>1. posted = <<"finished">> /\ posted' = << >> /\ worker.at = "ended" /\ worker'.at = "none"
  BY EventsOfPlaces, NoWorkerIsOK
<1> USE DEF SessionInv
<1>2. WorkerOK' /\ WindowOK'
  BY NoWorkerIsOK DEF WindowOK
<1>3. PostedOK' /\ WindowKnows'
  BY <1>1 DEF PostedOK, WindowKnows, WindowOK, Working
<1>4. OpenOK' /\ LeaksOK' /\ TroublesOK'
  BY <1>1 DEF OpenOK, LeaksOK, TroublesOK
<1>5. RoutesOK'
  BY <1>1 DEF RoutesOK, TunnelsAreUsed
<1> QED BY <1>2, <1>3, <1>4, <1>5

LEMMA BeginKeeps == ASSUME SessionInv, Begin PROVE SessionInv'
<1> DEFINE place == IF window.operation \in Tests THEN "source tunnel" ELSE "doctor"
<1>1. place \in Working /\ worker.at \in Working /\ place \in {"source tunnel", "doctor"}
  BY DEF Begin, Working
<1>2. worker' = [worker EXCEPT !.at = place] /\ UNCHANGED <<window, posted>>
  BY DEF Begin
<1> HIDE DEF place
<1>3. WorkerOK' /\ WindowOK' /\ PostedOK' /\ WindowKnows' /\ worker'.at = place
  BY <1>1, <1>2, GoingOnKeeps
<1>4. OpenOK' /\ LeaksOK' /\ TroublesOK'
  BY <1>1, <1>3 DEF SessionInv, Begin, OpenOK, LeaksOK, TroublesOK
<1>5. RoutesOK'
  BY <1>1, <1>3 DEF SessionInv, Begin, RoutesOK, TunnelsAreUsed
<1> QED BY <1>3, <1>4, <1>5 DEF SessionInv

LEMMA PreflightKeeps == ASSUME SessionInv, Preflight PROVE SessionInv'
<1>1. worker.at \in Working /\ "source tunnel" \in Working
  BY DEF Preflight, Working
<1>2. /\ WorkerOK' /\ WindowOK' /\ PostedOK' /\ WindowKnows'
      /\ worker'.at \in {"source tunnel", "emitted"}
  <2>1. CASE worker' = [worker EXCEPT !.at = "source tunnel"] /\ UNCHANGED posted
    BY <1>1, <2>1, GoingOnKeeps DEF Preflight
  <2>2. CASE Emit(FALSE)
    BY <1>1, <2>2, EmitKeeps DEF Preflight
  <2> QED BY <2>1, <2>2 DEF Preflight
<1>3. OpenOK' /\ LeaksOK'
  BY <1>2 DEF SessionInv, Preflight, OpenOK, LeaksOK
<1>4. TroublesOK'
  <2>1. Trouble \/ UNCHANGED troubles
    BY Zenon DEF Preflight
  <2> QED BY <2>1, TroubleKeeps DEF SessionInv
<1>5. RoutesOK'
  BY <1>2 DEF SessionInv, Preflight, RoutesOK, TunnelsAreUsed
<1> QED BY <1>2, <1>3, <1>4, <1>5 DEF SessionInv

LEMMA OpenTunnelKeeps ==
  ASSUME SessionInv, NEW side \in Sides, OpenTunnel(side) PROVE SessionInv'
<1>1. worker.at \in Working /\ AfterTunnel(side) \in Working
  BY DEF OpenTunnel, AtTunnel, AfterTunnel, Working
<1>2. /\ WorkerOK' /\ WindowOK' /\ PostedOK' /\ WindowKnows'
      /\ worker'.at = AfterTunnel(side) /\ worker'.calls = worker.calls
  BY <1>1, GoingOnKeeps DEF OpenTunnel
<1>3. CurrentCall \in ServiceCalls /\ CurrentCall' = CurrentCall
  BY <1>1, <1>2 DEF SessionInv, WorkerOK, CurrentCall
<1>4. CurrentCall.sides \subseteq Sides
  BY <1>3, CallsOpenWhatTheyScan
<1>a. UNCHANGED <<connected, leaked, routes, causes, troubles>>
  BY DEF OpenTunnel
<1>5. OpenOK' /\ RoutesOK'
  <2>1. CASE side = "source"
    <3>1. worker.at = "source tunnel" /\ worker'.at = "target tunnel" /\ tunnels = {}
      BY <2>1, <1>2 DEF SessionInv, OpenTunnel, AtTunnel, AfterTunnel, OpenOK
    <3>2. tunnels' = CurrentCall.sides \cap Tunnelled \cap {"source"}
      BY <2>1, <3>1 DEF OpenTunnel, Needs
    <3> QED BY <3>1, <3>2, <1>a, <1>3, <1>4 DEF SessionInv, OpenOK, RoutesOK, TunnelsAreUsed
  <2>2. CASE side = "target"
    <3>1. worker.at = "target tunnel" /\ worker'.at = "body" /\ tunnels \subseteq {"source"}
      BY <2>2, <1>2 DEF SessionInv, OpenTunnel, AtTunnel, AfterTunnel, OpenOK
    <3>2. /\ CurrentCall.sides \cap Tunnelled \cap {"source"} \subseteq tunnels
          /\ tunnels \subseteq Sides \cap Tunnelled /\ connected = {}
      BY <3>1 DEF SessionInv, RoutesOK, OpenOK
    <3>3. tunnels' = tunnels \cup (CurrentCall.sides \cap Tunnelled \cap {"target"})
      BY <2>2 DEF OpenTunnel, Needs
    <3>4. CurrentCall.sides \cap Tunnelled \subseteq tunnels' /\ tunnels' \subseteq Sides \cap Tunnelled
      BY <3>2, <3>3, <1>4, <2>2 DEF Sides
    <3> QED BY <3>1, <3>2, <3>4, <1>a, <1>3 DEF SessionInv, OpenOK, RoutesOK, TunnelsAreUsed
  <2> QED BY <2>1, <2>2 DEF Sides
<1>6. LeaksOK' /\ TroublesOK'
  BY <1>a DEF SessionInv, LeaksOK, TroublesOK
<1> QED BY <1>2, <1>5, <1>6 DEF SessionInv

LEMMA TunnelFailsKeeps ==
  ASSUME SessionInv, NEW side \in Sides, TunnelFails(side) PROVE SessionInv'
<1>1. worker.at \in Working
  BY DEF TunnelFails, AtTunnel, Working
<1>2. WorkerOK' /\ WindowOK' /\ PostedOK' /\ WindowKnows' /\ worker'.at = "emitted"
  BY <1>1, EmitKeeps DEF TunnelFails
<1>3. OpenOK'
  BY <1>2 DEF SessionInv, TunnelFails, OpenOK, AtTunnel
<1>4. LeaksOK'
  BY DEF SessionInv, TunnelFails, LeaksOK, OpenOK, AtTunnel, Sides
<1>5. TroublesOK'
  BY DEF SessionInv, TunnelFails, Trouble, TroublesOK
<1>6. RoutesOK'
  BY <1>2 DEF SessionInv, TunnelFails, RoutesOK, TunnelsAreUsed
<1> QED BY <1>2, <1>3, <1>4, <1>5, <1>6 DEF SessionInv

LEMMA BodyKeeps == ASSUME SessionInv, Body PROVE SessionInv'
<1> DEFINE place == IF CurrentCall.publishes THEN "publish" ELSE "close"
<1>1. worker.at = "body" /\ {worker.at, place, "close", "hung"} \subseteq Working
  BY DEF Body, Working
<1>2. /\ WorkerOK' /\ WindowOK' /\ PostedOK' /\ WindowKnows'
      /\ worker'.at \in {"publish", "close", "hung"} /\ worker'.calls = worker.calls
  <2>1. CASE worker' = [worker EXCEPT !.at = place]
    BY <1>1, <2>1, GoingOnKeeps DEF Body
  <2>2. CASE worker' = [worker EXCEPT !.at = "close", !.ok = FALSE]
    BY <1>1, <2>2, WorkingKeeps DEF Body
  <2>3. CASE worker' = [worker EXCEPT !.at = "hung"]
    BY <1>1, <2>3, GoingOnKeeps DEF Body
  <2> QED BY <2>1, <2>2, <2>3 DEF Body
<1>3. CurrentCall \in ServiceCalls
  BY <1>1 DEF SessionInv, WorkerOK, CurrentCall
<1>4. UNCHANGED <<tunnels, leaked, causes>> /\ connected' = CurrentCall.sides
  BY DEF Body
<1>5. OpenOK' /\ LeaksOK'
  BY <1>2, <1>3, <1>4, CallsOpenWhatTheyScan DEF SessionInv, OpenOK, LeaksOK
<1>6. TroublesOK'
  <2>1. Trouble \/ UNCHANGED troubles
    BY Zenon DEF Body
  <2> QED BY <2>1, TroubleKeeps DEF SessionInv
<1>7. RoutesOK'
  <2>1. SUFFICES TunnelsAreUsed'
    BY <1>2 DEF RoutesOK
  <2>2. SUFFICES ASSUME NEW route \in routes', route[3] = "direct", route[2] \in Tunnelled
                 PROVE  route[1] = "scan-tables" /\ route[2] = "target"
    BY <2>1 DEF TunnelsAreUsed
  <2>3. CASE route \in routes
    BY <2>3, <2>2 DEF SessionInv, RoutesOK, TunnelsAreUsed
  <2>4. CASE route \notin routes
    <3>1. PICK side \in CurrentCall.sides \cup (IF CurrentCall.scans THEN {"target"} ELSE {}) :
            route = Through(side)
      BY <2>4, <2>2 DEF Body
    <3>2. side \notin tunnels /\ side \in Tunnelled /\ route[1] = CurrentCall.name /\ route[2] = side
      BY <3>1, <2>2 DEF Through
    <3>3. side \notin CurrentCall.sides
      BY <3>2, <1>1 DEF SessionInv, RoutesOK
    <3>4. side = "target" /\ CurrentCall.scans
      BY <3>1, <3>3
    <3> QED BY <3>2, <3>3, <3>4, <1>3, CallsOpenWhatTheyScan
  <2> QED BY <2>3, <2>4
<1> QED BY <1>2, <1>5, <1>6, <1>7 DEF SessionInv

LEMMA PublishKeeps == ASSUME SessionInv, Publish PROVE SessionInv'
<1> DEFINE ok == ~worker.cancelled
<1>1. worker.at \in Working /\ "close" \in Working /\ ok \in BOOLEAN
  BY DEF Publish, Working
<1>2. worker' = [worker EXCEPT !.at = "close", !.ok = ok] /\ UNCHANGED <<window, posted>>
  BY DEF Publish
<1> HIDE DEF ok
<1>3. WorkerOK' /\ WindowOK' /\ PostedOK' /\ WindowKnows' /\ worker'.at = "close"
  BY <1>1, <1>2, WorkingKeeps
<1>4. OpenOK' /\ LeaksOK' /\ RoutesOK' /\ TroublesOK'
  BY <1>3 DEF SessionInv, Publish, OpenOK, LeaksOK, RoutesOK, TroublesOK, TunnelsAreUsed
<1> QED BY <1>3, <1>4 DEF SessionInv

LEMMA CloseAdaptersKeeps == ASSUME SessionInv, CloseAdapters PROVE SessionInv'
<1>1. worker.at \in Working /\ "stop" \in Working
  BY DEF CloseAdapters, Working
<1>2. WorkerOK' /\ WindowOK' /\ PostedOK' /\ WindowKnows' /\ worker'.at = "stop"
  BY <1>1, GoingOnKeeps DEF CloseAdapters
<1>3. OpenOK' /\ LeaksOK' /\ RoutesOK' /\ TroublesOK'
  BY <1>2 DEF SessionInv, CloseAdapters, OpenOK, LeaksOK, RoutesOK, TroublesOK, TunnelsAreUsed
<1> QED BY <1>2, <1>3 DEF SessionInv

LEMMA RestOfCalls ==
  ASSUME NEW calls \in Seq(ServiceCalls), calls # << >>, Len(calls) # 1
  PROVE  Tail(calls) \in Seq(ServiceCalls) /\ Tail(calls) # << >>
<1>1. Len(calls) \in Nat /\ Len(calls) > 1
  OBVIOUS
<1>2. Tail(calls) \in Seq(ServiceCalls)
  BY <1>1
<1>3. Len(Tail(calls)) = Len(calls) - 1
  BY <1>1
<1>4. Len(Tail(calls)) # 0
  BY <1>1, <1>3
<1>5. Len(<< >>) = 0
  OBVIOUS
<1> QED BY <1>2, <1>4, <1>5, Zenon

LEMMA StopTunnelsKeeps == ASSUME SessionInv, StopTunnels PROVE SessionInv'
<1>1. worker.at = "stop" /\ worker.at \in Working /\ connected = {}
  BY DEF StopTunnels, Working, SessionInv, OpenOK
<1>2. tunnels' \subseteq tunnels /\ UNCHANGED <<window, connected, leaked, routes, causes, troubles>>
  BY DEF StopTunnels
<1>3. LeaksOK' /\ TroublesOK'
  BY <1>2 DEF SessionInv, LeaksOK, TroublesOK
<1>4. CASE UNCHANGED <<worker, posted>>
  BY <1>1, <1>2, <1>3, <1>4 DEF SessionInv, WorkerOK, WindowOK, PostedOK, WindowKnows, OpenOK, RoutesOK,
                               TunnelsAreUsed
<1>5. CASE tunnels' = {} /\ Emit(worker.ok)
  <2>1. WorkerOK' /\ WindowOK' /\ PostedOK' /\ WindowKnows' /\ worker'.at = "emitted"
    BY <1>1, <1>2, <1>5, EmitKeeps DEF SessionInv, WorkerOK
  <2> QED BY <2>1, <1>1, <1>2, <1>3, <1>5 DEF SessionInv, OpenOK, RoutesOK, TunnelsAreUsed
<1>6. CASE /\ tunnels' = {} /\ Len(worker.calls) # 1
           /\ worker' = [worker EXCEPT !.calls = Tail(@), !.at = "source tunnel"] /\ UNCHANGED posted
  <2>1. worker.calls \in Seq(ServiceCalls) /\ worker.calls # << >>
    BY <1>1 DEF SessionInv, WorkerOK
  <2>2. Tail(worker.calls) \in Seq(ServiceCalls) /\ Tail(worker.calls) # << >>
    BY <2>1, <1>6, RestOfCalls, Zenon
  <2>3. worker'.at = "source tunnel" /\ WorkerOK'
    BY <1>6, <2>2 DEF SessionInv, WorkerOK, Places
  <2>4. WindowOK' /\ PostedOK' /\ WindowKnows'
    BY <1>1, <1>2, <1>6, <2>3 DEF SessionInv, WindowOK, PostedOK, WindowKnows, Working
  <2> QED BY <2>3, <2>4, <1>1, <1>2, <1>3, <1>6 DEF SessionInv, OpenOK, RoutesOK, TunnelsAreUsed
<1> QED BY <1>4, <1>5, <1>6, Zenon DEF StopTunnels

LEMMA ThreadEndsKeeps == ASSUME SessionInv, ThreadEnds PROVE SessionInv'
<1>1. posted = << >> /\ posted' = <<"finished">>
  <2>1. posted = << >>
    BY DEF ThreadEnds, SessionInv, PostedOK
  <2> QED BY <2>1 DEF ThreadEnds
<1>2. worker.at = "quitting" /\ worker'.at = "ended" /\ WorkerOK'
  BY DEF ThreadEnds, SessionInv, WorkerOK, Places, Working
<1>3. WindowOK' /\ PostedOK' /\ WindowKnows'
  BY <1>1, <1>2 DEF ThreadEnds, SessionInv, WindowOK, PostedOK, WindowKnows, Working
<1>4. OpenOK' /\ LeaksOK' /\ RoutesOK' /\ TroublesOK'
  BY <1>2 DEF ThreadEnds, SessionInv, OpenOK, LeaksOK, RoutesOK, TroublesOK, TunnelsAreUsed
<1> QED BY <1>2, <1>3, <1>4 DEF SessionInv

LEMMA StutteringKeeps == ASSUME SessionInv, UNCHANGED sessionVars PROVE SessionInv'
<1> USE DEF SessionInv, sessionVars
<1>1. WorkerOK' /\ WindowOK' /\ PostedOK' /\ WindowKnows'
  BY DEF WorkerOK, WindowOK, PostedOK, WindowKnows
<1>2. OpenOK' /\ LeaksOK' /\ TroublesOK'
  BY DEF OpenOK, LeaksOK, TroublesOK
<1>3. RoutesOK'
  BY DEF RoutesOK, TunnelsAreUsed, CurrentCall
<1> QED BY <1>1, <1>2, <1>3

LEMMA NextKeeps == SessionInv /\ [SessionNext]_sessionVars => SessionInv'
<1> SUFFICES ASSUME SessionInv, [SessionNext]_sessionVars PROVE SessionInv'
  OBVIOUS
<1>1. CASE Cancel
  BY <1>1, CancelKeeps
<1>2. CASE MainLoop
  BY <1>2, TerminateKeeps, CommandCompletedKeeps, ClearWorkerKeeps DEF MainLoop
<1>3. CASE WorkerSteps
  BY <1>3, BeginKeeps, PreflightKeeps, OpenTunnelKeeps, TunnelFailsKeeps, BodyKeeps, PublishKeeps,
     CloseAdaptersKeeps, StopTunnelsKeeps, ThreadEndsKeeps DEF WorkerSteps
<1>4. CASE \E operation \in Operations : Click(operation)
  BY <1>4, ClickKeeps
<1>5. CASE UNCHANGED sessionVars
  BY <1>5, StutteringKeeps
<1> QED BY <1>1, <1>2, <1>3, <1>4, <1>5 DEF SessionNext

-----------------------------------------------------------------------------
LEMMA SessionInvariant == SessionSpec => []SessionInv
  BY InitEstablishes, NextKeeps, PTL DEF SessionSpec

(* Events, places and what is open stay what they can be, and at most one  *)
(* event is waiting (the queued signals of CommandWorker and QThread).     *)
THEOREM SessionTypeCorrect == SessionSpec => []SessionTypeOK
<1>1. SessionInv => SessionTypeOK
  <2> SUFFICES ASSUME SessionInv PROVE SessionTypeOK
    OBVIOUS
  <2>1. worker.at \in Places /\ Len(posted) <= 1
    <3>1. posted \in {<< >>, <<"completed">>, <<"finished">>}
      BY EventsOfPlaces
    <3> QED BY <3>1 DEF SessionInv, WorkerOK
  <2> QED BY <2>1 DEF SessionInv, SessionTypeOK, WindowOK, OpenOK, LeaksOK, TroublesOK
<1> QED BY <1>1, SessionInvariant, PTL

(* One worker at a time, however clicks, cancels, terminated threads and   *)
(* late results follow one another (_run, _command_completed,              *)
(* _terminate_running_thread).                                             *)
THEOREM OnlyOneWorker == SessionSpec => []OneWorker
<1>1. SessionInv => OneWorker
  BY DEF SessionInv, WindowKnows, OneWorker
<1> QED BY <1>1, SessionInvariant, PTL

(* A database is never reached past its tunnel, but for the target scan of *)
(* scan-tables (TunnelSession, run_scan_tables).                           *)
THEOREM NoDetour == SessionSpec => []TunnelsAreUsed
<1>1. SessionInv => TunnelsAreUsed
  BY DEF SessionInv, RoutesOK
<1> QED BY <1>1, SessionInvariant, PTL

(* A call that ends has closed its connections and tunnels; a tunnel that  *)
(* stays is a source tunnel behind a failed target tunnel, or that of a    *)
(* terminated test (TunnelSession.__enter__, QThread.terminate).           *)
THEOREM NothingStaysOpen == SessionSpec => []ResourcesAreReleased
<1>1. SessionInv => ResourcesAreReleased
  BY DEF SessionInv, OpenOK, LeaksOK, ResourcesAreReleased
<1> QED BY <1>1, SessionInvariant, PTL
=============================================================================
