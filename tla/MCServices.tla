----------------------------- MODULE MCServices -----------------------------
(***************************************************************************)
(* The parts of the program that are checked one by one: a behaviour runs  *)
(* one of these machines, its `turn`, while the others stay in an initial  *)
(* state.  They share no variable.                                         *)
(***************************************************************************)
EXTENDS CommandSession, Incremental, WriteGate, MCColumnPlanning, TypeMapping,
        Validation, SchemaScan, SelfTest, TableSettings, KeysetReader

VARIABLE turn

allVars == <<sessionVars, incVars, gateVars, columnVars, typeVars, valVars, scanVars,
             selfTestVars, settingVars, readerVars, turn>>

-----------------------------------------------------------------------------
(* Incremental.                                                            *)
Names == <<"a", "b">>
SomeWindows == {[from |-> 1, to |-> 2], [from |-> 2, to |-> 0]}

(* ColumnPlanning: some of the targets and settings of the other instance. *)
(* The classes of the columns are not combined freely, and most settings   *)
(* are of the second column, or of the second and the third.               *)
FewTargets ==
  {t \in SomeTargets :
     LET S == DOMAIN t.columns IN
       /\ 3 \in S => (t.columns[3] = "optional" <=> 2 \in S /\ t.columns[2] = "required")
       /\ S \in {{}, {1, 2}, {1, 2, 3}} \/ (t.dbms = "postgresql" /\ S \in {{1}, {1, 3}, {2, 3}})}

FewSettings ==
  {f \in SomeSettings :
     /\ 1 \in DOMAIN f => f[1] = From(2)
     /\ DOMAIN f = {2} => f[2] # From(2)
     /\ DOMAIN f = {3} => f[3] \in {From(2), From(3), As("skip")}
     /\ Cardinality(DOMAIN f) = 2 => f[2] # From(2) /\ f[3] # From(3)}

FewMistyped == {{}, {2}}

(* Validation: tables without rows and with twice the sample size.         *)
SomeContents == {[k \in {} |-> "second"], <<"fraction", "second">>, <<"fraction", "null">>}

(* The usual request and those that differ from it in a respect or two.    *)
Usual == [keyed |-> TRUE, order |-> <<1, 2, 3>>, unwritten |-> FALSE, renamed |-> {},
          kind |-> "timestamp", precision |-> "microseconds", zone |-> FALSE,
          row_count |-> TRUE, checksum |-> TRUE,
          dbms |-> [source |-> "postgresql", target |-> "mysql"]]

SomeChoices ==
  {Usual, [Usual EXCEPT !.keyed = FALSE], [Usual EXCEPT !.order = <<2, 1, 3>>],
   [Usual EXCEPT !.precision = "seconds"], [Usual EXCEPT !.checksum = FALSE],
   [Usual EXCEPT !.renamed = {"key"}],
   [Usual EXCEPT !.kind = "boolean", !.renamed = {"cell"}, !.unwritten = TRUE],
   [Usual EXCEPT !.kind = "timestamptz", !.zone = TRUE,
                 !.dbms = [source |-> "mysql", target |-> "postgresql"]]}

(* SchemaScan: one index or one foreign key more, or a view.               *)
NoParts == [n \in {} |-> <<>>]

Index(parts, included, method, partial) ==
  [parts |-> parts, included |-> included, unique |-> TRUE, method |-> method, partial |-> partial]

SomeIndexes ==
  {[n \in {"ix"} |-> Index(p, i, k[1], k[2])] :
     p \in {<<1>>, <<1, 0>>, <<0>>}, i \in {<<>>, <<2>>},
     k \in {<<"btree", FALSE>>, <<"btree", TRUE>>, <<"hash", FALSE>>}}

Reference(columns, other, referenced) == [columns |-> columns, table |-> other, referenced |-> referenced]

SomeReferences ==
  {NoParts} \cup {[n \in {"fk"} |-> r] : r \in {Reference(<<1>>, 2, <<1>>), Reference(<<1, 2>>, 2, <<1, 2>>)}}

Relation(kind, columns, pk, indexes, references) ==
  [kind |-> kind, columns |-> columns, key |-> pk, indexes |-> indexes, references |-> references]

TwoColumns == <<"serial", "plain">>

Parents == {Relation("table", TwoColumns, <<1, 2>>, NoParts, f) :
              f \in {NoParts, [n \in {"fk"} |-> Reference(<<2>>, 2, <<1>>)]}}

SomeCatalogs ==
  {<<t, Relation("table", TwoColumns, <<1>>, NoParts, NoParts)>> :
     t \in {Relation("table", TwoColumns, <<1>>, i, NoParts) : i \in SomeIndexes}
            \cup {Relation("table", <<"serial", c>>, <<1>>, NoParts, NoParts) :
                     c \in {"plain", "generated", "expression"}}}
  \cup {<<t, p>> : t \in {Relation("table", TwoColumns, k, NoParts, f) :
                            k \in {<<>>, <<1>>, <<2, 1>>}, f \in SomeReferences}, p \in Parents}
  \cup {<<Relation("table", TwoColumns, <<1>>, NoParts, NoParts),
          Relation("view", <<"plain", "plain">>, <<>>, NoParts, NoParts)>>}

(* KeysetReader: three rows of two columns, by primary key, unique index   *)
(* or neither, read whole, in part or in another order.                    *)
ReadTable(values, primary, unique, generated, text, columns) ==
  [width |-> 2, rows |-> values, primary |-> primary, unique |-> unique, generated |-> generated,
   text |-> text, read |-> columns]

Pairwise == <<<<2, 2>>, <<2, 4>>, <<4, 2>>>>
Numbered == <<<<2, 6>>, <<4, 2>>, <<6, 2>>>>
WithNull == <<<<0, 4>>, <<2, 4>>, <<4, 2>>>>
Twins    == <<<<2, 2>>, <<4, 2>>, <<2, 2>>>>

SomeReadTables ==
  {ReadTable(Pairwise, k, <<>>, {}, {}, o) : k \in {<<1, 2>>, <<2, 1>>}, o \in {<<1, 2>>, <<2, 1>>, <<1>>}}
  \cup {ReadTable(Pairwise, <<2, 1>>, <<>>, {2}, {}, <<1>>), ReadTable(Pairwise, <<2>>, <<>>, {2}, {}, <<1>>)}
  \cup {ReadTable(Numbered, k, u, {}, x, o) :
           k \in {<<>>, <<1>>}, u \in {<<>>, <<1>>}, x \in {{}, {1}}, o \in {<<1, 2>>, <<2, 1>>}}
  \cup {ReadTable(v, <<>>, u, {}, {}, <<1, 2>>) : v \in {WithNull, Twins}, u \in {<<>>, <<1>>}}

(* TableSettings: the schemas are alike, so that either may be the default *)
(* at first.                                                               *)
FirstSchema == CHOOSE s \in Schemas : TRUE

-----------------------------------------------------------------------------
Alone(machine, running, atRest) == IF turn = machine THEN running ELSE atRest

IncrementalAtRest == aborts = FALSE /\ IncrementalInit
GateAtRest ==
  /\ safetyConfig = [production |-> FALSE, protection |-> FALSE, allow |-> FALSE,
                     required |-> FALSE, configured |-> FALSE]
  /\ present = {} /\ GateInit
ColumnAtRest ==
  /\ source = (CHOOSE s \in SourceChoices : TRUE) /\ nulls = {} /\ mistyped = {}
  /\ settings = NoTable /\ ignored = {} /\ policyOf = "skip" /\ before = NoTable
  /\ dbms = "mysql" /\ ColumnInit
TypeAtRest ==
  /\ from = "postgresql" /\ to = "postgresql"
  /\ here = CHOOSE t \in CatalogTypes("postgresql") : TRUE
  /\ there = NoType /\ TypeInit
ValidationAtRest ==
  /\ rows = [source |-> [k \in {} |-> "second"], target |-> NoRows]
  /\ choice = CHOOSE c \in SomeChoices : TRUE
  /\ ValidationInit
ScanAtRest == server = "mysql" /\ catalog = (CHOOSE c \in SomeCatalogs : Possible(c)) /\ ScanInit

ReaderAtRest ==
  /\ read = (CHOOSE t \in ReadTables : t.text = {}) /\ reader = "mysql" /\ ReaderInit

Init ==
  /\ turn \in {"session", "incremental", "gate", "columns", "types", "validation", "scan",
               "self-test", "settings", "reader"}
  /\ SessionInit /\ SelfTestInit
  /\ default = FirstSchema /\ SettingsInit
  /\ Alone("incremental", IncrementalInit, IncrementalAtRest)
  /\ Alone("gate", GateInit, GateAtRest)
  /\ Alone("types", TypeInit, TypeAtRest)
  /\ Alone("scan", ScanInit, ScanAtRest)
  /\ Alone("reader", ReaderInit, ReaderAtRest)
  /\ Alone("validation", ValidationInit, ValidationAtRest)
  /\ Alone("columns", ColumnInit, ColumnAtRest)

SessionTurn ==
  /\ turn = "session" /\ SessionNext
  /\ UNCHANGED <<incVars, gateVars, columnVars, typeVars, valVars, scanVars,
               selfTestVars, settingVars, readerVars, turn>>

IncrementalTurn ==
  /\ turn = "incremental" /\ IncrementalNext
  /\ UNCHANGED <<sessionVars, gateVars, columnVars, typeVars, valVars, scanVars,
               selfTestVars, settingVars, readerVars, turn>>

GateTurn ==
  /\ turn = "gate" /\ GateNext
  /\ UNCHANGED <<sessionVars, incVars, columnVars, typeVars, valVars, scanVars,
               selfTestVars, settingVars, readerVars, turn>>

ColumnTurn ==
  /\ turn = "columns" /\ ColumnNext
  /\ UNCHANGED <<sessionVars, incVars, gateVars, typeVars, valVars, scanVars,
               selfTestVars, settingVars, readerVars, turn>>

TypeTurn ==
  /\ turn = "types" /\ TypeNext
  /\ UNCHANGED <<sessionVars, incVars, gateVars, columnVars, valVars, scanVars,
               selfTestVars, settingVars, readerVars, turn>>

ValidationTurn ==
  /\ turn = "validation" /\ ValidationNext
  /\ UNCHANGED <<sessionVars, incVars, gateVars, columnVars, typeVars, scanVars,
               selfTestVars, settingVars, readerVars, turn>>

ScanTurn ==
  /\ turn = "scan" /\ ScanNext
  /\ UNCHANGED <<sessionVars, incVars, gateVars, columnVars, typeVars, valVars,
               selfTestVars, settingVars, readerVars, turn>>

SelfTestTurn ==
  /\ turn = "self-test" /\ SelfTestNext
  /\ UNCHANGED <<sessionVars, incVars, gateVars, columnVars, typeVars, valVars,
               scanVars, settingVars, readerVars, turn>>

SettingsTurn ==
  /\ turn = "settings" /\ SettingsNext
  /\ UNCHANGED <<sessionVars, incVars, gateVars, columnVars, typeVars, valVars,
               scanVars, selfTestVars, readerVars, turn>>

ReaderTurn ==
  /\ turn = "reader" /\ ReaderNext
  /\ UNCHANGED <<sessionVars, incVars, gateVars, columnVars, typeVars, valVars,
               scanVars, selfTestVars, settingVars, turn>>

Next ==
  \/ SessionTurn \/ IncrementalTurn \/ GateTurn \/ ColumnTurn \/ TypeTurn
  \/ ValidationTurn \/ ScanTurn \/ SelfTestTurn \/ SettingsTurn \/ ReaderTurn

(* Only the machine of the session has liveness properties.                *)
Spec == Init /\ [][Next]_allVars /\ SessionFairness
=============================================================================
