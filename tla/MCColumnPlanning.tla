-------------------------- MODULE MCColumnPlanning --------------------------
(* Instances of ColumnPlanning for TLC.                                    *)
EXTENDS ColumnPlanning

(* A source with and one without a third column.                           *)
SomeSources ==
  {<<"required", "optional", "required">>, <<"required", "defaulted">>}

(* The columns of a target: on PostgreSQL in the order of the source, on   *)
(* MySQL in the other.                                                     *)
ClassChoices(c) ==
  CASE c = 1 -> {"required"} [] c = 2 -> {"required", "optional"} [] c = 3 -> {"defaulted", "optional"}

SomeColumns ==
  {f \in UNION {[S -> Classes] : S \in SUBSET {1, 2, 3}} : \A c \in DOMAIN f : f[c] \in ClassChoices(c)}

SomeTargets ==
  {[dbms |-> "postgresql", columns |-> f, order |-> Sorted(DOMAIN f)] : f \in SomeColumns}
  \cup {[dbms |-> "mysql", columns |-> f, order |-> Reverse(Sorted(DOMAIN f))] :
          f \in {g \in SomeColumns : Cardinality(DOMAIN g) # 1}}

OneMistyped == {{}, {1}, {2}}

From(n) == [how |-> "from", source |-> n]
As(h)   == [how |-> h, source |-> 0]
OneSetting == {From(1), From(2), From(3)} \cup {As(h) : h \in {"skip", "null", "default", "invalid"}}

SomeSettings ==
  {NoTable} \cup UNION {[{c} -> OneSetting] : c \in {1, 2, 3}}
  \cup {f \in [{2, 3} -> OneSetting] : f[2].how = "from" /\ f[3].how \in {"from", "skip"}}
=============================================================================
