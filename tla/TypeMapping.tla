----------------------------- MODULE TypeMapping -----------------------------
(***************************************************************************)
(* How the type of a column travels (schema/type_mapping.py): the catalog  *)
(* of a server names it, the reader turns the name into a common type with *)
(* a conversion policy, the writer turns the common type into a type of    *)
(* the target, and the target's catalog names that one in its own way.  A  *)
(* table may be migrated on from there, and a sync run alters a column     *)
(* whose common type differs from that of its source.                      *)
(***************************************************************************)
EXTENDS Integers, FiniteSets

CONSTANTS
  Lengths,     \* lengths of strings and binaries
  Precisions,  \* precisions of temporal types, without the default of PostgreSQL
  MaxHops      \* bound: migrations, one after the other

ASSUME TypeAssumption ==
  /\ Lengths \subseteq Nat \ {0} /\ Precisions \subseteq 0 .. 5 /\ MaxHops \in Nat

Dbms == {"postgresql", "mysql"}

Absent == -1

(* A type as a catalog names it: p is its length or precision.             *)
Plain(name)       == [name |-> name, p |-> Absent, s |-> Absent]
Sized(name, p)    == [name |-> name, p |-> p, s |-> Absent]
Scaled(name, p, s) == [name |-> name, p |-> p, s |-> s]

Kind(kind, policy) == [kind |-> kind, policy |-> policy, p |-> Absent, s |-> Absent]
AutoConvert(kind) == Kind(kind, "auto")
Warn(kind) == Kind(kind, "warn")
Manual(kind) == Kind(kind, "manual")

Temporals == {"timestamp", "time", "timestamptz", "timetz"}

(* What the catalogs can say: PostgreSQL always gives a precision with a   *)
(* temporal type, 6 unless one was declared. The blank in the name of a    *)
(* type (tinyint unsigned, double precision) is written as an underscore.  *)
CatalogTypes(dbms) ==
  IF dbms = "postgresql"
  THEN {Sized(name, n) : name \in {"varchar", "char"}, n \in Lengths}
       \cup {Scaled("numeric", 10, 0), Scaled("numeric", 12, 2)}
       \cup {Sized(name, n) : name \in Temporals, n \in Precisions \cup {6}}
       \cup {Plain(name) : name \in {"varchar", "numeric", "text", "integer", "bigint", "smallint",
               "boolean", "date", "json", "jsonb", "uuid", "bytea", "double_precision", "real", "ARRAY", "enum"}}
  ELSE {Sized(name, n) : name \in {"varchar", "char", "varbinary"}, n \in Lengths}
       \cup {Scaled("decimal", 10, 0), Scaled("decimal", 12, 2)}
       \cup {Sized(name, n) : name \in {"datetime", "timestamp", "time"}, n \in Precisions \ {0}}
       \cup {Plain(name) : name \in {"tinyint(1)", "tinyint", "tinyint_unsigned", "smallint",
               "smallint_unsigned", "mediumint", "mediumint_unsigned", "int", "int_unsigned",
               "bigint", "bigint_unsigned", "text", "longtext", "blob", "longblob", "double",
               "float", "date", "datetime", "timestamp", "time", "json", "enum"}}

-----------------------------------------------------------------------------
(* postgres_type_to_common, _map_temporal_type *)
PostgresNames ==
  [text |-> AutoConvert("text"), integer |-> AutoConvert("integer"), bigint |-> AutoConvert("bigint"),
   smallint |-> AutoConvert("smallint"), boolean |-> AutoConvert("boolean"), date |-> AutoConvert("date"),
   timestamp |-> AutoConvert("datetime"), time |-> AutoConvert("time"), json |-> AutoConvert("json"),
   bytea |-> AutoConvert("binary"), timestamptz |-> Warn("datetime"), timetz |-> Warn("time"),
   jsonb |-> Warn("json"), uuid |-> Warn("uuid")]

PostgresToCommon(t) ==
  CASE t.name \in {"varchar", "char"} /\ t.p # Absent -> [AutoConvert("string") EXCEPT !.p = t.p]
    [] t.name = "numeric" /\ t.p # Absent -> [AutoConvert("decimal") EXCEPT !.p = t.p, !.s = t.s]
    [] t.name \in DOMAIN PostgresNames -> [PostgresNames[t.name] EXCEPT !.p = t.p]
    [] OTHER -> Manual("unknown")

(* Mutant: unsigned columns keep the kind of the signed ones.              *)
MySqlIntegerSigned(name) ==
  CASE name = "tinyint(1)" -> AutoConvert("boolean")
    [] name \in {"tinyint", "tinyint_unsigned", "smallint", "smallint_unsigned"} -> AutoConvert("smallint")
    [] name \in {"mediumint", "mediumint_unsigned", "int", "int_unsigned"} -> AutoConvert("integer")
    [] OTHER -> AutoConvert("bigint")

(* _map_mysql_integer_type *)
MySqlInteger(name) ==
  CASE name = "tinyint(1)" -> AutoConvert("boolean")
    [] name \in {"tinyint", "smallint"} -> AutoConvert("smallint")
    [] name = "tinyint_unsigned" -> Warn("smallint")
    [] name \in {"mediumint", "int"} -> AutoConvert("integer")
    [] name \in {"smallint_unsigned", "mediumint_unsigned"} -> Warn("integer")
    [] name = "int_unsigned" -> Warn("bigint")
    [] name = "bigint" -> AutoConvert("bigint")
    [] name = "bigint_unsigned" -> Warn("decimal")

MySqlIntegers ==
  {"tinyint(1)", "tinyint", "tinyint_unsigned", "smallint", "smallint_unsigned", "mediumint",
   "mediumint_unsigned", "int", "int_unsigned", "bigint", "bigint_unsigned"}

(* mysql_type_to_common: a binary type with a length is not recognised.    *)
MySqlToCommon(t) ==
  CASE t.name \in {"varchar", "char"} -> [AutoConvert("string") EXCEPT !.p = t.p]
    [] t.name = "decimal" -> [AutoConvert("decimal") EXCEPT !.p = t.p, !.s = t.s]
    [] t.name \in MySqlIntegers -> MySqlInteger(t.name)
    [] t.name \in {"text", "longtext"} -> AutoConvert("text")
    [] t.name \in {"blob", "longblob"} -> AutoConvert("binary")
    [] t.name \in {"double", "float"} -> Warn("decimal")
    [] t.name = "date" -> AutoConvert("date")
    [] t.name = "datetime" -> [AutoConvert("datetime") EXCEPT !.p = t.p]
    [] t.name = "timestamp" -> [Warn("datetime") EXCEPT !.p = t.p]
    [] t.name = "time" -> [AutoConvert("time") EXCEPT !.p = t.p]
    [] t.name = "json" -> AutoConvert("json")
    [] t.name = "enum" -> Manual("text")
    [] OTHER -> Manual("unknown")

ToCommon(dbms, t) == IF dbms = "postgresql" THEN PostgresToCommon(t) ELSE MySqlToCommon(t)

(* common_type_to_mysql and the name MySQL gives the result: decimal       *)
(* stands for decimal(10,0).                                               *)
MySqlNames ==
  [text |-> "longtext", integer |-> "int", bigint |-> "bigint", smallint |-> "smallint",
   boolean |-> "tinyint(1)", date |-> "date", json |-> "json", binary |-> "longblob", unknown |-> "longtext"]

ToMySql(c) ==
  CASE c.kind = "string" -> Sized("varchar", c.p)
    [] c.kind = "decimal" -> IF c.p = Absent THEN Scaled("decimal", 10, 0) ELSE Scaled("decimal", c.p, c.s)
    [] c.kind \in {"datetime", "time"} -> Sized(c.kind, IF c.p = 0 THEN Absent ELSE c.p)
    [] c.kind = "uuid" -> Sized("char", 36)
    [] OTHER -> Plain(MySqlNames[c.kind])

(* common_type_to_postgres and the name PostgreSQL gives the result.       *)
PostgresTypes ==
  [text |-> "text", integer |-> "integer", bigint |-> "bigint", smallint |-> "smallint",
   boolean |-> "boolean", date |-> "date", json |-> "jsonb", binary |-> "bytea", uuid |-> "uuid", unknown |-> "text"]

ToPostgres(c) ==
  CASE c.kind = "string" -> Sized("varchar", c.p)
    [] c.kind = "decimal" -> IF c.p = Absent THEN Plain("numeric") ELSE Scaled("numeric", c.p, c.s)
    [] c.kind \in {"datetime", "time"} ->
         Sized(IF c.kind = "time" THEN "time" ELSE "timestamp", IF c.p = Absent THEN 6 ELSE c.p)
    [] OTHER -> Plain(PostgresTypes[c.kind])

FromCommon(dbms, c) == IF dbms = "postgresql" THEN ToPostgres(c) ELSE ToMySql(c)

(* Mutant: the conversion policies are compared as well.                   *)
RequiresTypeChangeByPolicy(c, d) == <<c.kind, c.policy, c.p, c.s>> # <<d.kind, d.policy, d.p, d.s>>

(* _requires_type_change, without an override.                             *)
RequiresTypeChange(c, d) == <<c.kind, c.p, c.s>> # <<d.kind, d.p, d.s>>

-----------------------------------------------------------------------------
VARIABLES
  from,      \* the server a table is migrated from
  here,      \* the type of the column there
  to,        \* the server it is migrated to
  there,     \* the type of the column there, or NoType
  policies,  \* history: the policies of the conversions so far
  first,     \* history: the first server
  origin,    \* history: the type of the column there
  hops

typeVars == <<from, here, to, there, policies, first, origin, hops>>

NoType == Plain("none")

Common == ToCommon(from, here)

Created == there = FromCommon(to, Common)
Satisfied == there # NoType /\ ~RequiresTypeChange(Common, ToCommon(to, there))

(* A type that the tool would have chosen itself.                          *)
Canonical == there = FromCommon(to, ToCommon(to, there))

(* CREATE TABLE: the column is new and gets rows.                          *)
CreateColumn ==
  /\ there = NoType
  /\ there' = FromCommon(to, Common)
  /\ policies' = policies \cup {Common.policy}
  /\ UNCHANGED <<from, here, to, first, origin, hops>>

(* sync over an existing column: type_change_ddls.                         *)
SyncColumn ==
  /\ there # NoType
  /\ RequiresTypeChange(Common, ToCommon(to, there))
  /\ there' = FromCommon(to, Common)
  /\ UNCHANGED <<from, here, to, policies, first, origin, hops>>

(* The target is the source of the next migration.  A column that was      *)
(* there and is narrower than the source starts a history of its own.      *)
MigrateOn ==
  /\ Created \/ Satisfied
  /\ hops < MaxHops
  /\ hops' = hops + 1
  /\ from' = to /\ here' = there
  /\ to' \in Dbms
  /\ there' = NoType
  /\ IF Created \/ Canonical THEN UNCHANGED <<policies, first, origin>>
     ELSE policies' = {} /\ first' = to /\ origin' = there

(* The target may have a column already, of any type.                      *)
TypeInit ==
  /\ from \in Dbms /\ to \in Dbms
  /\ here \in CatalogTypes(from)
  /\ there \in CatalogTypes(to) \cup {NoType}
  /\ policies = IF there = NoType THEN {} ELSE {ToCommon(from, here).policy}
  /\ first = from /\ origin = here
  /\ hops = 0

TypeNext == CreateColumn \/ SyncColumn \/ MigrateOn

TypeSpec == TypeInit /\ [][TypeNext]_typeVars

-----------------------------------------------------------------------------
(* The values of a type: bits below and above zero and decimal places of a *)
(* number, length of a string, places of a second.  The text of a document *)
(* and the encoding of strings are left out, and so are sizes that a       *)
(* server cannot declare: those fail in CREATE TABLE.                      *)
Unlimited == 1000
Numbers ==
  [boolean |-> <<0, 1>>, smallint |-> <<15, 15>>, integer |-> <<31, 31>>, bigint |-> <<63, 63>>,
   tinyint |-> <<7, 7>>, mediumint |-> <<23, 23>>, int |-> <<31, 31>>]

Capacity(t) ==
  CASE t.name \in DOMAIN Numbers -> <<"number", Numbers[t.name][1], Numbers[t.name][2], 0>>
    [] t.name = "tinyint(1)" -> <<"number", 7, 7, 0>>
    [] t.name = "tinyint_unsigned" -> <<"number", 0, 8, 0>>
    [] t.name = "smallint_unsigned" -> <<"number", 0, 16, 0>>
    [] t.name = "mediumint_unsigned" -> <<"number", 0, 24, 0>>
    [] t.name = "int_unsigned" -> <<"number", 0, 32, 0>>
    [] t.name = "bigint_unsigned" -> <<"number", 0, 64, 0>>
    [] t.name \in {"decimal", "numeric"} /\ t.p # Absent -> <<"number", 3 * (t.p - t.s), 3 * (t.p - t.s), t.s>>
    [] t = Plain("numeric") -> <<"number", Unlimited, Unlimited, Unlimited>>
    [] t.name \in {"char", "varchar"} /\ t.p # Absent -> <<"string", t.p, 0, 0>>
    [] t \in {Plain("varchar"), Plain("text"), Plain("longtext")} -> <<"string", Unlimited, 0, 0>>
    [] t.name \in {"timestamp", "datetime"} -> <<"datetime", IF t.p = Absent THEN 0 ELSE t.p, 0, 0>>
    [] t.name = "time" -> <<"time", IF t.p = Absent THEN 0 ELSE t.p, 0, 0>>
    [] t.name \in {"bytea", "blob", "longblob"} -> <<"binary", 0, 0, 0>>
    [] t.name \in {"json", "jsonb"} -> <<"json", 0, 0, 0>>
    [] OTHER -> <<t.name, 0, 0, 0>>

Fits(a, b) ==
  /\ Capacity(a)[1] = Capacity(b)[1]
  /\ \A i \in 2 .. 4 : Capacity(a)[i] =< Capacity(b)[i]

(* How far the days and hours of a type reach: years before and after the  *)
(* year 0, hours before and after midnight.  A MySQL date of zeros, which  *)
(* a strict server refuses, is none.                                       *)
Span(dbms, t) ==
  CASE t.name = "time" -> IF dbms = "mysql" THEN <<838, 838>> ELSE <<0, 24>>
    [] t.name = "date" -> IF dbms = "mysql" THEN <<-1000, 9999>> ELSE <<4713, 5874897>>
    [] t.name = "datetime" -> <<-1000, 9999>>
    [] t.name = "timestamp" -> IF dbms = "mysql" THEN <<-1970, 2038>> ELSE <<4713, 294276>>
    [] OTHER -> <<0, 0>>

Spans(d, a, e, b) == Span(d, a)[1] =< Span(e, b)[1] /\ Span(d, a)[2] =< Span(e, b)[2]

(* When every conversion on the way was AUTO_CONVERT, the last column      *)
(* holds every value of the first one, whether it was created or found     *)
(* good enough by a sync run; but for tinyint(1), which becomes a boolean, *)
(* a time of MySQL, which counts more hours than one of PostgreSQL, and    *)
(* the dates of PostgreSQL beyond the calendar of MySQL.                   *)
LossIsAnnounced ==
  there # NoType /\ policies \subseteq {"auto"} /\ (Created \/ (Satisfied /\ Canonical)) =>
    \/ /\ Fits(origin, there)
       /\ \/ Spans(first, origin, to, there)
          \/ first = "mysql" /\ to = "postgresql" /\ origin.name = "time"
          \/ first = "postgresql" /\ to = "mysql" /\ origin.name \in {"date", "timestamp"}
    \/ origin.name = "tinyint(1)"

(* A column that was created or altered for its source needs no alteration *)
(* in the next sync run, unless its type has no name of its own in the     *)
(* target or no explicit size.                                             *)
CreatedTypesSettle ==
  Created /\ ~Satisfied =>
    \/ Common.kind \in {"unknown", "uuid"}
    \/ Common.kind = "decimal" /\ Common.p = Absent
    \/ Common.kind \in {"datetime", "time"} /\ Common.p = (IF to = "mysql" THEN 0 ELSE Absent)
=============================================================================
