--------------------------- MODULE PlanningProofs ---------------------------
(***************************************************************************)
(* Proofs about ColumnPlanning, for any columns, tables and settings: what *)
(* a clean plan promises is what migrate-data does with the target that    *)
(* apply-ddl has left.                                                     *)
(*                                                                         *)
(* The heart of it is that a plan which is clean and whose columns are not *)
(* contested changes nothing when it is made again over its own result.    *)
(*                                                                         *)
(* Then the types of the columns, in TypeMapping: for every type that the  *)
(* servers can give a column, of any size, what is lost without a word is  *)
(* nothing, and the column settles after one conversion.                   *)
(***************************************************************************)
EXTENDS ColumnPlanning, TypeMapping, TableOrderProofs

PlanTypeInv ==
  /\ source \in SourceChoices /\ settings \in SettingChoices
  /\ before \in {t.columns : t \in TargetChoices}
  /\ nulls \subseteq {c \in DOMAIN source : source[c] = "optional"}
  /\ policyOf \in ColumnPolicies

(* What a command does not change.                                         *)
SamePlan == UNCHANGED planVars

-----------------------------------------------------------------------------
(* The operators of the plan depend on these alone.                        *)

LEMMA SameColumns ==
  ASSUME SamePlan
  PROVE  /\ \A c : How(c)' = How(c) /\ FedBy(c)' = FedBy(c) /\ SourceOf(c)' = SourceOf(c)
         /\ \A c : Src(c)' = Src(c)
         /\ ConfiguredSources' = ConfiguredSources
         /\ \A a, base : Claims(a, base)' = Claims(a, base)
<1> USE DEF SamePlan, planVars
<1>1. source' = source /\ settings' = settings /\ nulls' = nulls
  OBVIOUS
<1>2. \A c : How(c)' = How(c)
  BY DEF How
<1>3. \A c : FedBy(c)' = FedBy(c)
  BY <1>2 DEF FedBy
<1>4. \A c : SourceOf(c)' = SourceOf(c)
  BY <1>1, <1>2, <1>3 DEF SourceOf
<1>5. \A c : Src(c)' = Src(c)
  BY <1>1 DEF Src
<1>6. ConfiguredSources' = ConfiguredSources
  BY <1>1, <1>2 DEF ConfiguredSources
<1>7. \A a, base : Claims(a, base)' = Claims(a, base)
  BY <1>1, <1>3 DEF Claims
<1> QED BY <1>2, <1>3, <1>4, <1>5, <1>6, <1>7

LEMMA SamePlans ==
  ASSUME SamePlan, NEW base
  PROVE  /\ Renames(base)' = Renames(base) /\ ConfiguredAdds(base)' = ConfiguredAdds(base)
         /\ DefaultAdds(base)' = DefaultAdds(base) /\ Renamed(base)' = Renamed(base)
         /\ Planned(base)' = Planned(base) /\ Doubled(base)' = Doubled(base)
         /\ Unresolved(base)' <=> Unresolved(base)
         /\ \A c : Inserted(c, base)' = Inserted(c, base)
<1>1. source' = source /\ settings' = settings /\ ignored' = ignored
  BY DEF SamePlan, planVars
<1>2. Renames(base)' = Renames(base)
  BY SameColumns DEF Renames
<1>3. ConfiguredAdds(base)' = ConfiguredAdds(base)
  BY <1>1, <1>2, SameColumns DEF ConfiguredAdds
<1>4. DefaultAdds(base)' = DefaultAdds(base)
  BY <1>1, SameColumns DEF DefaultAdds
<1>5. Renamed(base)' = Renamed(base)
  BY <1>2 DEF Renamed
<1>6. Planned(base)' = Planned(base)
  BY <1>1, <1>3, <1>4, <1>5, SameColumns DEF Planned
<1>7. Doubled(base)' = Doubled(base)
  BY <1>3, <1>4, <1>5 DEF Doubled
<1>8. Unresolved(base)' <=> Unresolved(base)
  BY <1>1, <1>6, SameColumns DEF Unresolved
<1>9. WriteColumns(base)' = WriteColumns(base)
  BY <1>6, SameColumns DEF WriteColumns
<1>10. Transformed(base)' = Transformed(base)
  <2>1. \A c : (IF SourceOf(c) # 0 THEN Src(SourceOf(c)) ELSE IF How(c) = "default" THEN Value ELSE Null)'
             = (IF SourceOf(c) # 0 THEN Src(SourceOf(c)) ELSE IF How(c) = "default" THEN Value ELSE Null)
    <3> SUFFICES ASSUME NEW c
                 PROVE  (IF SourceOf(c) # 0 THEN Src(SourceOf(c)) ELSE IF How(c) = "default" THEN Value ELSE Null)'
                      = (IF SourceOf(c) # 0 THEN Src(SourceOf(c)) ELSE IF How(c) = "default" THEN Value ELSE Null)
      OBVIOUS
    <3>1. SourceOf(c)' = SourceOf(c) /\ How(c)' = How(c)
      BY SameColumns
    <3>2. Src(SourceOf(c))' = Src(SourceOf(c))
      <4>1. nulls' = nulls
        BY DEF SamePlan, planVars
      <4> QED BY <3>1, <4>1 DEF Src
    <3> QED BY <3>1, <3>2 DEF Value, Null
  <2> QED BY <1>9, <2>1 DEF Transformed
<1>11. \A c : Inserted(c, base)' = Inserted(c, base)
  BY <1>9, <1>10 DEF Inserted, Null
<1> QED BY <1>2, <1>3, <1>4, <1>5, <1>6, <1>7, <1>8, <1>11

(* Where the table is the same, so is the key of the plan.                 *)
LEMMA SameKeys ==
  ASSUME SamePlan, UNCHANGED <<table, order>>
  PROVE  Base' = Base /\ TargetKey' = TargetKey
<1>1. Base' = Base /\ source' = source
  BY DEF Base, SamePlan, planVars
<1>2. /\ Renames(Base)' = Renames(Base) /\ ConfiguredAdds(Base)' = ConfiguredAdds(Base)
      /\ DefaultAdds(Base)' = DefaultAdds(Base)
  BY <1>1, SamePlans
<1>3. \A b : After(b)' = After(b)
  BY <1>2 DEF After
<1>4. PlanOrder' = PlanOrder
  BY <1>1, <1>2, <1>3 DEF PlanOrder
<1>5. {i \in DOMAIN PlanOrder : SourceOf(PlanOrder[i]) = KeyColumn}'
    = {i \in DOMAIN PlanOrder : SourceOf(PlanOrder[i]) = KeyColumn}
  BY <1>4, SameColumns
<1> QED BY <1>1, <1>4, <1>5 DEF TargetKey

LEMMA SameQuestions ==
  ASSUME SamePlan
  PROVE  /\ FirstBase' = FirstBase
         /\ Clean' <=> Clean
         /\ NullsFit' <=> NullsFit
         /\ Executed' <=> Executed
         /\ Contested' <=> Contested
<1>1. FirstBase' = FirstBase /\ before' = before /\ policyOf' = policyOf /\ settings' = settings
  BY DEF FirstBase, SamePlan, planVars
<1>2. Clean' <=> Clean
  BY <1>1, SamePlans DEF Clean
<1>9. NullsFit' <=> NullsFit
  <2>1. Planned(FirstBase)' = Planned(FirstBase) /\ \A c : Inserted(c, FirstBase)' = Inserted(c, FirstBase)
    BY <1>1, SamePlans
  <2> QED BY <2>1 DEF NullsFit, Null
<1>3. Executed' <=> Executed
  BY <1>1, SamePlans DEF Executed
<1>4. Missing' = Missing
  BY <1>1 DEF Missing
<1>5. {FedBy(c) : c \in Missing}' = {FedBy(c) : c \in Missing}
  BY <1>4, SameColumns
<1>6. \A a : {c \in Missing : FedBy(c) = a}' = {c \in Missing : FedBy(c) = a}
  BY <1>4, SameColumns
<1>7. \A a : a \in DOMAIN Planned(FirstBase)' <=> a \in DOMAIN Planned(FirstBase)
  BY <1>1, SamePlans
<1>8. Contested' <=> Contested
  <2> DEFINE fed == {FedBy(c) : c \in Missing} \ {0}
             new(a) == a \in DOMAIN Planned(FirstBase) \ DOMAIN FirstBase
             again(a) == a \in DOMAIN settings \cap DOMAIN FirstBase
             many(a) == Cardinality({c \in Missing : FedBy(c) = a}) > 1
  <2>1. fed' = fed
    BY <1>5
  <2>2. \A a : new(a)' <=> new(a)
    BY <1>1, <1>7
  <2>3. \A a : again(a)' <=> again(a)
    BY <1>1
  <2>4. \A a : many(a)' <=> many(a)
    BY <1>6
  <2>5. Contested <=> \E a \in fed : new(a) \/ again(a) \/ many(a)
    BY DEF Contested
  <2>6. Contested' <=> \E a \in fed' : new(a)' \/ again(a)' \/ many(a)'
    BY DEF Contested
  <2> HIDE DEF fed, new, again, many
  <2> QED BY <2>1, <2>2, <2>3, <2>4, <2>5, <2>6
<1> QED BY <1>1, <1>2, <1>3, <1>8, <1>9

-----------------------------------------------------------------------------
(* The columns of a plan.                                                  *)

LEMMA FedColumns ==
  ASSUME NEW c, FedBy(c) # 0
  PROVE  /\ c \in DOMAIN settings /\ How(c) = "from"
         /\ SourceOf(c) = FedBy(c) /\ FedBy(c) \in ConfiguredSources
<1>1. How(c) = "from" /\ FedBy(c) = settings[c].source
  BY DEF FedBy
<1>2. c \in DOMAIN settings
  BY <1>1 DEF How
<1>3. SourceOf(c) = FedBy(c)
  BY <1>1 DEF SourceOf
<1>4. FedBy(c) \in ConfiguredSources
  BY <1>1, <1>2 DEF ConfiguredSources
<1> QED BY <1>1, <1>2, <1>3, <1>4

(* The last of the columns that claim the place of a column takes it.      *)
LEMMA RenamedColumns ==
  ASSUME ColumnAssumption, PlanTypeInv, NEW base
  PROVE  /\ DOMAIN Renames(base) = {b \in DOMAIN base : Claims(b, base) # {}}
         /\ \A a \in DOMAIN Renames(base) : Renames(base)[a] \in Claims(a, base)
<1>1. ASSUME NEW a, Claims(a, base) # {} PROVE Max(Claims(a, base)) \in Claims(a, base)
  <2> DEFINE S == Claims(a, base)
  <2>1. S \subseteq Columns
    BY DEF Claims, ColumnAssumption, PlanTypeInv
  <2>2. S \in SUBSET Nat /\ IsFiniteSet(S)
    BY <2>1, FS_Subset DEF ColumnAssumption
  <2> HIDE DEF S
  <2>3. \E x \in S : \A y \in S : y <= x
    BY <1>1, <2>2, Greatest DEF S
  <2>4. \E x \in S : \A y \in S : x >= y
    BY <2>2, <2>3
  <2> QED BY <2>4 DEF Max, S
<1> QED BY <1>1 DEF Renames

LEMMA PlannedColumns ==
  ASSUME NEW base
  PROVE  /\ DOMAIN Renamed(base) = (DOMAIN base \ DOMAIN Renames(base)) \cup Range(Renames(base))
         /\ DOMAIN Planned(base) = DOMAIN Renamed(base) \cup ConfiguredAdds(base) \cup DefaultAdds(base)
  BY DEF Renamed, Planned

-----------------------------------------------------------------------------
(* The plan is settled: made again over its own result it is the same.     *)

LEMMA OnlyOne ==
  ASSUME NEW S, IsFiniteSet(S), ~ (Cardinality(S) > 1), NEW x \in S, NEW y \in S
  PROVE  x = y
<1> SUFFICES ASSUME x # y PROVE FALSE
  OBVIOUS
<1>1. {x, y} \in SUBSET S
  OBVIOUS
<1>2. Cardinality({x, y}) <= Cardinality(S)
  BY <1>1, FS_Subset
<1>3. IsFiniteSet({x}) /\ Cardinality({x}) = 1
  BY FS_Singleton
<1>4. Cardinality({x} \cup {y}) = Cardinality({x}) + 1
  BY <1>3, FS_AddElement
<1>5. {x} \cup {y} = {x, y}
  OBVIOUS
<1>6. Cardinality(S) \in Nat
  BY FS_CardinalityType
<1> QED BY <1>2, <1>3, <1>4, <1>5, <1>6

LEMMA FirstColumns ==
  ASSUME ColumnAssumption, PlanTypeInv
  PROVE  /\ DOMAIN FirstBase \subseteq Columns /\ DOMAIN FirstBase # {}
         /\ DOMAIN Planned(FirstBase) \subseteq Columns
         /\ Planned(FirstBase) # NoTable
<1> DEFINE B == FirstBase
<1>1. DOMAIN source \subseteq Columns /\ KeyColumn \in DOMAIN source /\ DOMAIN settings \subseteq Columns
  BY DEF ColumnAssumption, PlanTypeInv
<1>2. DOMAIN B \subseteq Columns /\ DOMAIN B # {}
  <2>1. CASE before = NoTable
    BY <1>1, <2>1 DEF FirstBase
  <2>2. CASE before # NoTable
    <3>1. before \in [DOMAIN before -> Classes] /\ DOMAIN before \subseteq Columns
      BY DEF ColumnAssumption, PlanTypeInv
    <3>2. DOMAIN before # {}
      BY <2>2, <3>1 DEF NoTable
    <3> QED BY <2>2, <3>1, <3>2 DEF FirstBase
  <2> QED BY <2>1, <2>2
<1>3. \A a \in DOMAIN Renames(B) : Renames(B)[a] \in DOMAIN settings
  BY RenamedColumns DEF Claims
<1>4. Range(Renames(B)) \subseteq DOMAIN settings
  BY <1>3 DEF Range
<1>5. ConfiguredAdds(B) \subseteq DOMAIN settings /\ DefaultAdds(B) \subseteq DOMAIN source
  BY DEF ConfiguredAdds, DefaultAdds
<1>6. DOMAIN Planned(B) \subseteq Columns
  BY <1>1, <1>2, <1>4, <1>5, PlannedColumns
<1>7. DOMAIN Planned(B) # {}
  <2>1. PICK b \in DOMAIN B : TRUE
    BY <1>2
  <2>2. b \in DOMAIN Renames(B) => Renames(B)[b] \in Range(Renames(B))
    BY DEF Range
  <2> QED BY <2>1, <2>2, PlannedColumns
<1>8. Planned(B) # NoTable
  BY <1>7 DEF NoTable
<1> QED BY <1>2, <1>6, <1>8

(* A configured column that is not in an uncontested plan has no source.   *)
LEMMA NotMade ==
  ASSUME ColumnAssumption, PlanTypeInv, ~Contested,
         NEW c \in DOMAIN settings \ DOMAIN Planned(FirstBase), FedBy(c) # 0
  PROVE  FedBy(c) \notin DOMAIN Planned(FirstBase) \cup DOMAIN source
<1> DEFINE B == FirstBase
           a == FedBy(c)
<1>1. ASSUME NEW d \in Missing, FedBy(d) # 0
      PROVE  /\ FedBy(d) \notin DOMAIN Planned(B) \ DOMAIN B
             /\ FedBy(d) \notin DOMAIN settings \cap DOMAIN B
             /\ ~ (Cardinality({e \in Missing : FedBy(e) = FedBy(d)}) > 1)
  BY <1>1 DEF Contested
<1>2. ASSUME NEW b \in DOMAIN Renames(B)
      PROVE  /\ b \in DOMAIN B /\ b # 0 /\ Renames(B)[b] \in Missing /\ FedBy(Renames(B)[b]) = b
             /\ Renames(B)[b] \in DOMAIN Planned(B)
  <2>1. Renames(B)[b] \in Claims(b, B) /\ b \in DOMAIN B
    BY RenamedColumns
  <2>2. Renames(B)[b] \in Range(Renames(B))
    BY DEF Range
  <2>3. b # 0
    BY <2>1, FirstColumns DEF ColumnAssumption
  <2> QED BY <2>1, <2>2, <2>3, PlannedColumns DEF Claims, Missing
<1>3. c \notin DOMAIN B
  <2> SUFFICES ASSUME c \in DOMAIN B PROVE FALSE
    OBVIOUS
  <2>1. c \in DOMAIN Renames(B)
    BY PlannedColumns
  <2> QED BY <1>1, <1>2, <2>1
<1>4. c \in Missing
  BY <1>3 DEF Missing
<1>5. a \notin DOMAIN Renames(B)
  <2> SUFFICES ASSUME a \in DOMAIN Renames(B) PROVE FALSE
    OBVIOUS
  <2> DEFINE S == {e \in Missing : FedBy(e) = a}
  <2>1. Renames(B)[a] \in S /\ c \in S
    BY <1>2, <1>4
  <2>2. ~ (Cardinality(S) > 1)
    BY <1>1, <1>4
  <2>3. S \subseteq Columns
    BY DEF Missing, ColumnAssumption, PlanTypeInv
  <2>4. IsFiniteSet(S)
    BY <2>3, FS_Subset DEF ColumnAssumption
  <2> HIDE DEF S
  <2>5. Renames(B)[a] = c
    BY <2>1, <2>2, <2>4, OnlyOne
  <2> QED BY <1>2, <2>5
<1>6. a \notin DOMAIN B
  <2>1. c \in Claims(a, B)
    BY <1>3 DEF Claims
  <2> QED BY <1>5, <2>1, RenamedColumns
<1>7. a \notin DOMAIN Planned(B)
  BY <1>1, <1>4, <1>6
<1>8. a \notin DOMAIN source
  <2> SUFFICES ASSUME a \in DOMAIN source PROVE FALSE
    OBVIOUS
  <2>1. c \in ConfiguredAdds(B)
    BY <1>3, <1>5 DEF ConfiguredAdds
  <2> QED BY <2>1, PlannedColumns
<1> QED BY <1>7, <1>8

(* A table with the columns of the plan; a change of type may have set     *)
(* whether one that is fed by the source is NOT NULL.                      *)
LaidOut(t) ==
  /\ t = [c \in DOMAIN Planned(FirstBase) |-> t[c]]
  /\ \A c \in DOMAIN t :
       \/ t[c] = Planned(FirstBase)[c]
       \/ SourceOf(c) \in DOMAIN source /\ t[c] = source[SourceOf(c)]

LEMMA PlanIsSettled ==
  ASSUME ColumnAssumption, PlanTypeInv, ~Contested, NEW P, LaidOut(P)
  PROVE  /\ Planned(P) = P
         /\ Doubled(P) = {}
         /\ Unresolved(P) <=> Unresolved(FirstBase)
         /\ \A c : Inserted(c, P) = Inserted(c, FirstBase)
<1> DEFINE B == FirstBase
<1>0. DOMAIN P = DOMAIN Planned(B)
  BY DEF LaidOut
<1>1. \A a \in DOMAIN P : a # 0
  BY <1>0, FirstColumns DEF ColumnAssumption
<1>2. \A a \in DOMAIN P : Claims(a, P) = {}
  BY <1>0, <1>1, NotMade DEF Claims
<1>3. DOMAIN Renames(P) = {}
  BY <1>2, RenamedColumns
<1>4. Range(Renames(P)) = {}
  BY <1>3 DEF Range
<1>5. ConfiguredAdds(P) = {}
  <2>1. 0 \notin DOMAIN source
    BY DEF ColumnAssumption, PlanTypeInv
  <2>2. \A c \in DOMAIN settings \ DOMAIN P : FedBy(c) \notin DOMAIN source
    BY <1>0, <2>1, NotMade
  <2> QED BY <2>2 DEF ConfiguredAdds
<1>6. DefaultAdds(P) = {}
  <2> SUFFICES ASSUME NEW c \in DOMAIN source, c \notin DOMAIN P, c \notin ConfiguredSources, c \notin ignored
               PROVE  FALSE
    BY DEF DefaultAdds
  <2>1. c \in DOMAIN B
    <3> SUFFICES ASSUME c \notin DOMAIN B PROVE FALSE
      OBVIOUS
    <3>1. c \in DefaultAdds(B)
      BY DEF DefaultAdds
    <3> QED BY <1>0, <3>1, PlannedColumns
  <2>2. c \in DOMAIN Renames(B)
    BY <1>0, <2>1, PlannedColumns
  <2>3. FedBy(Renames(B)[c]) = c
    BY <2>2, RenamedColumns DEF Claims
  <2>4. c # 0
    BY <2>1, FirstColumns DEF ColumnAssumption
  <2> QED BY <2>3, <2>4, FedColumns
<1>7. P = [c \in DOMAIN P |-> P[c]]
  BY <1>0 DEF LaidOut
<1>8. Renamed(P) = P
  <2>1. Renamed(P) = [c \in DOMAIN P |-> P[c]]
    BY <1>3, <1>4 DEF Renamed
  <2> QED BY <1>7, <2>1
<1>9. Planned(P) = P
  <2>1. Planned(P) = [c \in DOMAIN P |-> P[c]]
    BY <1>5, <1>6, <1>8 DEF Planned
  <2> QED BY <1>7, <2>1
<1>10. Doubled(P) = {}
  BY <1>6 DEF Doubled
<1>11. Unresolved(P) <=> Unresolved(B)
  <2>1. ASSUME NEW c \in DOMAIN P, SourceOf(c) = 0 PROVE P[c] = Planned(B)[c]
    BY <2>1 DEF LaidOut, ColumnAssumption, PlanTypeInv
  <2> QED BY <1>0, <1>9, <2>1 DEF Unresolved
<1>12. \A c : Inserted(c, P) = Inserted(c, B)
  <2>1. WriteColumns(P) = WriteColumns(B)
    BY <1>0, <1>9 DEF WriteColumns
  <2>2. Transformed(P) = Transformed(B)
    BY <2>1 DEF Transformed
  <2> QED BY <2>1, <2>2 DEF Inserted
<1> QED BY <1>9, <1>10, <1>11, <1>12

-----------------------------------------------------------------------------
(* What a clean plan leads to.                                             *)

LEMMA AddsOnce ==
  ASSUME NEW A \in SUBSET Nat, NEW B \in SUBSET Nat, IsFiniteSet(A), IsFiniteSet(B), A \cap B = {}
  PROVE  LET adds == Sorted(A) \o Sorted(B)
         IN  /\ \A i \in 1 .. Len(adds) : adds[i] \in A \cup B
             /\ \A x \in A \cup B : \E i \in 1 .. Len(adds) : adds[i] = x
             /\ \A i, j \in 1 .. Len(adds) : adds[i] = adds[j] => i = j
             /\ Len(adds) \in Nat
<1> DEFINE s == Sorted(A)
           t == Sorted(B)
           adds == s \o t
<1>1. /\ s \in Seq(A) /\ t \in Seq(B)
      /\ \A x \in A : \E i \in 1 .. Len(s) : s[i] = x
      /\ \A x \in B : \E i \in 1 .. Len(t) : t[i] = x
      /\ \A i, j \in 1 .. Len(s) : s[i] = s[j] => i = j
      /\ \A i, j \in 1 .. Len(t) : t[i] = t[j] => i = j
  BY SortedEnumerates
<1> HIDE DEF s, t
<1>2. Len(s) \in Nat /\ Len(t) \in Nat
  BY <1>1, LenProperties
<1>3. s \in Seq(A \cup B) /\ t \in Seq(A \cup B)
  BY <1>1, SeqMonotonic
<1>4. /\ Len(adds) = Len(s) + Len(t)
      /\ \A i \in 1 .. Len(adds) : adds[i] = IF i <= Len(s) THEN s[i] ELSE t[i - Len(s)]
  BY <1>3, ConcatProperties
<1>5. \A i \in 1 .. Len(s) : s[i] \in A
  BY <1>1, ElementOfSeq
<1>6. \A i \in 1 .. Len(t) : t[i] \in B
  BY <1>1, ElementOfSeq
<1> HIDE DEF adds
<1>7. ASSUME NEW i \in 1 .. Len(adds)
      PROVE  \/ i \in 1 .. Len(s) /\ adds[i] = s[i] /\ adds[i] \in A
             \/ ~ (i <= Len(s)) /\ i - Len(s) \in 1 .. Len(t) /\ adds[i] = t[i - Len(s)] /\ adds[i] \in B
  <2>1. CASE i <= Len(s)
    <3>1. i \in 1 .. Len(s)
      BY <1>2, <1>4, <2>1
    <3> QED BY <1>4, <1>5, <2>1, <3>1
  <2>2. CASE ~ (i <= Len(s))
    <3>1. i - Len(s) \in 1 .. Len(t)
      BY <1>2, <1>4, <2>2
    <3> QED BY <1>4, <1>6, <2>2, <3>1
  <2> QED BY <2>1, <2>2
<1>8. ASSUME NEW x \in A PROVE \E i \in 1 .. Len(adds) : adds[i] = x
  <2>1. PICK i \in 1 .. Len(s) : s[i] = x
    BY <1>1
  <2>2. i \in 1 .. Len(adds) /\ i <= Len(s)
    BY <1>2, <1>4
  <2> QED BY <1>4, <2>1, <2>2
<1>9. ASSUME NEW x \in B PROVE \E i \in 1 .. Len(adds) : adds[i] = x
  <2>1. PICK i \in 1 .. Len(t) : t[i] = x
    BY <1>1
  <2>2. i + Len(s) \in 1 .. Len(adds) /\ ~ (i + Len(s) <= Len(s)) /\ (i + Len(s)) - Len(s) = i
    BY <1>2, <1>4
  <2> QED BY <1>4, <2>1, <2>2
<1>10. ASSUME NEW i \in 1 .. Len(adds), NEW j \in 1 .. Len(adds), adds[i] = adds[j] PROVE i = j
  <2>1. CASE i \in 1 .. Len(s) /\ adds[i] = s[i] /\ adds[i] \in A
    <3>1. j \in 1 .. Len(s) /\ adds[j] = s[j]
      BY <1>7, <1>10, <2>1
    <3>2. s[i] = s[j]
      BY <1>10, <2>1, <3>1
    <3> QED BY <1>1, <2>1, <3>1, <3>2
  <2>2. CASE i - Len(s) \in 1 .. Len(t) /\ adds[i] = t[i - Len(s)] /\ adds[i] \in B
    <3>1. j - Len(s) \in 1 .. Len(t) /\ adds[j] = t[j - Len(s)]
      BY <1>7, <1>10, <2>2
    <3>2. i - Len(s) = j - Len(s)
      BY <1>1, <1>10, <2>2, <3>1
    <3> QED BY <1>2, <3>2
  <2> QED BY <1>7, <2>1, <2>2
<1>11. Len(adds) \in Nat
  BY <1>2, <1>4
<1> QED BY <1>7, <1>8, <1>9, <1>10, <1>11 DEF adds, s, t

(* What apply-ddl leaves of a clean plan: the table that was planned, or   *)
(* of a sync run that failed one which lacks a column.                     *)
Promised == Clean /\ NullsFit /\ Executed /\ ~Contested

Lacking(t) == policyOf = "sync" /\ ~ (DOMAIN Planned(FirstBase) \subseteq DOMAIN t)

PlannedLeft ==
  /\ phase = "ddl" => table = before /\ order \in Seq(Columns)
  /\ Promised /\ phase \in {"data", "ddl_failed"} => LaidOut(table) \/ Lacking(table)

CleanInv == PlanTypeInv /\ PlannedLeft /\ CleanPlansCopy

(* What is asked of a column is asked of one that the source feeds.        *)
LEMMA RetypedAreFed ==
  ASSUME ColumnAssumption, PlanTypeInv, order \in Seq(Columns), table = before, table # NoTable
  PROVE  LET types == Picked(PlanOrder, {i \in DOMAIN PlanOrder : PlanOrder[i] \in Retyped})
         IN  Len(types) \in Nat /\ \A j \in 1 .. Len(types) : types[j] \in Retyped
<1> DEFINE s == [i \in 1 .. Len(order) |-> After(order[i])]
           A == ConfiguredAdds(Base)
           D == DefaultAdds(Base)
           places == {i \in DOMAIN PlanOrder : PlanOrder[i] \in Retyped}
           types == Picked(PlanOrder, places)
<1>1. A \subseteq Columns /\ D \subseteq Columns
  BY DEF ConfiguredAdds, DefaultAdds, ColumnAssumption, PlanTypeInv
<1>2. A \in SUBSET Nat /\ D \in SUBSET Nat /\ IsFiniteSet(A) /\ IsFiniteSet(D)
  BY <1>1, FS_Subset DEF ColumnAssumption
<1> HIDE DEF A, D
<1>3. Sorted(A) \in Seq(Columns) /\ Sorted(D) \in Seq(Columns)
  <2>1. Sorted(A) \in Seq(A) /\ Sorted(D) \in Seq(D)
    BY <1>2, SortedEnumerates
  <2> QED BY <1>1, <2>1, SeqMonotonic
<1>4. s \in Seq(Columns)
  <2>1. ASSUME NEW b \in Columns PROVE After(b) \in Columns
    <3>1. b \in DOMAIN Renames(Base) => Renames(Base)[b] \in DOMAIN settings
      BY RenamedColumns DEF Claims
    <3>2. DOMAIN settings \subseteq Columns
      BY DEF ColumnAssumption, PlanTypeInv
    <3> QED BY <3>1, <3>2 DEF After
  <2>2. Len(order) \in Nat /\ \A i \in 1 .. Len(order) : order[i] \in Columns
    BY LenProperties, ElementOfSeq
  <2>3. \A i \in 1 .. Len(order) : After(order[i]) \in Columns
    BY <2>1, <2>2
  <2> QED BY <2>2, <2>3, IsASeq
<1> HIDE DEF s
<1>5. PlanOrder \in Seq(Columns)
  <2>1. PlanOrder = s \o Sorted(A) \o Sorted(D)
    BY DEF PlanOrder, s, A, D
  <2> QED BY <1>3, <1>4, <2>1, ConcatProperties
<1>6. places \in SUBSET Nat /\ IsFiniteSet(places)
  <2>1. DOMAIN PlanOrder = 1 .. Len(PlanOrder) /\ Len(PlanOrder) \in Nat
    BY <1>5, LenProperties
  <2>2. IsFiniteSet(1 .. Len(PlanOrder))
    <3>1. \A a, b \in Int : IsFiniteSet(a .. b)
      BY FS_Interval
    <3> QED BY <2>1, <3>1
  <2> QED BY <2>1, <2>2, FS_Subset
<1>7. \A i \in places : PlanOrder[i] \in Retyped
  OBVIOUS
<1> HIDE DEF places
<1>8. Sorted(places) \in Seq(places) /\ DOMAIN Sorted(places) = 1 .. Cardinality(places)
  BY <1>6, SortedEnumerates DEF Sorted
<1>9. Cardinality(places) \in Nat
  BY <1>6, FS_CardinalityType
<1>10. \A k \in 1 .. Cardinality(places) : Sorted(places)[k] \in places
  <2>1. DOMAIN Sorted(places) = 1 .. Len(Sorted(places)) /\ \A k \in 1 .. Len(Sorted(places)) : Sorted(places)[k] \in places
    BY <1>8, LenProperties, ElementOfSeq
  <2> QED BY <1>8, <2>1
<1>11. types = [k \in 1 .. Cardinality(places) |-> PlanOrder[Sorted(places)[k]]]
  BY DEF Picked
<1>12. \A k \in 1 .. Cardinality(places) : types[k] \in Retyped
  BY <1>7, <1>10, <1>11
<1>13. Len(types) = Cardinality(places)
  <2>1. types \in Seq(Retyped)
    BY <1>9, <1>11, <1>12, IsASeq
  <2> QED BY <1>9, <1>11, <2>1, LenProperties
<1> QED BY <1>9, <1>12, <1>13 DEF places

LEMMA AddedColumns ==
  ASSUME ColumnAssumption, PlanTypeInv, Doubled(FirstBase) = {}
  PROVE  LET A == ConfiguredAdds(FirstBase)
             D == DefaultAdds(FirstBase)
         IN  /\ A \in SUBSET Nat /\ D \in SUBSET Nat /\ IsFiniteSet(A) /\ IsFiniteSet(D)
             /\ A \cap D = {} /\ (A \cup D) \cap DOMAIN Renamed(FirstBase) = {}
<1> DEFINE B == FirstBase
           A == ConfiguredAdds(B)
           D == DefaultAdds(B)
<1>1. A \subseteq Columns /\ D \subseteq Columns
  BY DEF ConfiguredAdds, DefaultAdds, ColumnAssumption, PlanTypeInv
<1>2. A \in SUBSET Nat /\ D \in SUBSET Nat /\ IsFiniteSet(A) /\ IsFiniteSet(D)
  BY <1>1, FS_Subset DEF ColumnAssumption
<1>3. D \cap (DOMAIN Renamed(B) \cup A) = {}
  BY DEF Doubled
<1>4. ASSUME NEW c \in A, c \in DOMAIN Renamed(B) PROVE FALSE
  <2>1. c \notin DOMAIN B /\ FedBy(c) \notin DOMAIN Renames(B)
    BY DEF ConfiguredAdds
  <2>2. c \in Range(Renames(B))
    BY <1>4, <2>1, PlannedColumns
  <2>3. PICK a \in DOMAIN Renames(B) : Renames(B)[a] = c
    BY <2>2 DEF Range
  <2>4. FedBy(c) = a
    BY <2>3, RenamedColumns DEF Claims
  <2> QED BY <2>1, <2>4
<1> QED BY <1>2, <1>3, <1>4

LEMMA SyncLeaves ==
  ASSUME ColumnAssumption, CleanInv, SyncAltered, Promised
  PROVE  LaidOut(table') \/ Lacking(table')
<1> DEFINE B == FirstBase
           A == ConfiguredAdds(B)
           D == DefaultAdds(B)
           adds == Sorted(A) \o Sorted(D)
           done(n) == {adds[j] : j \in 1 .. n}
           types == Picked(PlanOrder, {i \in DOMAIN PlanOrder : PlanOrder[i] \in Retyped})
           changed(t) == {types[j] : j \in 1 .. t}
<1>1. Base = B /\ table = before /\ table # NoTable /\ order \in Seq(Columns)
  BY DEF SyncAltered, CleanInv, PlannedLeft, Base, FirstBase
<1>2. PICK t \in 0 .. Len(types), n \in 0 .. Len(adds) :
        table' = [c \in DOMAIN Renamed(B) \cup done(n) |->
                    IF c \in changed(t) THEN Modified(c) ELSE Planned(B)[c]]
  <2> DEFINE s == Sorted(ConfiguredAdds(Base)) \o Sorted(DefaultAdds(Base))
  <2>1. \E t \in 0 .. Len(types), n \in 0 .. Len(s) :
          table' = [c \in DOMAIN Renamed(Base) \cup {s[j] : j \in 1 .. n} |->
                      IF c \in {types[j] : j \in 1 .. t} THEN Modified(c) ELSE Planned(Base)[c]]
    BY Zenon DEF SyncAltered
  <2>2. s = adds
    BY <1>1
  <2>3. \E t \in 0 .. Len(types), n \in 0 .. Len(adds) :
          table' = [c \in DOMAIN Renamed(Base) \cup {adds[j] : j \in 1 .. n} |->
                      IF c \in {types[j] : j \in 1 .. t} THEN Modified(c) ELSE Planned(Base)[c]]
    <3> HIDE DEF s, adds, types
    <3> QED BY <2>1, <2>2
  <2>4. Renamed(Base) = Renamed(B) /\ Planned(Base) = Planned(B)
    BY <1>1
  <2> HIDE DEF adds, types
  <2> QED BY <2>3, <2>4
<1>3. /\ A \in SUBSET Nat /\ D \in SUBSET Nat /\ IsFiniteSet(A) /\ IsFiniteSet(D)
      /\ A \cap D = {} /\ (A \cup D) \cap DOMAIN Renamed(B) = {}
  BY AddedColumns DEF Promised, Clean, CleanInv
<1>4. DOMAIN Planned(B) = DOMAIN Renamed(B) \cup A \cup D
  BY PlannedColumns
<1>5. \A c \in changed(t) : c \in Retyped
  <2>1. Len(types) \in Nat /\ \A j \in 1 .. Len(types) : types[j] \in Retyped
    BY <1>1, RetypedAreFed DEF CleanInv
  <2> HIDE DEF types
  <2>2. \A j \in 1 .. t : j \in 1 .. Len(types)
    BY <2>1
  <2> QED BY <2>1, <2>2
<1> HIDE DEF A, D, changed
<1>6. /\ \A i \in 1 .. Len(adds) : adds[i] \in A \cup D
      /\ \A x \in A \cup D : \E i \in 1 .. Len(adds) : adds[i] = x
      /\ \A i, j \in 1 .. Len(adds) : adds[i] = adds[j] => i = j
      /\ Len(adds) \in Nat
  BY <1>3, AddsOnce
<1> HIDE DEF adds
<1>7. CASE n = Len(adds)
  <2>1. done(n) = A \cup D
    BY <1>6, <1>7
  <2>2. table' = [c \in DOMAIN Planned(B) |-> IF c \in changed(t) THEN Modified(c) ELSE Planned(B)[c]]
    BY <1>2, <1>4, <2>1
  <2>3. ASSUME NEW c \in DOMAIN Planned(B)
        PROVE  \/ table'[c] = Planned(B)[c]
               \/ SourceOf(c) \in DOMAIN source /\ table'[c] = source[SourceOf(c)]
    <3>1. CASE c \in changed(t)
      <4>1. SourceOf(c) \in DOMAIN source
        BY <1>5, <3>1 DEF Retyped
      <4> QED BY <1>1, <2>2, <3>1, <4>1 DEF Modified
    <3>2. CASE c \notin changed(t)
      BY <2>2, <3>2
    <3> QED BY <3>1, <3>2
  <2>4. DOMAIN table' = DOMAIN Planned(B) /\ table' = [c \in DOMAIN Planned(B) |-> table'[c]]
    BY <2>2
  <2> QED BY <2>3, <2>4 DEF LaidOut
<1>8. CASE n # Len(adds)
  <2>1. n + 1 \in 1 .. Len(adds) /\ \A j \in 1 .. n : j \in 1 .. Len(adds) /\ j # n + 1
    BY <1>6, <1>8
  <2>2. adds[n + 1] \notin done(n)
    BY <1>6, <2>1
  <2>3. adds[n + 1] \in A \cup D
    BY <1>6, <2>1
  <2>4. adds[n + 1] \notin DOMAIN table'
    BY <1>2, <1>3, <2>2, <2>3
  <2> QED BY <1>4, <2>3, <2>4 DEF Lacking, SyncAltered
<1> QED BY <1>7, <1>8

LEMMA SameLeft ==
  ASSUME SamePlan
  PROVE  /\ FirstBase' = FirstBase /\ Planned(FirstBase)' = Planned(FirstBase)
         /\ Promised' <=> Promised
         /\ \A t : (LaidOut(t)' <=> LaidOut(t)) /\ (Lacking(t)' <=> Lacking(t))
<1>1. FirstBase' = FirstBase /\ (Promised' <=> Promised)
  BY SameQuestions DEF Promised
<1>2. source' = source /\ policyOf' = policyOf
  BY DEF SamePlan, planVars
<1>3. Planned(FirstBase)' = Planned(FirstBase)
  BY <1>1, SamePlans
<1>4. \A t : LaidOut(t)' <=> LaidOut(t)
  BY <1>2, <1>3, SameColumns DEF LaidOut
<1>5. \A t : Lacking(t)' <=> Lacking(t)
  BY <1>2, <1>3 DEF Lacking
<1> QED BY <1>1, <1>3, <1>4, <1>5

LEMMA CleanDdl ==
  ASSUME ColumnAssumption, CleanInv, CreateTable \/ Truncated \/ Untouched \/ SyncAltered
  PROVE  CleanInv'
<1>1. SamePlan /\ phase = "ddl" /\ phase' \in {"data", "ddl_failed"}
  BY DEF CreateTable, Recreate, Truncated, Untouched, SyncAltered, planVars, SamePlan
<1>2. PlanTypeInv'
  BY <1>1 DEF CleanInv, PlanTypeInv, SamePlan, planVars
<1>3. CleanPlansCopy'
  BY <1>1 DEF CleanPlansCopy
<1>4. table = before /\ Base = FirstBase
  BY <1>1 DEF CleanInv, PlannedLeft, Base, FirstBase
<1>5. ASSUME Promised PROVE LaidOut(table') \/ Lacking(table')
  <2>1. Planned(FirstBase) = [c \in DOMAIN Planned(FirstBase) |-> Planned(FirstBase)[c]]
    BY DEF Planned
  <2>2. LaidOut(Planned(FirstBase))
    BY <2>1 DEF LaidOut
  <2>3. CASE CreateTable
    <3>1. Doubled(Base) = {}
      BY <1>4, <1>5 DEF Promised, Clean
    <3> QED BY <1>4, <2>2, <2>3, <3>1 DEF CreateTable, Recreate
  <2>4. CASE Truncated \/ Untouched
    <3>1. table' = table /\ table # NoTable /\ policyOf \in {"truncate_reload", "skip"}
      BY <2>4 DEF Truncated, Untouched
    <3>2. FirstBase = before /\ Planned(before) = before
      BY <1>4, <1>5, <3>1 DEF Promised, Executed, FirstBase
    <3> QED BY <1>4, <2>2, <3>1, <3>2
  <2>5. CASE SyncAltered
    BY <1>5, <2>5, SyncLeaves
  <2> QED BY <2>3, <2>4, <2>5
<1>6. PlannedLeft'
  BY <1>1, <1>5, SameLeft DEF PlannedLeft
<1> QED BY <1>2, <1>3, <1>6 DEF CleanInv

LEMMA CleanMigrate ==
  ASSUME ColumnAssumption, CleanInv, Migrate
  PROVE  CleanInv'
<1>1. /\ SamePlan /\ UNCHANGED <<table, order, mistyped, key>> /\ phase \in {"data", "ddl_failed"}
      /\ phase' \in {"written", "kept", "blocked", "failed"}
  BY DEF Migrate, Insert, Update, KeepRow, Rejected, SamePlan
<1>2. PlanTypeInv'
  BY <1>1 DEF CleanInv, PlanTypeInv, SamePlan, planVars
<1>3. PlannedLeft'
  BY <1>1 DEF PlannedLeft
<1>4. /\ (Promised' <=> Promised) /\ FirstBase' = FirstBase /\ Planned(FirstBase)' = Planned(FirstBase)
      /\ policyOf' = policyOf /\ TargetKey' = TargetKey
  BY <1>1, SameLeft, SameKeys DEF SamePlan, planVars
<1>5. ASSUME Promised, phase' \in {"blocked", "failed"}
      PROVE  \/ phase' = "failed" /\ mistyped # {}
             \/ /\ policyOf = "sync"
                /\ \/ ~ (DOMAIN Planned(FirstBase) \subseteq DOMAIN table)
                   \/ TargetKey = 0 \/ TargetKey # key
  <2>1. CASE Lacking(table)
    BY <2>1 DEF Lacking
  <2>2. CASE LaidOut(table)
    <3>1. DOMAIN table = DOMAIN Planned(FirstBase)
      BY <2>2 DEF LaidOut
    <3>2. table # NoTable
      BY <3>1, FirstColumns DEF CleanInv, NoTable
    <3>3. Base = table
      BY <3>2 DEF Base
    <3>4. /\ Planned(table) = table /\ Doubled(table) = {} /\ ~Unresolved(table)
          /\ \A c : Inserted(c, table) = Inserted(c, FirstBase)
      BY <1>5, <2>2, PlanIsSettled DEF CleanInv, Promised, Clean
    <3>5. ASSUME NEW c \in DOMAIN table, Inserted(c, table) = Null PROVE table[c] = "optional"
      <4>1. Inserted(c, FirstBase) = Null /\ c \in DOMAIN Planned(FirstBase)
        BY <3>1, <3>4, <3>5
      <4>2. CASE table[c] = Planned(FirstBase)[c]
        BY <1>5, <4>1, <4>2 DEF Promised, NullsFit
      <4>3. CASE SourceOf(c) \in DOMAIN source /\ table[c] = source[SourceOf(c)]
        <5>1. SourceOf(c) # 0
          BY <4>3 DEF CleanInv, ColumnAssumption, PlanTypeInv
        <5>2. c \in WriteColumns(FirstBase)
          BY <4>1, <5>1 DEF WriteColumns
        <5>3. Src(SourceOf(c)) = Null
          BY <4>1, <5>1, <5>2 DEF Inserted, Transformed
        <5>4. SourceOf(c) \in nulls
          BY <5>3 DEF Src, Null
        <5> QED BY <4>3, <5>4 DEF CleanInv, PlanTypeInv
      <4> QED BY <2>2, <4>2, <4>3 DEF LaidOut
    <3>6. CASE Blocks
      BY <3>3, <3>4, <3>6 DEF Blocks
    <3>7. CASE ~Blocks
      <4>1. phase' = "failed" /\ (~Accepted \/ Misfits # {})
        BY <1>5, <3>7 DEF Migrate, Insert, Update, KeepRow, Rejected
      <4>2. Planned(Base) = table /\ Doubled(Base) = {}
        BY <3>3, <3>4
      <4>3. CASE ~Accepted
        <5>1. \A c \in DOMAIN Planned(Base) : Inserted(c, Base) = Null => table[c] = "optional"
          BY <3>3, <3>5, <4>2
        <5>2. DOMAIN Planned(Base) \subseteq DOMAIN table
          BY <4>2
        <5>3. ~ (policyOf = "sync" /\ dbms = "postgresql" => TargetKey = key)
          BY <3>2, <4>2, <4>3, <5>1, <5>2 DEF Accepted
        <5> QED BY <5>3
      <4>4. CASE Misfits # {}
        BY <4>1, <4>4 DEF Misfits
      <4> QED BY <4>1, <4>3, <4>4
    <3> QED BY <3>6, <3>7
  <2> QED BY <1>1, <1>5, <2>1, <2>2 DEF CleanInv, PlannedLeft
<1>6. CleanPlansCopy'
  BY <1>1, <1>4, <1>5 DEF CleanPlansCopy, Promised
<1> QED BY <1>2, <1>3, <1>6 DEF CleanInv

LEMMA CleanSteps ==
  ASSUME ColumnAssumption, CleanInv, [ColumnNext]_columnVars
  PROVE  CleanInv'
<1>1. CASE UNCHANGED columnVars
  <2>1. SamePlan /\ UNCHANGED <<phase, table, order, mistyped, key, before, policyOf, source, settings, nulls>>
    BY <1>1 DEF columnVars, planVars, SamePlan
  <2>2. FirstBase' = FirstBase /\ Planned(FirstBase)' = Planned(FirstBase) /\ TargetKey' = TargetKey
    BY <2>1, SameLeft, SameKeys
  <2>3. (Clean' <=> Clean) /\ (NullsFit' <=> NullsFit) /\ (Executed' <=> Executed) /\ (Contested' <=> Contested)
    BY <2>1, SameQuestions
  <2>4. PlanTypeInv'
    BY <2>1 DEF CleanInv, PlanTypeInv
  <2>5. PlannedLeft'
    BY <2>1, SameLeft DEF CleanInv, PlannedLeft
  <2>6. CleanPlansCopy'
    BY <2>1, <2>2, <2>3 DEF CleanInv, CleanPlansCopy
  <2> QED BY <2>4, <2>5, <2>6 DEF CleanInv
<1> QED BY <1>1, CleanDdl, CleanMigrate DEF ColumnNext

(* A plan that the dry run shows clean, that apply-ddl executes, whose     *)
(* columns are not contested and whose NULLs fit is carried out, whatever  *)
(* the table, the settings and the policy: the row may still be refused by *)
(* a column that has kept another type, and a sync run may stop for lack   *)
(* of a column or of a key to upsert by.                                   *)
THEOREM CleanPlansAreCarriedOut == ColumnSpec => []CleanPlansCopy
<1> USE ColumnAssumption
<1>1. ColumnInit => CleanInv
  <2> SUFFICES ASSUME ColumnInit PROVE CleanInv
    OBVIOUS
  <2>1. PICK t \in TargetChoices : before = t.columns /\ order = t.order
    BY DEF ColumnInit
  <2>2. order \in Seq(Columns)
    BY <2>1 DEF ColumnAssumption
  <2>3. before \in {u.columns : u \in TargetChoices}
    BY <2>1
  <2>4. PlanTypeInv
    BY <2>3 DEF ColumnInit, PlanTypeInv
  <2> QED BY <2>2, <2>4 DEF ColumnInit, CleanInv, PlannedLeft, CleanPlansCopy
<1>2. CleanInv /\ [ColumnNext]_columnVars => CleanInv'
  BY CleanSteps
<1>3. CleanInv => CleanPlansCopy
  BY DEF CleanInv
<1> QED BY <1>1, <1>2, <1>3, PTL DEF ColumnSpec

-----------------------------------------------------------------------------
(* Types: what the servers can say of a column, the names of the catalog   *)
(* and those of the types that the tool itself chooses, of any size.       *)

PostgresPlain ==
  {"varchar", "numeric", "text", "integer", "bigint", "smallint", "boolean", "date", "json",
   "jsonb", "uuid", "bytea", "double_precision", "real", "ARRAY", "enum"}

MySqlPlain ==
  MySqlIntegers \cup {"text", "longtext", "blob", "longblob", "double", "float", "date", "json", "enum"}

KnownPostgres(t) ==
  \/ t.name \in {"varchar", "char"} \cup Temporals /\ t.p \in Nat /\ t.s = Absent
  \/ t.name = "numeric" /\ t.p \in Nat /\ t.s \in Nat
  \/ t.name \in PostgresPlain /\ t.p = Absent /\ t.s = Absent

KnownMySql(t) ==
  \/ t.name \in {"varchar", "char", "varbinary"} /\ t.p \in Nat /\ t.s = Absent
  \/ t.name = "decimal" /\ t.p \in Nat /\ t.s \in Nat
  \/ t.name \in {"datetime", "timestamp", "time"} /\ t.p \in Nat \cup {Absent} /\ t.s = Absent
  \/ t.name \in MySqlPlain /\ t.p = Absent /\ t.s = Absent

Known(db, t) ==
  /\ t = [name |-> t.name, p |-> t.p, s |-> t.s]
  /\ \/ db = "postgresql" /\ KnownPostgres(t)
     \/ db = "mysql" /\ KnownMySql(t)

(* The common types that columns have, and what becomes of their size.     *)
PlainKinds ==
  {"text", "integer", "bigint", "smallint", "boolean", "date", "json", "binary", "uuid", "unknown"}

CommonOK(c) ==
  /\ c = [kind |-> c.kind, policy |-> c.policy, p |-> c.p, s |-> c.s]
  /\ \/ c.kind = "string" /\ c.p \in Nat /\ c.s = Absent
     \/ c.kind = "decimal" /\ ((c.p \in Nat /\ c.s \in Nat) \/ (c.p = Absent /\ c.s = Absent))
     \/ c.kind \in {"datetime", "time"} /\ c.p \in Nat \cup {Absent} /\ c.s = Absent
     \/ c.kind \in PlainKinds /\ c.p = Absent /\ c.s = Absent

NamedInPostgres ==
  {"text", "integer", "bigint", "smallint", "boolean", "date", "timestamp", "time", "json", "bytea",
   "timestamptz", "timetz", "jsonb", "uuid"}

LEMMA PostgresNamed == DOMAIN PostgresNames = NamedInPostgres
BY DEF PostgresNames, NamedInPostgres

LEMMA PostgresCommon ==
  ASSUME NEW t, Known("postgresql", t)
  PROVE  CommonOK(PostgresToCommon(t))
<1>1. CASE t.name \in {"varchar", "char"} /\ t.p \in Nat /\ t.s = Absent
  <2>1. t.name \notin DOMAIN PostgresNames /\ t.p # Absent
    BY <1>1, PostgresNamed DEF NamedInPostgres, Absent
  <2>2. PostgresToCommon(t) = [AutoConvert("string") EXCEPT !.p = t.p]
    BY <1>1, <2>1 DEF PostgresToCommon
  <2> QED BY <1>1, <2>2 DEF CommonOK, AutoConvert, Kind
<1>2. CASE t.name = "numeric" /\ t.p \in Nat /\ t.s \in Nat
  <2>1. t.name \notin DOMAIN PostgresNames /\ t.p # Absent
    BY <1>2, PostgresNamed DEF NamedInPostgres, Absent
  <2>2. PostgresToCommon(t) = [AutoConvert("decimal") EXCEPT !.p = t.p, !.s = t.s]
    BY <1>2, <2>1 DEF PostgresToCommon
  <2>3. PostgresToCommon(t) = [kind |-> "decimal", policy |-> "auto", p |-> t.p, s |-> t.s]
    BY <2>2 DEF AutoConvert, Kind
  <2> QED BY <1>2, <2>3 DEF CommonOK
<1>3. CASE t.name \in Temporals /\ t.p \in Nat /\ t.s = Absent
  <2>1. t.name \in DOMAIN PostgresNames
    BY <1>3, PostgresNamed DEF NamedInPostgres, Temporals
  <2>2. PostgresToCommon(t) = [PostgresNames[t.name] EXCEPT !.p = t.p]
    BY <1>3, <2>1 DEF PostgresToCommon, Temporals
  <2>3. PostgresNames[t.name] \in
          {AutoConvert("datetime"), AutoConvert("time"), Warn("datetime"), Warn("time")}
    BY <1>3 DEF PostgresNames, Temporals
  <2> QED BY <1>3, <2>2, <2>3 DEF CommonOK, AutoConvert, Warn, Kind
<1>4. CASE t.name \in PostgresPlain /\ t.p = Absent /\ t.s = Absent
  <2>1. CASE t.name \in NamedInPostgres
    <3>1. PostgresToCommon(t) = [PostgresNames[t.name] EXCEPT !.p = Absent]
      BY <1>4, <2>1, PostgresNamed DEF PostgresToCommon, PostgresPlain, NamedInPostgres
    <3>2. t.name \in {"text", "integer", "bigint", "smallint", "boolean", "date", "json", "bytea", "jsonb", "uuid"}
      BY <1>4, <2>1 DEF PostgresPlain, NamedInPostgres
    <3>3. PostgresNames[t.name].kind \in PlainKinds
      BY <3>2 DEF PostgresNames, AutoConvert, Warn, Kind, PlainKinds
    <3>4. PostgresNames[t.name] = Kind(PostgresNames[t.name].kind, PostgresNames[t.name].policy)
      BY <3>2 DEF PostgresNames, AutoConvert, Warn, Kind
    <3> QED BY <3>1, <3>3, <3>4 DEF CommonOK, Kind
  <2>2. CASE t.name \notin NamedInPostgres
    <3>1. PostgresToCommon(t) = Manual("unknown")
      BY <1>4, <2>2, PostgresNamed DEF PostgresToCommon
    <3> QED BY <3>1 DEF CommonOK, Manual, Kind, PlainKinds
  <2> QED BY <2>1, <2>2
<1> QED BY <1>1, <1>2, <1>3, <1>4 DEF Known, KnownPostgres, Temporals

LEMMA MySqlCommon ==
  ASSUME NEW t, Known("mysql", t)
  PROVE  CommonOK(MySqlToCommon(t))
<1>1. CASE t.name \in {"varchar", "char"} /\ t.p \in Nat /\ t.s = Absent
  <2>1. MySqlToCommon(t) = [AutoConvert("string") EXCEPT !.p = t.p]
    BY <1>1 DEF MySqlToCommon, MySqlIntegers
  <2> QED BY <1>1, <2>1 DEF CommonOK, AutoConvert, Kind
<1>2. CASE t.name = "decimal" /\ t.p \in Nat /\ t.s \in Nat
  <2>1. MySqlToCommon(t) = [AutoConvert("decimal") EXCEPT !.p = t.p, !.s = t.s]
    BY <1>2 DEF MySqlToCommon, MySqlIntegers
  <2>2. MySqlToCommon(t) = [kind |-> "decimal", policy |-> "auto", p |-> t.p, s |-> t.s]
    BY <2>1 DEF AutoConvert, Kind
  <2> QED BY <1>2, <2>2 DEF CommonOK
<1>3. CASE t.name \in {"datetime", "timestamp", "time"} /\ t.p \in Nat \cup {Absent} /\ t.s = Absent
  <2>1. PICK k \in {AutoConvert("datetime"), AutoConvert("time"), Warn("datetime")} :
          MySqlToCommon(t) = [k EXCEPT !.p = t.p]
    BY <1>3 DEF MySqlToCommon, MySqlIntegers
  <2> QED BY <1>3, <2>1 DEF CommonOK, AutoConvert, Warn, Kind
<1>4. CASE t.name \in MySqlIntegers /\ t.p = Absent /\ t.s = Absent
  <2>1. MySqlToCommon(t) = MySqlInteger(t.name)
    BY <1>4 DEF MySqlToCommon, MySqlIntegers
  <2>2. MySqlInteger(t.name) \in {AutoConvert("boolean"), AutoConvert("smallint"), AutoConvert("integer"),
          AutoConvert("bigint"), Warn("smallint"), Warn("integer"), Warn("bigint"), Warn("decimal")}
    BY <1>4 DEF MySqlInteger, MySqlIntegers
  <2> QED BY <2>1, <2>2 DEF CommonOK, AutoConvert, Warn, Kind, PlainKinds
<1>5. CASE t.name = "varbinary" \/ (t.name \in MySqlPlain \ MySqlIntegers /\ t.p = Absent /\ t.s = Absent)
  <2>1. MySqlToCommon(t) \in {AutoConvert("text"), AutoConvert("binary"), AutoConvert("date"), AutoConvert("json"),
          Warn("decimal"), Manual("text"), Manual("unknown")}
    BY <1>5 DEF MySqlToCommon, MySqlPlain, MySqlIntegers
  <2> QED BY <2>1 DEF CommonOK, AutoConvert, Warn, Manual, Kind, PlainKinds
<1> QED BY <1>1, <1>2, <1>3, <1>4, <1>5 DEF Known, KnownMySql

LEMMA CommonTypes ==
  ASSUME NEW db, NEW t, Known(db, t)
  PROVE  CommonOK(ToCommon(db, t))
<1>1. CASE db = "postgresql"
  BY <1>1, PostgresCommon DEF ToCommon
<1>2. CASE db = "mysql"
  BY <1>2, MySqlCommon DEF ToCommon
<1> QED BY <1>1, <1>2 DEF Known

(* What the writers create is a type of the target, and has a name.        *)
LEMMA PostgresTypeIs ==
  ASSUME NEW c, CommonOK(c)
  PROVE  Known("postgresql", ToPostgres(c)) /\ ToPostgres(c) # NoType
<1>1. CASE c.kind = "string" /\ c.p \in Nat
  <2>1. ToPostgres(c) = [name |-> "varchar", p |-> c.p, s |-> Absent]
    BY <1>1 DEF ToPostgres, Sized
  <2> QED BY <1>1, <2>1 DEF Known, KnownPostgres, NoType, Plain
<1>2. CASE c.kind = "decimal" /\ c.p \in Nat /\ c.s \in Nat
  <2>1. ToPostgres(c) = [name |-> "numeric", p |-> c.p, s |-> c.s]
    BY <1>2 DEF ToPostgres, Scaled, Absent
  <2> QED BY <1>2, <2>1 DEF Known, KnownPostgres, NoType, Plain
<1>3. CASE c.kind = "decimal" /\ c.p = Absent
  <2>1. ToPostgres(c) = [name |-> "numeric", p |-> Absent, s |-> Absent]
    BY <1>3 DEF ToPostgres, Plain
  <2> QED BY <2>1 DEF Known, KnownPostgres, PostgresPlain, NoType, Plain
<1>4. CASE c.kind \in {"datetime", "time"} /\ c.p \in Nat \cup {Absent}
  <2>1. ToPostgres(c) = [name |-> IF c.kind = "time" THEN "time" ELSE "timestamp",
                         p |-> IF c.p = Absent THEN 6 ELSE c.p, s |-> Absent]
    BY <1>4 DEF ToPostgres, Sized
  <2> QED BY <1>4, <2>1 DEF Known, KnownPostgres, Temporals, NoType, Plain
<1>5. CASE c.kind \in PlainKinds
  <2>1. ToPostgres(c) = Plain(PostgresTypes[c.kind])
    BY <1>5 DEF ToPostgres, PlainKinds
  <2>2. PostgresTypes[c.kind] \in
          {"text", "integer", "bigint", "smallint", "boolean", "date", "jsonb", "bytea", "uuid"}
    BY <1>5 DEF PostgresTypes, PlainKinds
  <2>3. PostgresTypes[c.kind] \in PostgresPlain /\ PostgresTypes[c.kind] # "none"
    BY <2>2 DEF PostgresPlain
  <2> QED BY <2>1, <2>3 DEF Known, KnownPostgres, NoType, Plain
<1> QED BY <1>1, <1>2, <1>3, <1>4, <1>5 DEF CommonOK

LEMMA MySqlTypeIs ==
  ASSUME NEW c, CommonOK(c)
  PROVE  Known("mysql", ToMySql(c)) /\ ToMySql(c) # NoType
<1>1. CASE c.kind = "string" /\ c.p \in Nat
  <2>1. ToMySql(c) = [name |-> "varchar", p |-> c.p, s |-> Absent]
    BY <1>1 DEF ToMySql, Sized
  <2> QED BY <1>1, <2>1 DEF Known, KnownMySql, NoType, Plain
<1>2. CASE c.kind = "decimal" /\ c.p \in Nat /\ c.s \in Nat
  <2>1. ToMySql(c) = [name |-> "decimal", p |-> c.p, s |-> c.s]
    BY <1>2 DEF ToMySql, Scaled, Absent
  <2> QED BY <1>2, <2>1 DEF Known, KnownMySql, NoType, Plain
<1>3. CASE c.kind = "decimal" /\ c.p = Absent
  <2>1. ToMySql(c) = [name |-> "decimal", p |-> 10, s |-> 0]
    BY <1>3 DEF ToMySql, Scaled
  <2> QED BY <2>1 DEF Known, KnownMySql, NoType, Plain
<1>4. CASE c.kind \in {"datetime", "time"} /\ c.p \in Nat \cup {Absent}
  <2>1. ToMySql(c) = [name |-> c.kind, p |-> IF c.p = 0 THEN Absent ELSE c.p, s |-> Absent]
    BY <1>4 DEF ToMySql, Sized
  <2> QED BY <1>4, <2>1 DEF Known, KnownMySql, NoType, Plain
<1>5. CASE c.kind = "uuid"
  <2>1. ToMySql(c) = [name |-> "char", p |-> 36, s |-> Absent]
    BY <1>5 DEF ToMySql, Sized
  <2> QED BY <2>1 DEF Known, KnownMySql, NoType, Plain
<1>6. CASE c.kind \in PlainKinds \ {"uuid"}
  <2>1. ToMySql(c) = Plain(MySqlNames[c.kind])
    BY <1>6 DEF ToMySql, PlainKinds
  <2>2. MySqlNames[c.kind] \in
          {"longtext", "int", "bigint", "smallint", "tinyint(1)", "date", "json", "longblob"}
    BY <1>6 DEF MySqlNames, PlainKinds
  <2>3. MySqlNames[c.kind] \in MySqlPlain /\ MySqlNames[c.kind] # "none"
    BY <2>2 DEF MySqlPlain, MySqlIntegers
  <2> QED BY <2>1, <2>3 DEF Known, KnownMySql, NoType, Plain
<1> QED BY <1>1, <1>2, <1>3, <1>4, <1>5, <1>6 DEF CommonOK

LEMMA CreatedIs ==
  ASSUME NEW db \in Dbms, NEW c, CommonOK(c)
  PROVE  Known(db, FromCommon(db, c)) /\ FromCommon(db, c) # NoType
<1>1. CASE db = "postgresql"
  BY <1>1, PostgresTypeIs DEF FromCommon
<1>2. CASE db = "mysql"
  BY <1>2, MySqlTypeIs DEF FromCommon
<1> QED BY <1>1, <1>2 DEF Dbms

(* What the writers create from a common type is read back as that type.   *)
Settles(db, c) ==
  /\ c.kind \notin {"unknown", "uuid"}
  /\ ~ (c.kind = "decimal" /\ c.p = Absent)
  /\ ~ (c.kind \in {"datetime", "time"} /\ c.p = (IF db = "mysql" THEN 0 ELSE Absent))

SameSize(c, d) == d.kind = c.kind /\ d.p = c.p /\ d.s = c.s

LEMMA PostgresSettles ==
  ASSUME NEW c, CommonOK(c), Settles("postgresql", c)
  PROVE  SameSize(c, PostgresToCommon(ToPostgres(c)))
<1> DEFINE t == ToPostgres(c)
           d == PostgresToCommon(t)
<1>1. CASE c.kind = "string" /\ c.p \in Nat /\ c.s = Absent
  <2>1. t.name = "varchar" /\ t.p = c.p /\ t.p # Absent
    BY <1>1 DEF ToPostgres, Sized, Absent
  <2>2. t.name \notin DOMAIN PostgresNames
    BY <2>1, PostgresNamed DEF NamedInPostgres
  <2>3. d = [AutoConvert("string") EXCEPT !.p = t.p]
    BY <2>1, <2>2 DEF PostgresToCommon
  <2> QED BY <1>1, <2>1, <2>3 DEF SameSize, AutoConvert, Kind
<1>2. CASE c.kind = "decimal" /\ c.p \in Nat /\ c.s \in Nat
  <2>1. t.name = "numeric" /\ t.p = c.p /\ t.s = c.s /\ t.p # Absent
    BY <1>2 DEF ToPostgres, Scaled, Absent
  <2>2. t.name \notin DOMAIN PostgresNames
    BY <2>1, PostgresNamed DEF NamedInPostgres
  <2>3. d = [AutoConvert("decimal") EXCEPT !.p = t.p, !.s = t.s]
    BY <2>1, <2>2 DEF PostgresToCommon
  <2>4. d = [kind |-> "decimal", policy |-> "auto", p |-> t.p, s |-> t.s]
    BY <2>3 DEF AutoConvert, Kind
  <2> QED BY <1>2, <2>1, <2>4 DEF SameSize
<1>3. CASE c.kind \in {"datetime", "time"} /\ c.p \in Nat /\ c.s = Absent
  <2>1. t.name = (IF c.kind = "time" THEN "time" ELSE "timestamp") /\ t.p = c.p
    BY <1>3 DEF ToPostgres, Sized, Absent
  <2>2. d = [PostgresNames[t.name] EXCEPT !.p = t.p]
    BY <2>1, PostgresNamed DEF PostgresToCommon, NamedInPostgres
  <2>3. PostgresNames[t.name] = AutoConvert(c.kind)
    BY <1>3, <2>1 DEF PostgresNames
  <2> QED BY <1>3, <2>1, <2>2, <2>3 DEF SameSize, AutoConvert, Kind
<1>4. CASE c.kind \in PlainKinds \ {"unknown", "uuid"} /\ c.p = Absent /\ c.s = Absent
  <2>1. t.name = PostgresTypes[c.kind] /\ t.p = Absent
    BY <1>4 DEF ToPostgres, PlainKinds, Plain
  <2>2. t.name \in {"text", "integer", "bigint", "smallint", "boolean", "date", "jsonb", "bytea"}
    BY <1>4, <2>1 DEF PostgresTypes, PlainKinds
  <2>3. d = [PostgresNames[t.name] EXCEPT !.p = t.p]
    BY <2>2, PostgresNamed DEF PostgresToCommon, NamedInPostgres
  <2>4. PostgresNames[t.name].kind = c.kind
    BY <1>4, <2>1 DEF PostgresNames, PostgresTypes, PlainKinds, AutoConvert, Warn, Kind
  <2>5. PostgresNames[t.name] = Kind(PostgresNames[t.name].kind, PostgresNames[t.name].policy)
    BY <2>2 DEF PostgresNames, AutoConvert, Warn, Kind
  <2> QED BY <1>4, <2>1, <2>3, <2>4, <2>5 DEF SameSize, Kind
<1> QED BY <1>1, <1>2, <1>3, <1>4 DEF CommonOK, Settles

LEMMA MySqlSettles ==
  ASSUME NEW c, CommonOK(c), Settles("mysql", c)
  PROVE  SameSize(c, MySqlToCommon(ToMySql(c)))
<1> DEFINE t == ToMySql(c)
           d == MySqlToCommon(t)
<1>1. CASE c.kind = "string" /\ c.p \in Nat /\ c.s = Absent
  <2>1. t.name = "varchar" /\ t.p = c.p
    BY <1>1 DEF ToMySql, Sized
  <2>2. d = [AutoConvert("string") EXCEPT !.p = t.p]
    BY <2>1 DEF MySqlToCommon, MySqlIntegers
  <2> QED BY <1>1, <2>1, <2>2 DEF SameSize, AutoConvert, Kind
<1>2. CASE c.kind = "decimal" /\ c.p \in Nat /\ c.s \in Nat
  <2>1. t.name = "decimal" /\ t.p = c.p /\ t.s = c.s
    BY <1>2 DEF ToMySql, Scaled, Absent
  <2>2. d = [AutoConvert("decimal") EXCEPT !.p = t.p, !.s = t.s]
    BY <2>1 DEF MySqlToCommon, MySqlIntegers
  <2>3. d = [kind |-> "decimal", policy |-> "auto", p |-> t.p, s |-> t.s]
    BY <2>2 DEF AutoConvert, Kind
  <2> QED BY <1>2, <2>1, <2>3 DEF SameSize
<1>3. CASE c.kind \in {"datetime", "time"} /\ c.p \in (Nat \ {0}) \cup {Absent} /\ c.s = Absent
  <2>1. t.name = c.kind /\ t.p = c.p
    BY <1>3 DEF ToMySql, Sized, Absent
  <2>2. d = [AutoConvert(c.kind) EXCEPT !.p = t.p]
    BY <1>3, <2>1 DEF MySqlToCommon, MySqlIntegers
  <2> QED BY <1>3, <2>1, <2>2 DEF SameSize, AutoConvert, Kind
<1>4. CASE c.kind \in {"text", "date", "json", "binary"} /\ c.p = Absent /\ c.s = Absent
  <2>1. t.name = MySqlNames[c.kind]
    BY <1>4 DEF ToMySql, Plain
  <2>2. \/ c.kind = "text" /\ t.name = "longtext"
        \/ c.kind = "date" /\ t.name = "date"
        \/ c.kind = "json" /\ t.name = "json"
        \/ c.kind = "binary" /\ t.name = "longblob"
    BY <1>4, <2>1 DEF MySqlNames
  <2>3. d = AutoConvert(c.kind)
    BY <2>2 DEF MySqlToCommon, MySqlIntegers
  <2> QED BY <1>4, <2>3 DEF SameSize, AutoConvert, Kind
<1>5. CASE c.kind \in {"integer", "bigint", "smallint", "boolean"} /\ c.p = Absent /\ c.s = Absent
  <2>1. t.name = MySqlNames[c.kind]
    BY <1>5 DEF ToMySql, Plain
  <2>2. \/ c.kind = "integer" /\ t.name = "int"
        \/ c.kind = "bigint" /\ t.name = "bigint"
        \/ c.kind = "smallint" /\ t.name = "smallint"
        \/ c.kind = "boolean" /\ t.name = "tinyint(1)"
    BY <1>5, <2>1 DEF MySqlNames
  <2>3. d = MySqlInteger(t.name)
    BY <2>2 DEF MySqlToCommon, MySqlIntegers
  <2>4. MySqlInteger(t.name) = AutoConvert(c.kind)
    BY <2>2 DEF MySqlInteger
  <2> QED BY <1>5, <2>3, <2>4 DEF SameSize, AutoConvert, Kind
<1> QED BY <1>1, <1>2, <1>3, <1>4, <1>5 DEF CommonOK, Settles, PlainKinds

(* The policy of a common type does not matter to the writers.             *)
LEMMA SameSizeSameType ==
  ASSUME NEW db \in Dbms, NEW c, NEW d, SameSize(c, d)
  PROVE  FromCommon(db, c) = FromCommon(db, d)
<1>1. ToPostgres(c) = ToPostgres(d)
  BY DEF ToPostgres, SameSize
<1>2. ToMySql(c) = ToMySql(d)
  BY DEF ToMySql, SameSize
<1> QED BY <1>1, <1>2 DEF FromCommon

LEMMA RequiresNothing ==
  ASSUME NEW c, NEW d
  PROVE  ~RequiresTypeChange(c, d) <=> SameSize(c, d)
BY DEF RequiresTypeChange, SameSize

(* What the types can hold.                                                *)
Numbered == {"boolean", "smallint", "integer", "bigint", "tinyint", "mediumint", "int"}

LEMMA NumbersAre ==
  /\ DOMAIN Numbers = Numbered
  /\ \A n \in Numbered : Numbers[n][1] \in Nat /\ Numbers[n][2] \in Nat
BY DEF Numbers, Numbered

LEMMA PlainIs == \A t, n : t = Plain(n) => t.name = n /\ t.p = Absent
BY DEF Plain

LEMMA NumberCapacity ==
  ASSUME NEW t, t.name \in Numbered
  PROVE  Capacity(t) = <<"number", Numbers[t.name][1], Numbers[t.name][2], 0>>
<1>1. t.name \in DOMAIN Numbers
  BY NumbersAre
<1>2. t.name \notin
        {"tinyint(1)", "tinyint_unsigned", "smallint_unsigned", "mediumint_unsigned", "int_unsigned",
         "bigint_unsigned", "decimal", "numeric", "char", "varchar", "text", "longtext", "timestamp",
         "datetime", "time", "bytea", "blob", "longblob", "json", "jsonb"}
  BY DEF Numbered
<1> QED BY <1>1, <1>2, PlainIs DEF Capacity

LEMMA DecimalCapacity ==
  ASSUME NEW t, t.name \in {"decimal", "numeric"}, t.p \in Nat
  PROVE  Capacity(t) = <<"number", 3 * (t.p - t.s), 3 * (t.p - t.s), t.s>>
<1>1. t.p # Absent
  BY DEF Absent
<1> QED BY <1>1, NumbersAre, PlainIs DEF Capacity, Numbered

LEMMA StringCapacity ==
  ASSUME NEW t, t.name \in {"char", "varchar"}, t.p \in Nat
  PROVE  Capacity(t) = <<"string", t.p, 0, 0>>
<1>1. t.p # Absent
  BY DEF Absent
<1> QED BY <1>1, NumbersAre, PlainIs DEF Capacity, Numbered

LEMMA MomentCapacity ==
  ASSUME NEW t
  PROVE  /\ t.name \in {"timestamp", "datetime"} =>
              Capacity(t) = <<"datetime", IF t.p = Absent THEN 0 ELSE t.p, 0, 0>>
         /\ t.name = "time" => Capacity(t) = <<"time", IF t.p = Absent THEN 0 ELSE t.p, 0, 0>>
BY NumbersAre, PlainIs DEF Capacity, Numbered

LEMMA OtherCapacities ==
  ASSUME NEW t
  PROVE  /\ t.name = "tinyint(1)" => Capacity(t) = <<"number", 7, 7, 0>>
         /\ t.name \in {"bytea", "blob", "longblob"} => Capacity(t) = <<"binary", 0, 0, 0>>
         /\ t.name \in {"json", "jsonb"} => Capacity(t) = <<"json", 0, 0, 0>>
         /\ t.name = "date" => Capacity(t) = <<"date", 0, 0, 0>>
         /\ t \in {Plain("text"), Plain("longtext")} => Capacity(t) = <<"string", Unlimited, 0, 0>>
<1>1. t.name = "tinyint(1)" => Capacity(t) = <<"number", 7, 7, 0>>
  BY NumbersAre, PlainIs DEF Capacity, Numbered
<1>2. t.name \in {"bytea", "blob", "longblob"} => Capacity(t) = <<"binary", 0, 0, 0>>
  BY NumbersAre, PlainIs DEF Capacity, Numbered
<1>3. t.name \in {"json", "jsonb"} => Capacity(t) = <<"json", 0, 0, 0>>
  BY NumbersAre, PlainIs DEF Capacity, Numbered
<1>4. t.name = "date" => Capacity(t) = <<"date", 0, 0, 0>>
  BY NumbersAre, PlainIs DEF Capacity, Numbered
<1>5. t \in {Plain("text"), Plain("longtext")} => Capacity(t) = <<"string", Unlimited, 0, 0>>
  <2> SUFFICES ASSUME t \in {Plain("text"), Plain("longtext")} PROVE Capacity(t) = <<"string", Unlimited, 0, 0>>
    OBVIOUS
  <2>1. t.name \in {"text", "longtext"} /\ t \in {Plain("varchar"), Plain("text"), Plain("longtext")}
        /\ t # Plain("numeric")
    BY PlainIs
  <2> QED BY <2>1, NumbersAre DEF Capacity, Numbered
<1> QED BY <1>1, <1>2, <1>3, <1>4, <1>5

LEMMA FitsIs ==
  ASSUME NEW a, NEW b, NEW k,
         NEW x \in Int, NEW y \in Int, NEW z \in Int, Capacity(a) = <<k, x, y, z>>,
         NEW u \in Int, NEW v \in Int, NEW w \in Int, Capacity(b) = <<k, u, v, w>>,
         x <= u, y <= v, z <= w
  PROVE  Fits(a, b)
<1>1. Capacity(a)[1] = Capacity(b)[1]
  OBVIOUS
<1>2. \A i \in 2 .. 4 : i = 2 \/ i = 3 \/ i = 4
  OBVIOUS
<1>3. Capacity(a)[2] = x /\ Capacity(a)[3] = y /\ Capacity(a)[4] = z
  OBVIOUS
<1>4. Capacity(b)[2] = u /\ Capacity(b)[3] = v /\ Capacity(b)[4] = w
  OBVIOUS
<1> QED BY <1>1, <1>2, <1>3, <1>4 DEF Fits

(* How a type and the common type that stands for it go together when the  *)
(* conversion is announced as AUTO_CONVERT.                                *)
Carried(t, c) ==
  \/ t.name \in {"char", "varchar"} /\ c.kind = "string" /\ c.p = t.p /\ t.p \in Nat
  \/ /\ t.name \in {"decimal", "numeric"} /\ c.kind = "decimal"
     /\ c.p = t.p /\ c.s = t.s /\ t.p \in Nat /\ t.s \in Nat
  \/ t.name \in {"timestamp", "datetime"} /\ c.kind = "datetime" /\ c.p = t.p /\ t.p \in Nat \cup {Absent}
  \/ t.name = "time" /\ c.kind = "time" /\ c.p = t.p /\ t.p \in Nat \cup {Absent}
  \/ t \in {Plain("text"), Plain("longtext")} /\ c.kind = "text"
  \/ /\ t.name \in Numbered /\ c.kind \in {"boolean", "smallint", "integer", "bigint"}
     /\ Numbers[t.name][1] <= Numbers[c.kind][1] /\ Numbers[t.name][2] <= Numbers[c.kind][2]
  \/ t.name \in {"bytea", "blob", "longblob"} /\ c.kind = "binary"
  \/ t.name = "date" /\ c.kind = "date"
  \/ t.name \in {"json", "jsonb"} /\ c.kind = "json"

LEMMA PostgresCarries ==
  ASSUME NEW t, Known("postgresql", t), PostgresToCommon(t).policy = "auto"
  PROVE  Carried(t, PostgresToCommon(t))
<1> DEFINE c == PostgresToCommon(t)
<1>1. CASE t.name \in {"varchar", "char"} /\ t.p \in Nat
  <2>1. t.name \notin DOMAIN PostgresNames /\ t.p # Absent
    BY <1>1, PostgresNamed DEF NamedInPostgres, Absent
  <2>2. c = [AutoConvert("string") EXCEPT !.p = t.p]
    BY <1>1, <2>1 DEF PostgresToCommon
  <2> QED BY <1>1, <2>2 DEF Carried, AutoConvert, Kind
<1>2. CASE t.name = "numeric" /\ t.p \in Nat /\ t.s \in Nat
  <2>1. t.name \notin DOMAIN PostgresNames /\ t.p # Absent
    BY <1>2, PostgresNamed DEF NamedInPostgres, Absent
  <2>2. c = [AutoConvert("decimal") EXCEPT !.p = t.p, !.s = t.s]
    BY <1>2, <2>1 DEF PostgresToCommon
  <2>3. c.kind = "decimal" /\ c.p = t.p /\ c.s = t.s
    BY <2>2 DEF AutoConvert, Kind
  <2> QED BY <1>2, <2>3 DEF Carried
<1>3. CASE t.name \in Temporals /\ t.p \in Nat
  <2>1. c = [PostgresNames[t.name] EXCEPT !.p = t.p]
    BY <1>3, PostgresNamed DEF PostgresToCommon, NamedInPostgres, Temporals
  <2>2. \/ t.name = "timestamp" /\ PostgresNames[t.name] = AutoConvert("datetime")
        \/ t.name = "time" /\ PostgresNames[t.name] = AutoConvert("time")
    BY <1>3, <2>1 DEF PostgresNames, Temporals, Warn, Kind
  <2> QED BY <1>3, <2>1, <2>2 DEF Carried, AutoConvert, Kind
<1>4. CASE t.name \in PostgresPlain /\ t.p = Absent /\ t.s = Absent
  <2>1. t.name \in NamedInPostgres
    <3>1. t.name \notin NamedInPostgres => c = Manual("unknown")
      BY <1>4, PostgresNamed DEF PostgresToCommon
    <3> QED BY <3>1 DEF Manual, Kind
  <2>2. c = [PostgresNames[t.name] EXCEPT !.p = t.p]
    BY <1>4, <2>1, PostgresNamed DEF PostgresToCommon, PostgresPlain, NamedInPostgres
  <2>3. t.name \in {"text", "integer", "bigint", "smallint", "boolean", "date", "json", "bytea"}
    <3>1. t.name \in {"text", "integer", "bigint", "smallint", "boolean", "date", "json", "bytea", "jsonb", "uuid"}
      BY <1>4, <2>1 DEF PostgresPlain, NamedInPostgres
    <3> QED BY <2>2, <3>1 DEF PostgresNames, Warn, Kind
  <2>4. CASE t.name = "text"
    <3>1. t = Plain("text")
      BY <1>4, <2>4 DEF Known, Plain
    <3>2. c.kind = "text"
      BY <2>2, <2>4 DEF PostgresNames, AutoConvert, Kind
    <3> QED BY <3>1, <3>2 DEF Carried
  <2>5. CASE t.name \in {"integer", "bigint", "smallint", "boolean"}
    <3>1. c.kind = t.name
      BY <2>2, <2>5 DEF PostgresNames, AutoConvert, Kind
    <3>2. Numbers[t.name][1] <= Numbers[t.name][1] /\ Numbers[t.name][2] <= Numbers[t.name][2]
      BY <2>5, NumbersAre DEF Numbered
    <3> QED BY <2>5, <3>1, <3>2 DEF Carried, Numbered
  <2>6. CASE t.name \in {"date", "json", "bytea"}
    BY <2>2, <2>6 DEF Carried, PostgresNames, AutoConvert, Kind
  <2> QED BY <2>3, <2>4, <2>5, <2>6
<1> QED BY <1>1, <1>2, <1>3, <1>4 DEF Known, KnownPostgres, Temporals

LEMMA MySqlCarries ==
  ASSUME NEW t, Known("mysql", t), MySqlToCommon(t).policy = "auto", t.name # "tinyint(1)"
  PROVE  Carried(t, MySqlToCommon(t))
<1> DEFINE c == MySqlToCommon(t)
<1>1. CASE t.name \in {"varchar", "char"} /\ t.p \in Nat
  <2>1. c = [AutoConvert("string") EXCEPT !.p = t.p]
    BY <1>1 DEF MySqlToCommon, MySqlIntegers
  <2> QED BY <1>1, <2>1 DEF Carried, AutoConvert, Kind
<1>2. CASE t.name = "decimal" /\ t.p \in Nat /\ t.s \in Nat
  <2>1. c = [AutoConvert("decimal") EXCEPT !.p = t.p, !.s = t.s]
    BY <1>2 DEF MySqlToCommon, MySqlIntegers
  <2>2. c.kind = "decimal" /\ c.p = t.p /\ c.s = t.s
    BY <2>1 DEF AutoConvert, Kind
  <2> QED BY <1>2, <2>2 DEF Carried
<1>3. CASE t.name \in {"datetime", "time"} /\ t.p \in Nat \cup {Absent}
  <2>1. c = [AutoConvert(t.name) EXCEPT !.p = t.p]
    BY <1>3 DEF MySqlToCommon, MySqlIntegers
  <2> QED BY <1>3, <2>1 DEF Carried, AutoConvert, Kind
<1>4. CASE t.name = "timestamp"
  <2>1. c = [Warn("datetime") EXCEPT !.p = t.p]
    BY <1>4 DEF MySqlToCommon, MySqlIntegers
  <2> QED BY <2>1 DEF Warn, Kind
<1>5. CASE t.name \in MySqlIntegers /\ t.p = Absent /\ t.s = Absent
  <2>1. c = MySqlInteger(t.name)
    BY <1>5 DEF MySqlToCommon, MySqlIntegers
  <2>2. \/ t.name \in {"tinyint", "smallint"} /\ c = AutoConvert("smallint")
        \/ t.name \in {"mediumint", "int"} /\ c = AutoConvert("integer")
        \/ t.name = "bigint" /\ c = AutoConvert("bigint")
    <3>1. t.name \in {"tinyint_unsigned", "smallint_unsigned", "mediumint_unsigned", "int_unsigned",
                      "bigint_unsigned"}
            => c \in {Warn("smallint"), Warn("integer"), Warn("bigint"), Warn("decimal")}
      BY <2>1 DEF MySqlInteger
    <3>2. t.name \notin {"tinyint_unsigned", "smallint_unsigned", "mediumint_unsigned", "int_unsigned",
                         "bigint_unsigned"}
      <4>1. c \notin {Warn("smallint"), Warn("integer"), Warn("bigint"), Warn("decimal")}
        BY DEF Warn, Kind
      <4> QED BY <3>1, <4>1
    <3>3. t.name \in {"tinyint", "smallint", "mediumint", "int", "bigint"}
      BY <1>5, <3>2 DEF MySqlIntegers
    <3> QED BY <2>1, <3>3 DEF MySqlInteger
  <2>3. t.name \in Numbered /\ c.kind \in {"smallint", "integer", "bigint"}
    BY <2>2 DEF Numbered, AutoConvert, Kind
  <2>4. Numbers[t.name][1] <= Numbers[c.kind][1] /\ Numbers[t.name][2] <= Numbers[c.kind][2]
    BY <2>2 DEF Numbers, AutoConvert, Kind
  <2> QED BY <2>3, <2>4 DEF Carried
<1>6. CASE t.name \in {"text", "longtext"} /\ t.p = Absent /\ t.s = Absent
  <2>1. t \in {Plain("text"), Plain("longtext")}
    BY <1>6 DEF Known, Plain
  <2>2. c = AutoConvert("text")
    BY <1>6 DEF MySqlToCommon, MySqlIntegers
  <2> QED BY <2>1, <2>2 DEF Carried, AutoConvert, Kind
<1>7. CASE t.name \in {"blob", "longblob", "date", "json"}
  <2>1. c = AutoConvert(IF t.name \in {"blob", "longblob"} THEN "binary" ELSE t.name)
    BY <1>7 DEF MySqlToCommon, MySqlIntegers
  <2> QED BY <1>7, <2>1 DEF Carried, AutoConvert, Kind
<1>8. CASE t.name \in {"double", "float", "enum", "varbinary"}
  <2>1. c \in {Warn("decimal"), Manual("text"), Manual("unknown")}
    BY <1>8 DEF MySqlToCommon, MySqlIntegers
  <2> QED BY <2>1 DEF Warn, Manual, Kind
<1> QED BY <1>1, <1>2, <1>3, <1>4, <1>5, <1>6, <1>7, <1>8 DEF Known, KnownMySql, MySqlPlain

LEMMA CarriedFits ==
  ASSUME NEW db \in Dbms, NEW t, NEW c, Carried(t, c)
  PROVE  Fits(t, FromCommon(db, c))
<1> DEFINE made == FromCommon(db, c)
<1>0. /\ db = "postgresql" => made = ToPostgres(c)
      /\ db = "mysql" => made = ToMySql(c)
      /\ db \in {"postgresql", "mysql"}
  BY DEF FromCommon, Dbms
<1> HIDE DEF made
<1>1. CASE t.name \in {"char", "varchar"} /\ c.kind = "string" /\ c.p = t.p /\ t.p \in Nat
  <2>1. made.name = "varchar" /\ made.p = t.p
    BY <1>0, <1>1 DEF ToPostgres, ToMySql, Sized
  <2> QED BY <1>1, <2>1, StringCapacity, FitsIs DEF made
<1>2. CASE /\ t.name \in {"decimal", "numeric"} /\ c.kind = "decimal"
           /\ c.p = t.p /\ c.s = t.s /\ t.p \in Nat /\ t.s \in Nat
  <2>1. made.name \in {"decimal", "numeric"} /\ made.p = t.p /\ made.s = t.s
    BY <1>0, <1>2 DEF ToPostgres, ToMySql, Scaled, Absent
  <2>2. 3 * (t.p - t.s) \in Int
    BY <1>2
  <2> QED BY <1>2, <2>1, <2>2, DecimalCapacity, FitsIs DEF made
<1>3. CASE t.name \in {"timestamp", "datetime"} /\ c.kind = "datetime" /\ c.p = t.p /\ t.p \in Nat \cup {Absent}
  <2>1. made.name \in {"timestamp", "datetime"} /\ made.p \in {t.p, 6, Absent}
        /\ (made.p = 6 => t.p \in {6, Absent}) /\ (made.p = Absent => t.p \in {0, Absent})
    BY <1>0, <1>3 DEF ToPostgres, ToMySql, Sized, Absent
  <2>2. /\ Capacity(t) = <<"datetime", IF t.p = Absent THEN 0 ELSE t.p, 0, 0>>
        /\ Capacity(made) = <<"datetime", IF made.p = Absent THEN 0 ELSE made.p, 0, 0>>
    BY <1>3, <2>1, MomentCapacity
  <2>3. (IF t.p = Absent THEN 0 ELSE t.p) \in Int /\ (IF made.p = Absent THEN 0 ELSE made.p) \in Int
        /\ (IF t.p = Absent THEN 0 ELSE t.p) <= (IF made.p = Absent THEN 0 ELSE made.p)
    BY <1>3, <2>1 DEF Absent
  <2> QED BY <2>2, <2>3, FitsIs DEF made
<1>4. CASE t.name = "time" /\ c.kind = "time" /\ c.p = t.p /\ t.p \in Nat \cup {Absent}
  <2>1. made.name = "time" /\ made.p \in {t.p, 6, Absent}
        /\ (made.p = 6 => t.p \in {6, Absent}) /\ (made.p = Absent => t.p \in {0, Absent})
    BY <1>0, <1>4 DEF ToPostgres, ToMySql, Sized, Absent
  <2>2. /\ Capacity(t) = <<"time", IF t.p = Absent THEN 0 ELSE t.p, 0, 0>>
        /\ Capacity(made) = <<"time", IF made.p = Absent THEN 0 ELSE made.p, 0, 0>>
    BY <1>4, <2>1, MomentCapacity
  <2>3. (IF t.p = Absent THEN 0 ELSE t.p) \in Int /\ (IF made.p = Absent THEN 0 ELSE made.p) \in Int
        /\ (IF t.p = Absent THEN 0 ELSE t.p) <= (IF made.p = Absent THEN 0 ELSE made.p)
    BY <1>4, <2>1 DEF Absent
  <2> QED BY <2>2, <2>3, FitsIs DEF made
<1>5. CASE t \in {Plain("text"), Plain("longtext")} /\ c.kind = "text"
  <2>1. made \in {Plain("text"), Plain("longtext")}
    BY <1>0, <1>5 DEF ToPostgres, ToMySql, PostgresTypes, MySqlNames
  <2> QED BY <1>5, <2>1, OtherCapacities, FitsIs DEF made, Unlimited
<1>6. CASE /\ t.name \in Numbered /\ c.kind \in {"boolean", "smallint", "integer", "bigint"}
           /\ Numbers[t.name][1] <= Numbers[c.kind][1] /\ Numbers[t.name][2] <= Numbers[c.kind][2]
  <2> DEFINE x == Numbers[t.name][1]
             y == Numbers[t.name][2]
             u == Numbers[c.kind][1]
             v == Numbers[c.kind][2]
  <2>1. /\ x \in Int /\ y \in Int /\ u \in Int /\ v \in Int /\ x <= u /\ y <= v
        /\ Capacity(t) = <<"number", x, y, 0>>
    BY <1>6, NumbersAre, NumberCapacity DEF Numbered
  <2>2. CASE db = "postgresql"
    <3>1. made.name = c.kind
      BY <1>0, <1>6, <2>2 DEF ToPostgres, PostgresTypes, Plain
    <3>2. Capacity(made) = <<"number", u, v, 0>>
      BY <1>6, <3>1, NumberCapacity DEF Numbered
    <3> HIDE DEF x, y, u, v
    <3> QED BY <2>1, <3>2, FitsIs DEF made
  <2>3. CASE db = "mysql" /\ c.kind = "boolean"
    <3>1. made.name = "tinyint(1)"
      BY <1>0, <2>3 DEF ToMySql, MySqlNames, Plain
    <3>2. Capacity(made) = <<"number", 7, 7, 0>>
      BY <3>1, OtherCapacities
    <3>3. x <= 7 /\ y <= 7
      BY <2>1, <2>3 DEF Numbers
    <3> HIDE DEF x, y, u, v
    <3> QED BY <2>1, <3>2, <3>3, FitsIs DEF made
  <2>4. CASE db = "mysql" /\ c.kind # "boolean"
    <3>1. made.name = IF c.kind = "integer" THEN "int" ELSE c.kind
      BY <1>0, <1>6, <2>4 DEF ToMySql, MySqlNames, Plain
    <3>2. made.name \in Numbered /\ Numbers[made.name][1] = u /\ Numbers[made.name][2] = v
      BY <1>6, <2>4, <3>1 DEF Numbers, Numbered
    <3>3. Capacity(made) = <<"number", u, v, 0>>
      BY <3>2, NumberCapacity
    <3> HIDE DEF x, y, u, v
    <3> QED BY <2>1, <3>3, FitsIs DEF made
  <2> QED BY <1>0, <2>2, <2>3, <2>4
<1>7. CASE t.name \in {"bytea", "blob", "longblob"} /\ c.kind = "binary"
  <2>1. made.name \in {"bytea", "longblob"}
    BY <1>0, <1>7 DEF ToPostgres, ToMySql, PostgresTypes, MySqlNames, Plain
  <2> QED BY <1>7, <2>1, OtherCapacities, FitsIs DEF made
<1>8. CASE t.name = "date" /\ c.kind = "date"
  <2>1. made.name = "date"
    BY <1>0, <1>8 DEF ToPostgres, ToMySql, PostgresTypes, MySqlNames, Plain
  <2> QED BY <1>8, <2>1, OtherCapacities, FitsIs DEF made
<1>9. CASE t.name \in {"json", "jsonb"} /\ c.kind = "json"
  <2>1. made.name \in {"json", "jsonb"}
    BY <1>0, <1>9 DEF ToPostgres, ToMySql, PostgresTypes, MySqlNames, Plain
  <2> QED BY <1>9, <2>1, OtherCapacities, FitsIs DEF made
<1> QED BY <1>1, <1>2, <1>3, <1>4, <1>5, <1>6, <1>7, <1>8, <1>9 DEF Carried, made

LEMMA AutoFits ==
  ASSUME NEW d \in Dbms, NEW db \in Dbms, NEW t, Known(d, t), ToCommon(d, t).policy = "auto",
         t.name # "tinyint(1)"
  PROVE  Fits(t, FromCommon(db, ToCommon(d, t)))
<1>1. Carried(t, ToCommon(d, t))
  BY PostgresCarries, MySqlCarries DEF ToCommon, Dbms
<1> QED BY <1>1, CarriedFits

(* Every type has a measurable capacity; so Fits is an order.              *)
Measured(t) == \E k : \E x, y, z \in Int : Capacity(t) = <<k, x, y, z>>

LEMMA SomeMeasure ==
  ASSUME NEW t, NEW k, NEW x \in Int, NEW y \in Int, NEW z \in Int, Capacity(t) = <<k, x, y, z>>
  PROVE  Measured(t)
BY DEF Measured

LEMMA UnnamedCapacity ==
  ASSUME NEW t, t.name \in {"uuid", "double_precision", "real", "ARRAY", "enum", "varbinary", "double", "float",
                            "timestamptz", "timetz"}
  PROVE  Capacity(t) = <<t.name, 0, 0, 0>>
<1>1. t.name \notin DOMAIN Numbers
  BY NumbersAre DEF Numbered
<1>2. t.name \notin
        {"tinyint(1)", "tinyint_unsigned", "smallint_unsigned", "mediumint_unsigned", "int_unsigned",
         "bigint_unsigned", "decimal", "numeric", "char", "varchar", "text", "longtext", "timestamp",
         "datetime", "time", "bytea", "blob", "longblob", "json", "jsonb"}
  OBVIOUS
<1> QED BY <1>1, <1>2, PlainIs DEF Capacity

LEMMA UnsignedCapacity ==
  ASSUME NEW t
  PROVE  /\ t.name = "tinyint_unsigned" => Capacity(t) = <<"number", 0, 8, 0>>
         /\ t.name = "smallint_unsigned" => Capacity(t) = <<"number", 0, 16, 0>>
         /\ t.name = "mediumint_unsigned" => Capacity(t) = <<"number", 0, 24, 0>>
         /\ t.name = "int_unsigned" => Capacity(t) = <<"number", 0, 32, 0>>
         /\ t.name = "bigint_unsigned" => Capacity(t) = <<"number", 0, 64, 0>>
<1>1. t.name = "tinyint_unsigned" => Capacity(t) = <<"number", 0, 8, 0>>
  BY NumbersAre, PlainIs DEF Capacity, Numbered
<1>2. t.name = "smallint_unsigned" => Capacity(t) = <<"number", 0, 16, 0>>
  BY NumbersAre, PlainIs DEF Capacity, Numbered
<1>3. t.name = "mediumint_unsigned" => Capacity(t) = <<"number", 0, 24, 0>>
  BY NumbersAre, PlainIs DEF Capacity, Numbered
<1>4. t.name = "int_unsigned" => Capacity(t) = <<"number", 0, 32, 0>>
  BY NumbersAre, PlainIs DEF Capacity, Numbered
<1>5. t.name = "bigint_unsigned" => Capacity(t) = <<"number", 0, 64, 0>>
  BY NumbersAre, PlainIs DEF Capacity, Numbered
<1> QED BY <1>1, <1>2, <1>3, <1>4, <1>5

LEMMA PlainCapacity ==
  /\ Capacity(Plain("numeric")) = <<"number", Unlimited, Unlimited, Unlimited>>
  /\ Capacity(Plain("varchar")) = <<"string", Unlimited, 0, 0>>
<1>1. Plain("numeric").name = "numeric" /\ Plain("numeric").p = Absent
      /\ Plain("varchar").name = "varchar" /\ Plain("varchar").p = Absent
  BY DEF Plain
<1>2. Capacity(Plain("numeric")) = <<"number", Unlimited, Unlimited, Unlimited>>
  BY <1>1, NumbersAre, PlainIs DEF Capacity, Numbered
<1>3. Plain("varchar") \in {Plain("varchar"), Plain("text"), Plain("longtext")} /\ Plain("varchar") # Plain("numeric")
  BY <1>1
<1>4. Capacity(Plain("varchar")) = <<"string", Unlimited, 0, 0>>
  BY <1>1, <1>3, NumbersAre DEF Capacity, Numbered
<1> QED BY <1>2, <1>4

LEMMA KnownIsMeasured ==
  ASSUME NEW d, NEW t, Known(d, t)
  PROVE  Measured(t)
<1>1. CASE t.name \in {"varchar", "char"} /\ t.p \in Nat
  BY <1>1, StringCapacity, SomeMeasure
<1>2. CASE t.name \in {"numeric", "decimal"} /\ t.p \in Nat /\ t.s \in Nat
  <2>1. 3 * (t.p - t.s) \in Int /\ t.s \in Int
    BY <1>2
  <2> QED BY <1>2, <2>1, DecimalCapacity, SomeMeasure
<1>3. CASE t.name \in {"timestamp", "datetime", "time"} /\ t.p \in Nat \cup {Absent}
  <2>1. (IF t.p = Absent THEN 0 ELSE t.p) \in Int
    BY <1>3
  <2> QED BY <1>3, <2>1, MomentCapacity, SomeMeasure
<1>4. CASE t.name \in {"varchar", "numeric", "text", "longtext"} /\ t.p = Absent /\ t.s = Absent
  <2>1. t \in {Plain("varchar"), Plain("numeric"), Plain("text"), Plain("longtext")}
    BY <1>4 DEF Known, Plain
  <2> QED BY <2>1, PlainCapacity, OtherCapacities, SomeMeasure DEF Unlimited
<1>5. CASE t.name \in {"tinyint(1)", "bytea", "blob", "longblob", "json", "jsonb", "date"}
  BY <1>5, OtherCapacities, SomeMeasure
<1>6. CASE t.name \in Numbered
  BY <1>6, NumberCapacity, NumbersAre, SomeMeasure
<1>7. CASE t.name \in {"tinyint_unsigned", "smallint_unsigned", "mediumint_unsigned", "int_unsigned", "bigint_unsigned"}
  BY <1>7, UnsignedCapacity, SomeMeasure
<1>8. CASE t.name \in {"uuid", "double_precision", "real", "ARRAY", "enum", "varbinary", "double", "float",
                       "timestamptz", "timetz"}
  BY <1>8, UnnamedCapacity, SomeMeasure
<1>9. CASE d = "postgresql"
  <2>1. t.name \in Temporals /\ t.p \in Nat =>
          t.name \in {"timestamptz", "timetz"} \/ (t.name \in {"timestamp", "datetime", "time"} /\ t.p \in Nat \cup {Absent})
    BY DEF Temporals
  <2>2. t.name \in PostgresPlain =>
          \/ t.name \in {"varchar", "numeric", "text", "longtext"}
          \/ t.name \in {"tinyint(1)", "bytea", "blob", "longblob", "json", "jsonb", "date"}
          \/ t.name \in Numbered
          \/ t.name \in {"uuid", "double_precision", "real", "ARRAY", "enum", "varbinary", "double", "float",
                         "timestamptz", "timetz"}
    BY DEF PostgresPlain, Numbered
  <2> QED BY <1>1, <1>2, <1>3, <1>4, <1>5, <1>6, <1>8, <1>9, <2>1, <2>2 DEF Known, KnownPostgres
<1>10. CASE d = "mysql"
  <2>1. t.name \in MySqlPlain =>
          \/ t.name \in {"varchar", "numeric", "text", "longtext"}
          \/ t.name \in {"tinyint(1)", "bytea", "blob", "longblob", "json", "jsonb", "date"}
          \/ t.name \in Numbered
          \/ t.name \in {"tinyint_unsigned", "smallint_unsigned", "mediumint_unsigned", "int_unsigned", "bigint_unsigned"}
          \/ t.name \in {"uuid", "double_precision", "real", "ARRAY", "enum", "varbinary", "double", "float",
                         "timestamptz", "timetz"}
    BY DEF MySqlPlain, MySqlIntegers, Numbered
  <2> QED BY <1>1, <1>2, <1>3, <1>4, <1>5, <1>6, <1>7, <1>8, <1>10, <2>1 DEF Known, KnownMySql
<1> QED BY <1>9, <1>10 DEF Known

LEMMA FitsItself == ASSUME NEW t, Measured(t) PROVE Fits(t, t)
BY FitsIs DEF Measured

LEMMA FitsOn ==
  ASSUME NEW a, NEW b, NEW c, Measured(a), Measured(b), Measured(c), Fits(a, b), Fits(b, c)
  PROVE  Fits(a, c)
<1>1. \A t : Measured(t) => Capacity(t)[2] \in Int /\ Capacity(t)[3] \in Int /\ Capacity(t)[4] \in Int
  BY DEF Measured
<1>2. \A i \in 2 .. 4 : i = 2 \/ i = 3 \/ i = 4
  OBVIOUS
<1> QED BY <1>1, <1>2 DEF Fits

-----------------------------------------------------------------------------
(* What holds of a column between the steps: types are known, the policy   *)
(* of a conversion that was made is recorded, and as long as none but      *)
(* AUTO_CONVERT was, what the column holds here is no less than at first.  *)
(* A tinyint(1) stands for a boolean then, if it was not one at first.     *)
ColumnTypeInv ==
  /\ from \in Dbms /\ to \in Dbms /\ Known(from, here)
  /\ there # NoType => Known(to, there)
  /\ first \in Dbms /\ Known(first, origin) /\ Measured(origin)

PolicyInv == there # NoType => Common.policy \in policies

FitsInv ==
  policies \subseteq {"auto"} /\ origin.name # "tinyint(1)" =>
    /\ Fits(origin, here)
    /\ here.name = "tinyint(1)" => Fits(origin, Plain("boolean"))

TypeInv == ColumnTypeInv /\ PolicyInv /\ FitsInv

LEMMA CommonIs ==
  ASSUME ColumnTypeInv
  PROVE  /\ CommonOK(Common) /\ Known(to, FromCommon(to, Common)) /\ FromCommon(to, Common) # NoType
BY CommonTypes, CreatedIs DEF ColumnTypeInv, Common

(* Only a boolean becomes a tinyint(1), and only those two become one.     *)
LEMMA BooleanIs ==
  ASSUME NEW d \in Dbms, NEW db \in Dbms, NEW t, Known(d, t),
         FromCommon(db, ToCommon(d, t)).name = "tinyint(1)"
  PROVE  t.name \in {"boolean", "tinyint(1)"}
<1> DEFINE c == ToCommon(d, t)
<1>1. CommonOK(c)
  BY CommonTypes
<1>2. FromCommon("postgresql", c).name # "tinyint(1)"
  <2>1. Known("postgresql", FromCommon("postgresql", c))
    BY <1>1, CreatedIs DEF Dbms
  <2> QED BY <2>1 DEF Known, KnownPostgres, Temporals, PostgresPlain
<1>3. c.kind = "boolean"
  <2>1. ToMySql(c).name = "tinyint(1)"
    BY <1>2 DEF FromCommon, Dbms
  <2>2. c.kind \notin {"string", "decimal", "datetime", "time", "uuid"}
    BY <2>1 DEF ToMySql, Sized, Scaled
  <2>3. c.kind \in PlainKinds \ {"uuid"} /\ MySqlNames[c.kind] = "tinyint(1)"
    BY <1>1, <2>1, <2>2 DEF ToMySql, Plain, CommonOK, PlainKinds
  <2> QED BY <2>3 DEF MySqlNames, PlainKinds
<1>4. CASE d = "mysql"
  <2>1. c = MySqlToCommon(t)
    BY <1>4 DEF ToCommon
  <2>2. t.name \in MySqlIntegers
    <3>1. t.name \notin MySqlIntegers => c.kind # "boolean"
      BY <2>1, <1>4 DEF MySqlToCommon, Known, KnownMySql, MySqlPlain, AutoConvert, Warn, Manual, Kind
    <3> QED BY <1>3, <3>1
  <2>3. c = MySqlInteger(t.name)
    BY <2>1, <2>2 DEF MySqlToCommon, MySqlIntegers
  <2> QED BY <1>3, <2>2, <2>3 DEF MySqlInteger, MySqlIntegers, AutoConvert, Warn, Kind
<1>5. CASE d = "postgresql"
  <2>1. c = PostgresToCommon(t)
    BY <1>5 DEF ToCommon
  <2>2. CASE t.name \in NamedInPostgres
    <3>1. c = [PostgresNames[t.name] EXCEPT !.p = t.p]
      BY <2>1, <2>2, PostgresNamed DEF PostgresToCommon, NamedInPostgres
    <3>2. PostgresNames[t.name] = Kind(PostgresNames[t.name].kind, PostgresNames[t.name].policy)
      BY <2>2 DEF PostgresNames, NamedInPostgres, AutoConvert, Warn, Kind
    <3>3. PostgresNames[t.name].kind = "boolean"
      BY <1>3, <3>1, <3>2 DEF Kind
    <3> QED BY <2>2, <3>3 DEF PostgresNames, NamedInPostgres, AutoConvert, Warn, Kind
  <2>3. CASE t.name \notin NamedInPostgres
    <3>1. \/ c = [AutoConvert("string") EXCEPT !.p = t.p]
          \/ c = [AutoConvert("decimal") EXCEPT !.p = t.p, !.s = t.s]
          \/ c = Manual("unknown")
      <4>1. CASE t.name \in {"varchar", "char"} /\ t.p # Absent
        BY <2>1, <2>3, <4>1, PostgresNamed DEF PostgresToCommon
      <4>2. CASE t.name = "numeric" /\ t.p # Absent
        BY <2>1, <2>3, <4>2, PostgresNamed DEF PostgresToCommon
      <4>3. CASE t.p = Absent \/ t.name \notin {"varchar", "char", "numeric"}
        BY <2>1, <2>3, <4>3, PostgresNamed DEF PostgresToCommon
      <4> QED BY <4>1, <4>2, <4>3
    <3>2. /\ [AutoConvert("string") EXCEPT !.p = t.p].kind = "string"
          /\ Manual("unknown").kind = "unknown"
      BY DEF AutoConvert, Manual, Kind
    <3>3. ASSUME c = [AutoConvert("decimal") EXCEPT !.p = t.p, !.s = t.s] PROVE c.kind = "decimal"
      <4>1. c = [kind |-> "decimal", policy |-> "auto", p |-> t.p, s |-> t.s]
        BY <3>3 DEF AutoConvert, Kind
      <4> QED BY <4>1
    <3> HIDE DEF c
    <3> QED BY <1>3, <3>1, <3>2, <3>3
  <2> QED BY <2>2, <2>3
<1> QED BY <1>4, <1>5 DEF Dbms

(* A conversion keeps what was known of the column.                        *)
LEMMA FitsThere ==
  ASSUME TypeInv, policies \subseteq {"auto"}, Common.policy = "auto", origin.name # "tinyint(1)"
  PROVE  /\ Fits(origin, FromCommon(to, Common))
         /\ FromCommon(to, Common).name = "tinyint(1)" => Fits(origin, Plain("boolean"))
<1> DEFINE made == FromCommon(to, Common)
<1>1. /\ Measured(origin) /\ Measured(here) /\ Measured(made) /\ Measured(Plain("boolean"))
      /\ Known(from, here) /\ from \in Dbms /\ to \in Dbms
  <2>1. Known("postgresql", Plain("boolean"))
    BY DEF Known, KnownPostgres, PostgresPlain, Plain
  <2> QED BY <2>1, CommonIs, KnownIsMeasured DEF TypeInv, ColumnTypeInv
<1>2. Fits(origin, here) /\ (here.name = "tinyint(1)" => Fits(origin, Plain("boolean")))
  BY DEF TypeInv, FitsInv
<1>3. made.name = "tinyint(1)" => here.name \in {"boolean", "tinyint(1)"}
  BY <1>1, BooleanIs DEF Common
<1>4. here.name = "boolean" => Fits(origin, Plain("boolean"))
  <2>1. here.name = "boolean" => Capacity(here) = Capacity(Plain("boolean"))
    <3>1. Plain("boolean").name = "boolean"
      BY DEF Plain
    <3> QED BY <3>1, NumberCapacity DEF Numbered
  <2> QED BY <1>2, <2>1 DEF Fits
<1>5. CASE here.name # "tinyint(1)"
  <2>1. Fits(here, made)
    BY <1>1, <1>5, AutoFits DEF Common
  <2> QED BY <1>1, <1>2, <1>3, <1>4, <1>5, <2>1, FitsOn
<1>6. CASE here.name = "tinyint(1)"
  <2>1. from = "mysql" /\ Common.kind = "boolean"
    <3>1. from = "mysql"
      BY <1>1, <1>6 DEF Known, KnownPostgres, Temporals, PostgresPlain
    <3>2. Common = MySqlInteger("tinyint(1)")
      BY <1>6, <3>1 DEF Common, ToCommon, MySqlToCommon, MySqlIntegers
    <3>3. MySqlInteger("tinyint(1)") = AutoConvert("boolean")
      BY DEF MySqlInteger
    <3> QED BY <3>1, <3>2, <3>3 DEF AutoConvert, Kind
  <2>2. Fits(Plain("boolean"), made)
    <3>1. Carried(Plain("boolean"), Common)
      <4>1. Plain("boolean").name = "boolean" /\ Numbers["boolean"][1] <= Numbers["boolean"][1]
            /\ Numbers["boolean"][2] <= Numbers["boolean"][2]
        BY NumbersAre DEF Plain, Numbered
      <4> QED BY <2>1, <4>1 DEF Carried, Numbered
    <3> QED BY <1>1, <3>1, CarriedFits
  <2> QED BY <1>1, <1>2, <1>6, <2>2, FitsOn
<1> QED BY <1>5, <1>6

(* A type that a sync run is content with and that the tool would choose   *)
(* itself is the one it creates.                                           *)
LEMMA CanonicalIsCreated ==
  ASSUME to \in Dbms, Satisfied, Canonical
  PROVE  Created
<1>1. SameSize(Common, ToCommon(to, there))
  BY RequiresNothing DEF Satisfied
<1>2. FromCommon(to, Common) = FromCommon(to, ToCommon(to, there))
  BY <1>1, SameSizeSameType
<1> QED BY <1>2 DEF Canonical, Created

LEMMA NamedPlain ==
  ASSUME NEW d, NEW n, (d = "postgresql" /\ n \in PostgresPlain) \/ (d = "mysql" /\ n \in MySqlPlain)
  PROVE  Known(d, Plain(n))
<1>1. Plain(n) = [name |-> n, p |-> Absent, s |-> Absent]
  BY DEF Plain
<1> QED BY <1>1 DEF Known, KnownPostgres, KnownMySql

LEMMA CatalogIsKnown ==
  ASSUME TypeAssumption, NEW d \in Dbms, NEW t \in CatalogTypes(d)
  PROVE  Known(d, t)
<1>1. \A n \in Lengths : n \in Nat
  BY DEF TypeAssumption
<1>2. \A n \in Precisions \cup {6} : n \in Nat
  BY DEF TypeAssumption
<1>3. CASE d = "postgresql"
  <2>1. CASE \E name \in {"varchar", "char"}, n \in Lengths : t = Sized(name, n)
    BY <1>1, <1>3, <2>1 DEF Known, KnownPostgres, Sized
  <2>2. CASE t \in {Scaled("numeric", 10, 0), Scaled("numeric", 12, 2)}
    BY <1>3, <2>2 DEF Known, KnownPostgres, Scaled
  <2>3. CASE \E name \in Temporals, n \in Precisions \cup {6} : t = Sized(name, n)
    BY <1>2, <1>3, <2>3 DEF Known, KnownPostgres, Sized
  <2>4. CASE \E name \in PostgresPlain : t = Plain(name)
    BY <1>3, <2>4, NamedPlain
  <2>5. \/ \E name \in {"varchar", "char"}, n \in Lengths : t = Sized(name, n)
        \/ t \in {Scaled("numeric", 10, 0), Scaled("numeric", 12, 2)}
        \/ \E name \in Temporals, n \in Precisions \cup {6} : t = Sized(name, n)
        \/ \E name \in PostgresPlain : t = Plain(name)
    BY <1>3 DEF CatalogTypes, PostgresPlain
  <2> QED BY <2>1, <2>2, <2>3, <2>4, <2>5
<1>4. CASE d = "mysql"
  <2>1. CASE \E name \in {"varchar", "char", "varbinary"}, n \in Lengths : t = Sized(name, n)
    BY <1>1, <1>4, <2>1 DEF Known, KnownMySql, Sized
  <2>2. CASE t \in {Scaled("decimal", 10, 0), Scaled("decimal", 12, 2)}
    BY <1>4, <2>2 DEF Known, KnownMySql, Scaled
  <2>3. CASE \E name \in {"datetime", "timestamp", "time"}, n \in Precisions \ {0} : t = Sized(name, n)
    BY <1>2, <1>4, <2>3 DEF Known, KnownMySql, Sized
  <2>4. CASE \E name \in MySqlPlain : t = Plain(name)
    BY <1>4, <2>4, NamedPlain
  <2>5. CASE \E name \in {"datetime", "timestamp", "time"} : t = Plain(name)
    BY <1>4, <2>5 DEF Known, KnownMySql, Plain
  <2>6. \/ \E name \in {"varchar", "char", "varbinary"}, n \in Lengths : t = Sized(name, n)
        \/ t \in {Scaled("decimal", 10, 0), Scaled("decimal", 12, 2)}
        \/ \E name \in {"datetime", "timestamp", "time"}, n \in Precisions \ {0} : t = Sized(name, n)
        \/ \E name \in MySqlPlain : t = Plain(name)
        \/ \E name \in {"datetime", "timestamp", "time"} : t = Plain(name)
    BY <1>4 DEF CatalogTypes, MySqlPlain, MySqlIntegers
  <2> QED BY <2>1, <2>2, <2>3, <2>4, <2>5, <2>6
<1> QED BY <1>3, <1>4 DEF Dbms

LEMMA NamelessIsUnknown == \A d : ~Known(d, NoType)
<1>1. NoType.name = "none"
  BY DEF NoType, Plain
<1> QED BY <1>1 DEF Known, KnownPostgres, KnownMySql, Temporals, PostgresPlain, MySqlPlain, MySqlIntegers

LEMMA TypeStarts == ASSUME TypeAssumption, TypeInit PROVE TypeInv
<1>1. /\ from \in Dbms /\ to \in Dbms /\ here \in CatalogTypes(from) /\ origin = here /\ first = from
      /\ there \in CatalogTypes(to) \/ there = NoType
      /\ policies = IF there = NoType THEN {} ELSE {ToCommon(from, here).policy}
  BY DEF TypeInit
<1>2. Known(from, here) /\ (there # NoType => Known(to, there))
  BY <1>1, CatalogIsKnown
<1>3. Measured(here)
  BY <1>2, KnownIsMeasured
<1>4. ColumnTypeInv
  BY <1>1, <1>2, <1>3 DEF ColumnTypeInv
<1>5. PolicyInv
  BY <1>1 DEF PolicyInv, Common
<1>6. FitsInv
  BY <1>1, <1>3, FitsItself DEF FitsInv
<1> QED BY <1>4, <1>5, <1>6 DEF TypeInv

LEMMA TypeSteps == ASSUME TypeInv, [TypeNext]_typeVars PROVE TypeInv'
<1>0. ColumnTypeInv /\ PolicyInv /\ FitsInv
  BY DEF TypeInv
<1>1. ASSUME UNCHANGED <<from, here, to, first, origin>>, Common' = Common, policies \subseteq policies',
             there' # NoType => Known(to, there') /\ Common.policy \in policies'
      PROVE  TypeInv'
  <2>1. ColumnTypeInv'
    BY <1>0, <1>1 DEF ColumnTypeInv
  <2>2. PolicyInv'
    BY <1>1 DEF PolicyInv
  <2>3. FitsInv'
    BY <1>0, <1>1 DEF FitsInv
  <2> QED BY <2>1, <2>2, <2>3 DEF TypeInv
<1>2. ASSUME CreateColumn \/ SyncColumn PROVE TypeInv'
  <2>1. /\ UNCHANGED <<from, here, to, first, origin>> /\ there' = FromCommon(to, Common)
        /\ \/ policies' = policies \cup {Common.policy}
           \/ policies' = policies /\ there # NoType
    BY <1>2 DEF CreateColumn, SyncColumn
  <2>2. Common' = Common
    BY <2>1 DEF Common
  <2>3. Known(to, there')
    BY <1>0, <2>1, CommonIs
  <2>4. policies \subseteq policies' /\ Common.policy \in policies'
    BY <1>0, <2>1 DEF PolicyInv
  <2> QED BY <1>1, <2>1, <2>2, <2>3, <2>4
<1>3. ASSUME MigrateOn PROVE TypeInv'
  <2>1. /\ from' = to /\ here' = there /\ to' \in Dbms /\ there' = NoType
        /\ Created \/ Satisfied
    BY <1>3 DEF MigrateOn
  <2>2. there # NoType /\ Known(to, there) /\ Measured(there)
    <3>1. there # NoType
      BY <1>0, <2>1, CommonIs DEF Created, Satisfied
    <3> QED BY <1>0, <3>1, KnownIsMeasured DEF ColumnTypeInv
  <2>3. PolicyInv'
    BY <2>1 DEF PolicyInv
  <2>4. CASE Created \/ Canonical
    <3>1. Created /\ policies' = policies /\ origin' = origin /\ first' = first
      BY <1>0, <1>3, <2>1, <2>4, CanonicalIsCreated DEF MigrateOn, ColumnTypeInv
    <3>2. ColumnTypeInv'
      BY <1>0, <2>1, <2>2, <3>1 DEF ColumnTypeInv
    <3>3. Common.policy \in policies
      BY <1>0, <2>2 DEF PolicyInv
    <3>4. FitsInv'
      <4> SUFFICES ASSUME policies \subseteq {"auto"}, origin.name # "tinyint(1)"
                   PROVE  Fits(origin, there) /\ (there.name = "tinyint(1)" => Fits(origin, Plain("boolean")))
        BY <2>1, <3>1 DEF FitsInv
      <4>1. Common.policy = "auto"
        BY <3>3
      <4> QED BY <3>1, <4>1, FitsThere DEF Created
    <3> QED BY <2>3, <3>2, <3>4 DEF TypeInv
  <2>5. CASE ~(Created \/ Canonical)
    <3>1. policies' = {} /\ origin' = there /\ first' = to /\ to \in Dbms
      BY <1>0, <1>3, <2>5 DEF MigrateOn, ColumnTypeInv
    <3>2. ColumnTypeInv'
      BY <1>0, <2>1, <2>2, <3>1 DEF ColumnTypeInv
    <3>3. FitsInv'
      BY <2>1, <2>2, <3>1, FitsItself DEF FitsInv
    <3> QED BY <2>3, <3>2, <3>3 DEF TypeInv
  <2> QED BY <2>4, <2>5
<1>4. CASE UNCHANGED typeVars
  BY <1>0, <1>4 DEF typeVars, TypeInv, ColumnTypeInv, PolicyInv, FitsInv, Common
<1> QED BY <1>2, <1>3, <1>4 DEF TypeNext

LEMMA TypesStay == TypeSpec => []TypeInv
<1>1. TypeInit => TypeInv
  BY TypeStarts, TypeAssumption
<1> QED BY <1>1, TypeSteps, PTL DEF TypeSpec

(* The days and hours of a type, when the other one is of the same sort.   *)
Abroad(d, a, e) ==
  \/ d = "mysql" /\ e = "postgresql" /\ a.name = "time"
  \/ d = "postgresql" /\ e = "mysql" /\ a.name \in {"date", "timestamp"}

LEMMA SortOf ==
  ASSUME NEW d, NEW t, Known(d, t)
  PROVE  /\ Capacity(t)[1] = "time" <=> t.name = "time"
         /\ Capacity(t)[1] = "date" <=> t.name = "date"
         /\ Capacity(t)[1] = "datetime" <=> t.name \in {"datetime", "timestamp"}
<1>1. CASE t.name \in {"time", "date", "datetime", "timestamp"}
  <2>1. t.name = "date" => Capacity(t)[1] = "date"
    BY OtherCapacities
  <2>2. t.name = "time" => Capacity(t)[1] = "time"
    BY MomentCapacity
  <2>3. t.name \in {"datetime", "timestamp"} => Capacity(t)[1] = "datetime"
    BY MomentCapacity
  <2> QED BY <1>1, <2>1, <2>2, <2>3
<1>2. CASE t.name \notin {"time", "date", "datetime", "timestamp"}
  <2>1. Capacity(t)[1] \in {"number", "string", "binary", "json", t.name}
    <3>1. CASE t.name \in DOMAIN Numbers
      BY <3>1, NumbersAre, NumberCapacity
    <3>2. CASE t.name \notin DOMAIN Numbers
      BY <1>2, <3>2 DEF Capacity
    <3> QED BY <3>1, <3>2
  <2> QED BY <1>2, <2>1
<1> QED BY <1>1, <1>2

LEMMA SpansFollow ==
  ASSUME NEW d \in Dbms, NEW e \in Dbms, NEW a, NEW b, Known(d, a), Known(e, b), Fits(a, b),
         ~ (e = "mysql" /\ b.name = "timestamp")
  PROVE  Spans(d, a, e, b) \/ Abroad(d, a, e)
<1>1. Capacity(a)[1] = Capacity(b)[1]
  BY DEF Fits
<1>2. /\ a.name = "time" <=> b.name = "time"
      /\ a.name = "date" <=> b.name = "date"
      /\ a.name \in {"datetime", "timestamp"} <=> b.name \in {"datetime", "timestamp"}
  BY <1>1, SortOf
<1>3. /\ d = "postgresql" => a.name # "datetime"
      /\ e = "postgresql" => b.name # "datetime"
  BY DEF Known, KnownPostgres, Temporals, PostgresPlain
<1> QED BY <1>2, <1>3 DEF Spans, Span, Abroad, Dbms

(* LossIsAnnounced: a column that was converted without a warning, over    *)
(* any number of migrations, holds every value of the first one, but for   *)
(* what tinyint(1) and the calendars and clocks of the two servers lose    *)
(* (type_mapping.py, the policies of the conversions).                     *)
THEOREM SilentConversionsAreLossless == TypeSpec => []LossIsAnnounced
<1>1. TypeInv => LossIsAnnounced
  <2> SUFFICES ASSUME TypeInv, there # NoType, policies \subseteq {"auto"}, Created \/ (Satisfied /\ Canonical),
                      origin.name # "tinyint(1)"
               PROVE  Fits(origin, there) /\ (Spans(first, origin, to, there) \/ Abroad(first, origin, to))
    BY DEF LossIsAnnounced, Abroad
  <2>1. Created
    BY CanonicalIsCreated DEF TypeInv, ColumnTypeInv
  <2>2. Common.policy = "auto"
    BY DEF TypeInv, PolicyInv
  <2>3. Fits(origin, there)
    BY <2>1, <2>2, FitsThere DEF Created
  <2>4. ~ (to = "mysql" /\ there.name = "timestamp")
    <3> SUFFICES ASSUME to = "mysql", there.name = "timestamp" PROVE FALSE
      OBVIOUS
    <3>1. CommonOK(Common) /\ there = ToMySql(Common)
      BY <2>1, CommonIs DEF TypeInv, Created, FromCommon
    <3>2. Common.kind \notin {"string", "decimal", "datetime", "time", "uuid"}
      BY <3>1 DEF ToMySql, Sized, Scaled
    <3>3. Common.kind \in PlainKinds /\ MySqlNames[Common.kind] = "timestamp"
      BY <3>1, <3>2 DEF ToMySql, Plain, CommonOK
    <3> QED BY <3>2, <3>3 DEF MySqlNames, PlainKinds
  <2>5. first \in Dbms /\ to \in Dbms /\ Known(first, origin) /\ Known(to, there)
    BY DEF TypeInv, ColumnTypeInv
  <2> QED BY <2>3, <2>4, <2>5, SpansFollow
<1> QED BY <1>1, TypesStay, PTL

(* CreatedTypesSettle: the next sync run over a column that was created    *)
(* for its source alters it again only where the type has no name or no    *)
(* size of its own in the target (schema_pair.py, _requires_type_change).  *)
THEOREM CreatedColumnsSettle == TypeSpec => []CreatedTypesSettle
<1>1. TypeInv => CreatedTypesSettle
  <2> SUFFICES ASSUME TypeInv, Created, Settles(to, Common) PROVE Satisfied
    BY DEF CreatedTypesSettle, Settles
  <2>1. CommonOK(Common) /\ there # NoType /\ to \in Dbms /\ there = FromCommon(to, Common)
    BY CommonIs DEF TypeInv, ColumnTypeInv, Created
  <2>2. SameSize(Common, ToCommon(to, there))
    BY <2>1, PostgresSettles, MySqlSettles DEF ToCommon, FromCommon, Dbms
  <2> QED BY <2>1, <2>2, RequiresNothing DEF Satisfied
<1> QED BY <1>1, TypesStay, PTL

=============================================================================
