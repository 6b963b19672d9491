-------------------------- MODULE TableOrderProofs --------------------------
(***************************************************************************)
(* Lemmas about orders and finite sets that the other proofs share.  A     *)
(* nonempty family of subsets of a finite set has a minimal member: that   *)
(* takes the place of induction.  From it follow that a finite set of      *)
(* numbers has a greatest one, that ranks enumerate a finite set, and that *)
(* a definition which recurs from a set to a larger one has a solution;    *)
(* with those, that the orders of TableOrder are orders of their tables.   *)
(***************************************************************************)
EXTENDS TableOrder, FiniteSetTheorems, SequenceTheorems, TLAPS

(* A nonempty family of subsets of a finite set has a minimal member: what *)
(* takes the place of induction below.                                     *)
LEMMA Minimal ==
  ASSUME NEW S, IsFiniteSet(S), NEW T \in SUBSET (SUBSET S), T # {}
  PROVE  \E x \in T : \A y \in T : y \subseteq x => y = x
<1>1. IsWellFoundedOn(StrictSubsetOrdering(S), FiniteSubsetsOf(S))
  BY FS_StrictSubsetOrderingWellFounded
<1>2. FiniteSubsetsOf(S) = SUBSET S
  BY FS_FiniteSubsetsOfFinite
<1>3. \E x \in T : \A y \in T : ~ (<<y, x>> \in StrictSubsetOrdering(S))
  BY <1>1, <1>2, WFMin
<1> QED BY <1>3 DEF StrictSubsetOrdering

(* A finite set of numbers has a greatest one: what lies above a number is *)
(* smallest for that one.                                                  *)
LEMMA Greatest ==
  ASSUME NEW S \in SUBSET Nat, IsFiniteSet(S), S # {}
  PROVE  \E x \in S : \A y \in S : y <= x
<1> DEFINE above(y) == {x \in S : y < x}
           T == {above(y) : y \in S}
<1>1. IsWellFoundedOn(StrictSubsetOrdering(S), FiniteSubsetsOf(S))
  BY FS_StrictSubsetOrderingWellFounded
<1>2. FiniteSubsetsOf(S) = SUBSET S
  BY FS_FiniteSubsetsOfFinite
<1>3. T \subseteq SUBSET S /\ T # {}
  OBVIOUS
<1> HIDE DEF T
<1>4. \E A \in T : \A B \in T : ~ (<<B, A>> \in StrictSubsetOrdering(S))
  <2>1. T \subseteq FiniteSubsetsOf(S)
    BY <1>2, <1>3
  <2> QED BY <1>1, <1>3, <2>1, WFMin
<1> USE DEF T
<1>5. PICK x \in S : \A y \in S : ~ (<<above(y), above(x)>> \in StrictSubsetOrdering(S))
  BY <1>4
<1>6. ASSUME NEW y \in S, x < y PROVE FALSE
  <2>1. (\A z \in S : y < z => x < z) /\ ~(y < y)
    BY <1>6
  <2>2. above(y) \subseteq above(x) /\ y \in above(x) /\ y \notin above(y)
    BY <1>6, <2>1
  <2>3. above(x) \subseteq S /\ above(y) \subseteq S
    OBVIOUS
  <2> HIDE DEF above
  <2>4. <<above(y), above(x)>> \in StrictSubsetOrdering(S)
    BY <2>2, <2>3 DEF StrictSubsetOrdering
  <2> QED BY <1>5, <2>4
<1>7. \A y \in S : y <= x
  BY <1>6
<1> QED BY <1>7

-----------------------------------------------------------------------------
(* Sequences by rank.                                                      *)

StrictOrder(S, R) ==
  /\ \A a \in S : <<a, a>> \notin R
  /\ \A a, b \in S : a # b => <<a, b>> \in R \/ <<b, a>> \in R
  /\ \A a, b, c \in S : <<a, b>> \in R /\ <<b, c>> \in R => <<a, c>> \in R

RankBy(a, S, R) == Cardinality({b \in S : <<b, a>> \in R})
ByRank(S, R)    == [i \in 1 .. Cardinality(S) |-> CHOOSE a \in S : RankBy(a, S, R) = i - 1]

LEMMA RankByGrows ==
  ASSUME NEW S, IsFiniteSet(S), NEW R, StrictOrder(S, R), NEW a \in S, NEW b \in S, <<a, b>> \in R
  PROVE  RankBy(a, S, R) < RankBy(b, S, R)
<1> DEFINE A == {c \in S : <<c, a>> \in R}
           B == {c \in S : <<c, b>> \in R}
<1>1. A \subseteq B /\ A # B
  BY DEF StrictOrder
<1>2. B \subseteq S
  OBVIOUS
<1> HIDE DEF A, B
<1>3. IsFiniteSet(B) /\ IsFiniteSet(A)
  BY <1>1, <1>2, FS_Subset
<1>4. Cardinality(A) <= Cardinality(B) /\ Cardinality(A) # Cardinality(B)
  BY <1>1, <1>3, FS_Subset
<1>5. Cardinality(A) \in Nat /\ Cardinality(B) \in Nat
  BY <1>3, FS_CardinalityType
<1>6. Cardinality(A) < Cardinality(B)
  BY <1>4, <1>5
<1> QED BY <1>6 DEF RankBy, A, B

LEMMA RankByBounds ==
  ASSUME NEW S, IsFiniteSet(S), NEW R, StrictOrder(S, R), NEW a \in S
  PROVE  RankBy(a, S, R) \in 0 .. (Cardinality(S) - 1)
<1> DEFINE A == {c \in S : <<c, a>> \in R}
<1>1. A \subseteq S /\ A # S
  BY DEF StrictOrder
<1> HIDE DEF A
<1>2. IsFiniteSet(A) /\ Cardinality(A) <= Cardinality(S) /\ Cardinality(A) # Cardinality(S)
  BY <1>1, FS_Subset
<1>3. Cardinality(A) \in Nat /\ Cardinality(S) \in Nat
  BY <1>2, FS_CardinalityType
<1>4. Cardinality(A) \in 0 .. (Cardinality(S) - 1)
  BY <1>2, <1>3
<1> QED BY <1>4 DEF RankBy, A

(* Ranks enumerate a set.                                                  *)
LEMMA ByRankEnumerates ==
  ASSUME NEW S, IsFiniteSet(S), NEW R, StrictOrder(S, R)
  PROVE  /\ ByRank(S, R) \in Seq(S) /\ Len(ByRank(S, R)) = Cardinality(S)
         /\ \A a \in S : \E i \in 1 .. Len(ByRank(S, R)) : ByRank(S, R)[i] = a
         /\ \A i, j \in 1 .. Len(ByRank(S, R)) : ByRank(S, R)[i] = ByRank(S, R)[j] => i = j
<1> DEFINE n == Cardinality(S)
           f == [a \in S |-> RankBy(a, S, R)]
           s == ByRank(S, R)
<1>1. n \in Nat
  BY FS_CardinalityType
<1>2. \A a \in S : f[a] = RankBy(a, S, R) /\ f[a] \in 0 .. (n - 1)
  BY RankByBounds
<1>3. \A a, b \in S : f[a] = f[b] => a = b
  <2> SUFFICES ASSUME NEW a \in S, NEW b \in S, a # b PROVE RankBy(a, S, R) # RankBy(b, S, R)
    BY <1>2
  <2>1. <<a, b>> \in R \/ <<b, a>> \in R
    BY DEF StrictOrder
  <2>2. RankBy(a, S, R) \in Nat /\ RankBy(b, S, R) \in Nat
    BY <1>1, <1>2
  <2>3. RankBy(a, S, R) < RankBy(b, S, R) \/ RankBy(b, S, R) < RankBy(a, S, R)
    BY <2>1, RankByGrows
  <2> QED BY <2>2, <2>3
<1>4. f \in Injection(S, 0 .. (n - 1))
  <2>1. f \in [S -> 0 .. (n - 1)]
    BY <1>2
  <2> QED BY <1>3, <2>1 DEF Injection, IsInjective
<1>5. IsFiniteSet(0 .. (n - 1)) /\ Cardinality(0 .. (n - 1)) = n
  <2>1. 0 \in Int /\ n - 1 \in Int
    BY <1>1
  <2>2. /\ IsFiniteSet(0 .. (n - 1))
        /\ Cardinality(0 .. (n - 1)) = IF 0 > n - 1 THEN 0 ELSE (n - 1) - 0 + 1
    BY <2>1, FS_Interval
  <2> QED BY <1>1, <2>2
<1>6. f \in Surjection(S, 0 .. (n - 1))
  <2> HIDE DEF f
  <2> QED BY <1>4, <1>5, FS_Injection
<1>7. \A i \in 0 .. (n - 1) : \E a \in S : RankBy(a, S, R) = i
  BY <1>2, <1>6 DEF Surjection
<1>8. ASSUME NEW i \in 1 .. n
      PROVE  s[i] \in S /\ RankBy(s[i], S, R) = i - 1
  <2>1. i - 1 \in 0 .. (n - 1)
    BY <1>1
  <2>2. \E a \in S : RankBy(a, S, R) = i - 1
    BY <1>7, <2>1
  <2>3. s[i] = CHOOSE a \in S : RankBy(a, S, R) = i - 1
    BY DEF ByRank
  <2> QED BY <2>2, <2>3
<1>9. s = [i \in 1 .. n |-> s[i]]
  BY DEF ByRank
<1> HIDE DEF s
<1>10. s \in [1 .. n -> S]
  BY <1>8, <1>9
<1>11. s \in Seq(S) /\ Len(s) = n
  BY <1>1, <1>10
<1>12. ASSUME NEW a \in S PROVE \E i \in 1 .. n : s[i] = a
  <2>1. RankBy(a, S, R) + 1 \in 1 .. n /\ (RankBy(a, S, R) + 1) - 1 = RankBy(a, S, R)
    BY <1>1, RankByBounds
  <2>2. RankBy(s[RankBy(a, S, R) + 1], S, R) = RankBy(a, S, R) /\ s[RankBy(a, S, R) + 1] \in S
    BY <1>8, <2>1
  <2>3. s[RankBy(a, S, R) + 1] = a
    BY <1>2, <1>3, <2>2
  <2> QED BY <2>1, <2>3
<1>13. ASSUME NEW i \in 1 .. n, NEW j \in 1 .. n, s[i] = s[j] PROVE i = j
  <2>1. i - 1 = j - 1
    BY <1>8, <1>13
  <2> QED BY <1>1, <2>1
<1> QED BY <1>11, <1>12, <1>13 DEF s

LEMMA SortedEnumerates ==
  ASSUME NEW S \in SUBSET Nat, IsFiniteSet(S)
  PROVE  /\ Sorted(S) \in Seq(S)
         /\ \A a \in S : \E i \in 1 .. Len(Sorted(S)) : Sorted(S)[i] = a
         /\ \A i, j \in 1 .. Len(Sorted(S)) : Sorted(S)[i] = Sorted(S)[j] => i = j
<1> DEFINE R == {p \in S \X S : p[1] < p[2]}
<1>1. StrictOrder(S, R)
  BY DEF StrictOrder
<1>2. \A a \in S : {b \in S : <<b, a>> \in R} = {b \in S : b < a}
  OBVIOUS
<1>3. \A a \in S : RankBy(a, S, R) = Rank(a, S)
  BY <1>2 DEF RankBy, Rank
<1> HIDE DEF R
<1>4. \A k : (CHOOSE a \in S : RankBy(a, S, R) = k) = CHOOSE a \in S : Rank(a, S) = k
  BY <1>3
<1>5. ByRank(S, R) = Sorted(S)
  BY <1>4 DEF ByRank, Sorted
<1> QED BY <1>1, <1>5, ByRankEnumerates

-----------------------------------------------------------------------------
(* Recursion from a set to a larger one, and the orders defined by it.     *)

(* Going on from a set means going on from a larger one.                   *)
Climbs(T, Stop, next) ==
  /\ next \in [SUBSET T -> SUBSET T]
  /\ \A c \in SUBSET T : c \notin Stop => c \subseteq next[c] /\ c # next[c]

Recurs(T, Stop, first, next, f) ==
  f = [c \in SUBSET T |-> IF c \in Stop THEN first[c] ELSE first[c] \o f[next[c]]]

(* A definition that recurs from a set to a larger one up to a finite set  *)
(* has a solution.                                                         *)
LEMMA Recursion ==
  ASSUME NEW T, IsFiniteSet(T), NEW A, NEW Stop, NEW first, NEW next,
         first \in [SUBSET T -> Seq(A)], Climbs(T, Stop, next)
  PROVE  \E f : Recurs(T, Stop, first, next, f)
<1> USE DEF Climbs
<1> DEFINE Solves(f, U) ==
             \A c \in U : IF c \in Stop THEN f[c] = first[c]
                          ELSE next[c] \in U /\ f[c] = first[c] \o f[next[c]]
           Good(U) == \E f \in [U -> Seq(A)] : Solves(f, U)
           Rest    == {(SUBSET T) \ U : U \in {U \in SUBSET (SUBSET T) : Good(U)}}
<1>1. IsFiniteSet(SUBSET T)
  BY FS_SUBSET
<1>2. Good({})
  <2>1. [c \in {} |-> first[c]] \in [{} -> Seq(A)]
    OBVIOUS
  <2> QED BY <2>1
<1> HIDE DEF Good
<1>3. Rest \in SUBSET (SUBSET (SUBSET T)) /\ Rest # {}
  <2>1. (SUBSET T) \ {} \in Rest
    BY <1>2
  <2>2. \A x \in Rest : x \in SUBSET (SUBSET T)
    OBVIOUS
  <2> HIDE DEF Rest
  <2> QED BY <2>1, <2>2
<1>4. PICK x \in Rest : \A y \in Rest : y \subseteq x => y = x
  <2> HIDE DEF Rest
  <2> QED BY <1>1, <1>3, Minimal
<1>5. PICK U \in SUBSET (SUBSET T) : Good(U) /\ x = (SUBSET T) \ U
  BY <1>4
<1>6. PICK f \in [U -> Seq(A)] : Solves(f, U)
  BY <1>5 DEF Good
<1>7. ASSUME x # {} PROVE FALSE
  <2> DEFINE K == {T \ c : c \in x}
  <2>1. K \in SUBSET (SUBSET T) /\ K # {}
    <3>1. PICK c \in x : TRUE
      BY <1>7
    <3>2. T \ c \in K
      BY <3>1
    <3>3. \A z \in K : z \in SUBSET T
      OBVIOUS
    <3> HIDE DEF K
    <3> QED BY <3>2, <3>3
  <2>2. PICK y \in K : \A z \in K : z \subseteq y => z = y
    <3> HIDE DEF K
    <3> QED BY <2>1, Minimal
  <2>3. PICK c \in x : y = T \ c
    BY <2>2
  <2>4. c \in SUBSET T /\ c \notin U
    BY <1>5, <2>3
  <2>5. ASSUME c \notin Stop PROVE next[c] \in U
    <3>1. next[c] \in SUBSET T /\ c \subseteq next[c] /\ c # next[c]
      BY <2>4, <2>5
    <3>2. CASE next[c] \in x
      <4>1. T \ next[c] \in K /\ T \ next[c] \subseteq y
        BY <2>3, <3>1, <3>2
      <4>2. T \ next[c] = T \ c
        BY <2>2, <2>3, <4>1
      <4> QED BY <2>4, <3>1, <4>2
    <3> QED BY <1>5, <3>1, <3>2
  <2> DEFINE last == IF c \in Stop THEN first[c] ELSE first[c] \o f[next[c]]
             g    == [d \in U \cup {c} |-> IF d \in U THEN f[d] ELSE last]
  <2>6. last \in Seq(A)
    <3>1. first[c] \in Seq(A)
      BY <2>4
    <3>2. c \notin Stop => f[next[c]] \in Seq(A)
      BY <1>6, <2>5
    <3> QED BY <3>1, <3>2
  <2>7. g \in [U \cup {c} -> Seq(A)]
    <3> HIDE DEF last
    <3> QED BY <1>6, <2>6
  <2>8. Solves(g, U \cup {c})
    <3> SUFFICES ASSUME NEW d \in U \cup {c}
                 PROVE  IF d \in Stop THEN g[d] = first[d]
                        ELSE next[d] \in U \cup {c} /\ g[d] = first[d] \o g[next[d]]
      OBVIOUS
    <3>1. CASE d \in U
      <4>1. IF d \in Stop THEN f[d] = first[d] ELSE next[d] \in U /\ f[d] = first[d] \o f[next[d]]
        BY <1>6, <3>1
      <4> HIDE DEF last
      <4> QED BY <3>1, <4>1
    <3>2. CASE d = c
      BY <2>4, <2>5, <3>2
    <3> QED BY <3>1, <3>2
  <2>9. Good(U \cup {c}) /\ U \cup {c} \in SUBSET (SUBSET T)
    <3> HIDE DEF g, Solves
    <3> QED BY <2>4, <2>7, <2>8 DEF Good
  <2>10. (SUBSET T) \ (U \cup {c}) \in Rest /\ (SUBSET T) \ (U \cup {c}) \subseteq x
    BY <1>5, <2>9
  <2>11. (SUBSET T) \ (U \cup {c}) = x
    <3> HIDE DEF Rest
    <3> QED BY <1>4, <2>10
  <2> QED BY <2>3, <2>11
<1>8. U = SUBSET T
  BY <1>5, <1>7
<1>9. f = [c \in SUBSET T |-> IF c \in Stop THEN first[c] ELSE first[c] \o f[next[c]]]
  <2>1. f = [c \in SUBSET T |-> f[c]]
    BY <1>6, <1>8
  <2>2. \A c \in SUBSET T : f[c] = IF c \in Stop THEN first[c] ELSE first[c] \o f[next[c]]
    BY <1>6, <1>8
  <2> QED BY <2>1, <2>2
<1> QED BY <1>9 DEF Recurs

(* And every solution of it has sequences for values.                      *)
LEMMA RecursionType ==
  ASSUME NEW T, IsFiniteSet(T), NEW A, NEW Stop, NEW first, NEW next,
         first \in [SUBSET T -> Seq(A)], Climbs(T, Stop, next),
         NEW f, Recurs(T, Stop, first, next, f)
  PROVE  f[{}] \in Seq(A)
<1> DEFINE K == {T \ c : c \in {c \in SUBSET T : f[c] \notin Seq(A)}}
<1> SUFFICES ASSUME f[{}] \notin Seq(A) PROVE FALSE
  OBVIOUS
<1>1. K \in SUBSET (SUBSET T) /\ K # {}
  <2>1. T \ {} \in K
    OBVIOUS
  <2>2. \A z \in K : z \in SUBSET T
    OBVIOUS
  <2> HIDE DEF K
  <2> QED BY <2>1, <2>2
<1>2. PICK y \in K : \A z \in K : z \subseteq y => z = y
  <2> HIDE DEF K
  <2> QED BY <1>1, Minimal
<1>3. PICK c \in SUBSET T : y = T \ c /\ f[c] \notin Seq(A)
  BY <1>2
<1>v. f[c] = IF c \in Stop THEN first[c] ELSE first[c] \o f[next[c]]
  BY <1>3 DEF Recurs
<1>4. CASE c \in Stop
  BY <1>3, <1>v, <1>4
<1>5. CASE c \notin Stop
  <2>1. next[c] \in SUBSET T /\ c \subseteq next[c] /\ c # next[c] /\ first[c] \in Seq(A)
    BY <1>5 DEF Climbs
  <2>2. f[next[c]] \in Seq(A)
    <3> SUFFICES ASSUME f[next[c]] \notin Seq(A) PROVE FALSE
      OBVIOUS
    <3>1. T \ next[c] \in K /\ T \ next[c] \subseteq y
      BY <1>3, <2>1
    <3>2. T \ next[c] = T \ c
      BY <1>2, <1>3, <3>1
    <3> QED BY <2>1, <3>2
  <2>3. first[c] \o f[next[c]] \in Seq(A)
    BY <2>1, <2>2, ConcatProperties
  <2> QED BY <1>3, <1>v, <1>5, <2>3
<1> QED BY <1>4, <1>5

(* The recursion of CreationOrder.                                         *)
CreatedFrom(T, refs, f) ==
  f = [c \in SUBSET T |->
         IF ReadyTables(T, refs, c) = {} THEN Sorted(T \ c)
         ELSE Sorted(ReadyTables(T, refs, c)) \o f[c \cup ReadyTables(T, refs, c)]]

LEMMA CreationOrderIs ==
  ASSUME NEW T, NEW refs
  PROVE  CreationOrder(T, refs) = (CHOOSE f : CreatedFrom(T, refs, f))[{}]
  BY DEF CreationOrder, CreatedFrom

(* Tables are created, and target-only tables dropped, in an order of them *)
(* (plan_table_creation_order and its reverse).                            *)
LEMMA DropOrderTables ==
  ASSUME NEW T \in SUBSET Nat, IsFiniteSet(T), NEW refs
  PROVE  DropOrder(T, refs) \in Seq(T)
<1> DEFINE ready(c) == ReadyTables(T, refs, c)
           Stop  == {c \in SUBSET T : ready(c) = {}}
           first == [c \in SUBSET T |-> IF ready(c) = {} THEN Sorted(T \ c) ELSE Sorted(ready(c))]
           next  == [c \in SUBSET T |-> c \cup ready(c)]
           g     == CHOOSE f : CreatedFrom(T, refs, f)
<1>1. ASSUME NEW c \in SUBSET T PROVE ready(c) \in SUBSET T /\ ready(c) \cap c = {}
  BY DEF ReadyTables
<1>2. ASSUME NEW c \in SUBSET T PROVE Sorted(c) \in Seq(T)
  <2>1. c \in SUBSET Nat /\ IsFiniteSet(c)
    BY FS_Subset
  <2>2. Sorted(c) \in Seq(c)
    BY <2>1, SortedEnumerates
  <2> QED BY <2>2, SeqMonotonic
<1> HIDE DEF ready
<1>3. first \in [SUBSET T -> Seq(T)]
  BY <1>1, <1>2
<1>4. Climbs(T, Stop, next)
  <2>1. next \in [SUBSET T -> SUBSET T]
    BY <1>1
  <2>2. \A c \in SUBSET T : c \notin Stop => c \subseteq next[c] /\ c # next[c]
    BY <1>1
  <2> QED BY <2>1, <2>2 DEF Climbs
<1>5. ASSUME NEW f
      PROVE  [c \in SUBSET T |-> IF c \in Stop THEN first[c] ELSE first[c] \o f[next[c]]]
             = [c \in SUBSET T |-> IF ready(c) = {} THEN Sorted(T \ c)
                                  ELSE Sorted(ready(c)) \o f[c \cup ready(c)]]
  <2>1. \A c \in SUBSET T :
          (IF c \in Stop THEN first[c] ELSE first[c] \o f[next[c]])
          = IF ready(c) = {} THEN Sorted(T \ c) ELSE Sorted(ready(c)) \o f[c \cup ready(c)]
    OBVIOUS
  <2> QED BY <2>1
<1>6. ASSUME NEW f
      PROVE  Recurs(T, Stop, first, next, f) <=> CreatedFrom(T, refs, f)
  BY <1>5 DEF Recurs, CreatedFrom, ready
<1> HIDE DEF Stop, first, next
<1>7. \E f : CreatedFrom(T, refs, f)
  <2>1. \E f : Recurs(T, Stop, first, next, f)
    BY <1>3, <1>4, Recursion
  <2> QED BY <1>6, <2>1
<1>8. CreatedFrom(T, refs, g)
  BY <1>7
<1> HIDE DEF g
<1>9. Recurs(T, Stop, first, next, g)
  BY <1>6, <1>8
<1>10. g[{}] \in Seq(T)
  BY <1>3, <1>4, <1>9, RecursionType
<1> USE DEF g
<1>11. CreationOrder(T, refs) \in Seq(T)
  BY <1>10, CreationOrderIs
<1>12. ASSUME NEW s \in Seq(T) PROVE Reverse(s) \in Seq(T)
  BY DEF Reverse
<1> QED BY <1>11, <1>12 DEF DropOrder

=============================================================================
