----------------------------- MODULE TableOrder -----------------------------
(***************************************************************************)
(* schema/dependency.py and the order in which target-only tables are      *)
(* dropped.  Tables are numbers in the order of their names; refs maps a   *)
(* table to the tables its foreign keys reference.                         *)
(***************************************************************************)
EXTENDS Naturals, Sequences, FiniteSets, SequencesExt

(* By rank rather than by SetToSortSeq, which the provers cannot expand.   *)
Rank(t, S) == Cardinality({u \in S : u < t})

Sorted(S) == [i \in 1 .. Cardinality(S) |-> CHOOSE t \in S : Rank(t, S) = i - 1]

(* The elements of a sequence at some of its places, in their order.       *)
Picked(s, places) == [k \in 1 .. Cardinality(places) |-> s[Sorted(places)[k]]]

(* Foreign keys to tables outside the snapshot do not count: they are      *)
(* listed for manual review.                                               *)
DependsOn(t, tables, refs) == refs[t] \cap tables

ReadyTables(tables, refs, created) ==
  {t \in tables \ created : DependsOn(t, tables, refs) \subseteq created}

(* Layer by layer; when nothing is ready the rest follows by name, and is  *)
(* reported as a cycle.  A table that references itself is never ready.    *)
CreationOrder(tables, refs) ==
  LET From[created \in SUBSET tables] ==
        LET ready == ReadyTables(tables, refs, created)
        IN  IF ready = {} THEN Sorted(tables \ created)
                          ELSE Sorted(ready) \o From[created \cup ready]
  IN  From[{}]

DropOrder(tables, refs) == Reverse(CreationOrder(tables, refs))
=============================================================================
