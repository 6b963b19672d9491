--------------------------- MODULE ResumableCopy ---------------------------
(***************************************************************************)
(* What a checkpointed copy promises, without saying how: a table's target *)
(* only gains rows, a recorded cursor never passes rows that are missing,  *)
(* and a table declared done is complete and from then on left alone.      *)
(***************************************************************************)
EXTENDS Naturals

CONSTANTS TableCount, RowCount

VARIABLES
  copied,   \* copied[t]: the rows of t that are in the target
  claimed,  \* claimed[t]: the rows 1 .. claimed[t] are not read again
  done      \* done[t]: the table is not touched again

vars == <<copied, claimed, done>>

Tables == 1 .. TableCount

Init ==
  /\ copied = [t \in Tables |-> {}]
  /\ claimed = [t \in Tables |-> 0]
  /\ done = [t \in Tables |-> FALSE]

(* Some rows of some tables that are not done reach the target.            *)
Copy ==
  /\ copied' \in [Tables -> SUBSET Nat]
  /\ \A t \in Tables :
       /\ copied[t] \subseteq copied'[t]
       /\ copied'[t] \subseteq 1 .. RowCount[t]
       /\ done[t] => copied'[t] = copied[t]
  /\ UNCHANGED <<claimed, done>>

(* The cursor of a table moves, forward or back, within what is copied.    *)
Claim(t, cursor) ==
  /\ ~done[t]
  /\ cursor \in 0 .. RowCount[t]
  /\ 1 .. cursor \subseteq copied[t]
  /\ claimed' = [claimed EXCEPT ![t] = cursor]
  /\ UNCHANGED <<copied, done>>

Finish(t) ==
  /\ ~done[t]
  /\ copied[t] = 1 .. RowCount[t]
  /\ claimed' = [claimed EXCEPT ![t] = RowCount[t]]
  /\ done' = [done EXCEPT ![t] = TRUE]
  /\ UNCHANGED copied

Next ==
  \/ Copy
  \/ \E t \in Tables : Finish(t) \/ \E cursor \in 0 .. RowCount[t] : Claim(t, cursor)

Spec == Init /\ [][Next]_vars
=============================================================================
