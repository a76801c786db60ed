---------------------------- MODULE DecisionBook ----------------------------
(***************************************************************************)
(* What the approval queue promises, without tables or processes: every    *)
(* card put on the table meets at most one end.  It is filled once, or it  *)
(* leaves the table (rejected, timed out, failed, replaced by a newer card)*)
(* and is then never filled.                                               *)
(***************************************************************************)
EXTENDS Naturals

VARIABLES
    put,        \* the number of cards put on the table so far; they are 1..put
    onTable,    \* the cards that still await a decision
    filled      \* the cards that were filled

vars == <<put, onTable, filled>>

TypeOK ==
    /\ put \in Nat
    /\ onTable \subseteq 1..put
    /\ filled \subseteq 1..put

Init == put = 0 /\ onTable = {} /\ filled = {}

\* A new card, which may take the place of older ones.
Put ==
    /\ put' = put + 1
    /\ \E replaced \in SUBSET onTable :
          onTable' = (onTable \ replaced) \cup {put + 1}
    /\ UNCHANGED filled

Fill(n) ==
    /\ n \in onTable
    /\ onTable' = onTable \ {n}
    /\ filled' = filled \cup {n}
    /\ UNCHANGED put

\* Cards leave the table unfilled, one by one or swept together.
Drop ==
    /\ \E dropped \in (SUBSET onTable) \ {{}} : onTable' = onTable \ dropped
    /\ UNCHANGED <<put, filled>>

Next == Put \/ (\E n \in onTable : Fill(n)) \/ Drop

Spec == Init /\ [][Next]_vars
=============================================================================
