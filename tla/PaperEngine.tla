----------------------------- MODULE PaperEngine -----------------------------
(***************************************************************************)
(* The paper ledger's arithmetic: what one call of apply_signal            *)
(* (src/jarvise_paper/engine.py) does to a book of positions, to the cash  *)
(* and to the journal of paper_orders.  Quantities and prices are one unit:*)
(* what the properties tell apart is which legs were written, not their    *)
(* size, so a buy costs one unit of cash and a sell returns one.           *)
(***************************************************************************)
EXTENDS Integers

CONSTANT Symbol

Sides   == {"long", "short"}
Actions == Sides \cup {"flat"}

\* A row of paper_positions, or its absence; "opened" is the offer whose fill
\* opened it (the row's approval_id stamp).
Position   == [side : Sides \cup {"none"}, opened : Nat]
NoPosition == [side |-> "none", opened |-> 0]
IsOpen(pos) == pos.side # "none"

Book    == [Symbol -> Position]
Journal == [net : [Symbol -> Int], cash : Int, rows : Nat]

\* The signed quantity of a position: what its open orders net to.
Signed(side) == IF side = "long" THEN 1 ELSE IF side = "short" THEN -1 ELSE 0

\* flat closes whatever is open, long and short close the opposite side; the
\* same side is a hold.
Closes(pos, action) == IsOpen(pos) /\ pos.side # action
Opens(pos, action)  == action \in Sides /\ pos.side # action

\* Mutated form of After: the approval stamp is not written on an opening fill.
AfterUnstamped(pos, action, offer) ==
    IF Opens(pos, action) THEN [side |-> action, opened |-> pos.opened]
    ELSE IF Closes(pos, action) THEN NoPosition
    ELSE pos

\* The position a signal leaves behind, and the legs it journals on the way.
After(pos, action, offer) ==
    IF Opens(pos, action) THEN [side |-> action, opened |-> offer]
    ELSE IF Closes(pos, action) THEN NoPosition
    ELSE pos

NetDelta(pos, action) ==
    IF Opens(pos, action) THEN Signed(action) - Signed(pos.side)
    ELSE IF Closes(pos, action) THEN -Signed(pos.side)
    ELSE 0

LegCount(pos, action) ==
    (IF Closes(pos, action) THEN 1 ELSE 0) + (IF Opens(pos, action) THEN 1 ELSE 0)

\* The orders inserted for the legs: rows are only ever appended, so their sums
\* move by the delta whatever the caller had read.
Journaled(journal, pos, s, action) ==
    [net  |-> [journal.net EXCEPT ![s] = @ + NetDelta(pos, action)],
     cash |-> journal.cash - NetDelta(pos, action),
     rows |-> journal.rows + LegCount(pos, action)]

\* Mutated form of CashAfter: the proceeds of a closing leg are dropped.
CashAfterOpening(read, pos, action) ==
    IF Opens(pos, action) THEN read - NetDelta(pos, action) ELSE read

\* The cash that is written back is the cash that was read, moved by the legs.
CashAfter(read, pos, action) == read - NetDelta(pos, action)

\* Every position of the copy that was read is upserted again, the signal's
\* symbol with its new state; a row the copy did not hold is left as it is.
WrittenBack(book, read, s, action, offer) ==
    [t \in Symbol |->
        IF t = s /\ (Closes(read[s], action) \/ Opens(read[s], action))
        THEN After(read[s], action, offer)
        ELSE IF IsOpen(read[t]) THEN read[t] ELSE book[t]]

\* mark_to_market upserts the copy it read, with new unrealised PnL.
Remarked(book, read) ==
    [t \in Symbol |-> IF IsOpen(read[t]) THEN read[t] ELSE book[t]]
=============================================================================
