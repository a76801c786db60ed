---------------------------- MODULE FuturesVenue ----------------------------
(***************************************************************************)
(* The futures account of one symbol as the assistant sees it              *)
(* (src/jarvise_assist/futures.py and the client of execute.py): one       *)
(* position and the conditional orders that rest beside it.                *)
(*                                                                         *)
(* Quantities are lots.  A level is how much profit a stop at that price   *)
(* locks in, so "tighter" is "greater" for a long and for a short.  Every  *)
(* resting order is reduce-only.  An order carries its client id, which is *)
(* "jv-", the intent and the step that placed it; the owner places orders  *)
(* too, and those have no such prefix.                                     *)
(***************************************************************************)
EXTENDS Integers, FiniteSets, FiniteSetsExt, Functions

CONSTANTS Intents, Owner

ASSUME OwnerAssumption == Owner \notin Intents

StopSteps == {"sl0", "sl1", "ms", "own"}
RestSteps == StopSteps \cup {"tp"}

\* A position: gen names the entry price, which changes when lots are added.
Flat == [qty |-> 0, gen |-> 0]

Jv(orders)    == {o \in orders : o.by \in Intents}
Stops(orders) == {o \in orders : o.step \in StopSteps}

Rests(orders, i, step) == \E o \in orders : o.by = i /\ o.step = step

CoveredQty(orders) == SumFunctionOnSet([o \in Stops(orders) |-> o.qty], Stops(orders))

\* protective_stop_coverage: one lot step short still counts as full.
Coverage(orders, qty, step) ==
    IF Stops(orders) = {} THEN "none"
    ELSE IF qty <= 0 \/ CoveredQty(orders) + step >= qty THEN "full"
    ELSE IF CoveredQty(orders) > 0 THEN "partial" ELSE "none"

\* find_protective_stop: the tightest stop, or the initial level when there is none.
Tightest(orders, initial) ==
    IF Stops(orders) = {} THEN initial ELSE Max({o.level : o \in Stops(orders)})

\* A mutant of Least: an order without reduceOnly.
LeastUnclamped(a, b) == b

Least(a, b) == IF a < b THEN a ELSE b
=============================================================================
