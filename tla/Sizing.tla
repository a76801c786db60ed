-------------------------------- MODULE Sizing --------------------------------
(***************************************************************************)
(* How large an idea of the trade assistant is                             *)
(* (src/jarvise_assist/sizing.py): pure functions over the stop, the       *)
(* balance and the other ideas, called by the scan, the morning job, the   *)
(* menu and the two taps of an entry.                                      *)
(*                                                                         *)
(* Prices, quantities and balances are integers of some small unit, the    *)
(* lot (step) and the tick are multiples of it; risk is in hundredths of a *)
(* percent of the balance.  A quotient of Decimals is not rounded before   *)
(* it is floored to lots.  Times are minutes since the epoch (UTC).        *)
(***************************************************************************)
EXTENDS Integers, Sequences, SequencesExt, FiniteSetsExt

MAX_LEVERAGE == 5
MAX_OPEN_IDEAS == 2
MAX_PORTFOLIO_RISK == 400
Whole == 10000      \* hundredths of a percent in the whole

Side == {"long", "short"}
Abs(x) == IF x < 0 THEN -x ELSE x
CeilDiv(n, d) == (n + d - 1) \div d
AtLeast(a, b) == IF a < b THEN b ELSE a

-----------------------------------------------------------------------------
(* Lots and ticks.                                                         *)

\* The quotient n / d, down to a whole number of lots.
floor_to_step(n, d, step) == (n \div (d * step)) * step

Down(price, tick) == (price \div tick) * tick
Up(price, tick) == IF Down(price, tick) = price THEN price ELSE Down(price, tick) + tick

\* A stop is rounded away from the entry, a target beyond itself.
round_level_to_tick(price, tick, side, kind) ==
    IF (side = "long") = (kind = "stop") THEN Down(price, tick) ELSE Up(price, tick)

-----------------------------------------------------------------------------
(* One idea.                                                               *)

Loss(i) == i.qty * Abs(i.entry - i.stop)
Notional(i) == i.qty * i.entry

\* The leverage an amount needs, and the one it is given.
Needs(notional, balance) == CeilDiv(notional, balance)
Given(needed) == IF needed > MAX_LEVERAGE THEN MAX_LEVERAGE ELSE AtLeast(needed, 1)

OnItsSide(side, entry, stop) == IF side = "long" THEN stop < entry ELSE stop > entry

RiskQty(entry, stop, balance, risk, step) ==
    floor_to_step(balance * risk, Whole * Abs(entry - stop), step)

SizedQty(entry, stop, balance, risk, step) ==
    LET qty == RiskQty(entry, stop, balance, risk, step)
    IN  IF Needs(qty * entry, balance) > MAX_LEVERAGE
        THEN floor_to_step(MAX_LEVERAGE * balance, entry, step)
        ELSE qty

\* size_signal returns an idea, and not None.
Sizable(side, entry, stop, balance, risk, step) ==
    /\ entry > 0 /\ balance > 0 /\ risk > 0
    /\ OnItsSide(side, entry, stop)
    /\ SizedQty(entry, stop, balance, risk, step) > 0

size_signal(side, entry, stop, balance, risk, step) ==
    LET uncut == RiskQty(entry, stop, balance, risk, step)
    IN  [side |-> side, entry |-> entry, stop |-> stop,
         target |-> entry + 2 * (entry - stop),
         qty |-> SizedQty(entry, stop, balance, risk, step),
         leverage |-> Given(Needs(uncut * entry, balance)),
         step |-> step]

\* The price has gone more than 0.3 R towards the target.
chase_exceeded(side, entry, stop, mark) ==
    \/ entry = stop
    \/ 10 * (IF side = "long" THEN mark - entry ELSE entry - mark) > 3 * Abs(entry - stop)

below_min_notional(i, min_qty, min_notional) ==
    \/ min_qty > 0 /\ i.qty < min_qty
    \/ min_notional > 0 /\ Notional(i) < min_notional

\* The quantity the first idea allows; 0 stands for a value it does not have.
Cap(i, first_qty, first_loss) ==
    IF first_loss > 0 /\ i.entry # i.stop
    THEN floor_to_step(first_loss, Abs(i.entry - i.stop), i.step)
    ELSE IF first_qty > 0 THEN floor_to_step(first_qty, 1, i.step)
    ELSE i.qty

\* A cap below one lot is ignored: the idea keeps the size it was given.
cap_requote_qty(i, first_qty, first_loss, balance) ==
    LET cap == Cap(i, first_qty, first_loss)
    IN  IF i.qty <= cap \/ cap <= 0 THEN i
        ELSE [i EXCEPT !.qty = cap, !.leverage = Given(Needs(cap * i.entry, balance))]

\* A stop that locks a profit in counts like one that risks as much.
position_risk_usdt(p, balance, risk) ==
    IF p.stop # 0 /\ p.qty > 0 /\ p.entry # p.stop THEN Whole * Loss(p) ELSE balance * risk

-----------------------------------------------------------------------------
(* The ideas of one scan.  A candidate also has a confidence and a rank;   *)
(* amounts are compared in parts of Whole.                                 *)

Better(a, b) == a.confidence > b.confidence \/ (a.confidence = b.confidence /\ a.rank < b.rank)
Ranked(candidates) == SetToSortSeq(candidates, Better)

Budget(balance) == balance * MAX_PORTFOLIO_RISK
Used(existing) == MapThenSumSet(LAMBDA e : e.risk, existing)
Unblocked(existing) ==
    [used |-> Used(existing), slots |-> Cardinality(existing), admitted |-> <<>>, blocked |-> FALSE]

\* Nothing is admitted after the first that does not fit.
Admit(balance, acc, c) ==
    LET used == acc.used + Whole * Loss(c)
    IN  IF acc.blocked \/ acc.slots + 1 > MAX_OPEN_IDEAS \/ used > Budget(balance)
        THEN [acc EXCEPT !.blocked = TRUE]
        ELSE [used |-> used, slots |-> acc.slots + 1,
              admitted |-> Append(acc.admitted, c), blocked |-> FALSE]

admit_signals(existing, candidates, balance) ==
    FoldLeft(LAMBDA acc, c : Admit(balance, acc, c), Unblocked(existing), Ranked(candidates)).admitted

\* One leverage for all of them, with a buffer of a twentieth.
shared_leverage_needed(total, available) ==
    IF available <= 0 THEN MAX_LEVERAGE + 1
    ELSE IF total <= 0 THEN 1
    ELSE AtLeast(1, CeilDiv(100 * total, 95 * available))

Total(ideas) == FoldLeft(LAMBDA sum, c : sum + Notional(c), 0, ideas)
Fits(ideas, available) == shared_leverage_needed(Total(ideas), available) <= MAX_LEVERAGE
Levered(ideas, leverage) == [k \in DOMAIN ideas |-> [ideas[k] EXCEPT !.leverage = leverage]]

\* What is left of an idea that does not fit by itself; the buffer no longer counts.
ShrunkQty(i, available) ==
    LET most == MAX_LEVERAGE * available
    IN  IF most <= 0 THEN 0
        ELSE IF Notional(i) <= most THEN i.qty
        ELSE floor_to_step(most, i.entry, i.step)

\* The ideas are ranked: the last one goes as long as they do not fit.  A lone one
\* that does not fit is shrunk, and goes when nothing is left of it.
assign_shared_leverage(ideas, available) ==
    LET fitting == {k \in DOMAIN ideas : Fits(SubSeq(ideas, 1, k), available)}
        kept == SubSeq(ideas, 1, Max(fitting))
    IN  IF fitting # {}
        THEN Levered(kept, shared_leverage_needed(Total(kept), available))
        ELSE IF ideas = <<>> \/ ShrunkQty(ideas[1], available) <= 0 THEN <<>>
        ELSE << [ideas[1] EXCEPT !.qty = ShrunkQty(ideas[1], available), !.leverage = MAX_LEVERAGE] >>

\* scan_signal_candidates, after the candidates are sized.
Scanned(existing, candidates, balance, available, min_qty, min_notional) ==
    SelectSeq(assign_shared_leverage(admit_signals(existing, candidates, balance), available),
              LAMBDA i : ~below_min_notional(i, min_qty, min_notional))

\* size_for_execution: the idea is sized by the rounded stop, checked against the
\* ideas at hand, and offered with the shared leverage but with its own quantity.
Offered(existing, i, balance, available, min_qty, min_notional) ==
    LET alone == assign_shared_leverage(admit_signals(existing, {i}, balance), available)
    IN  IF below_min_notional(i, min_qty, min_notional) \/ alone = <<>> THEN <<>>
        ELSE << [i EXCEPT !.leverage = alone[1].leverage] >>

-----------------------------------------------------------------------------
(* The clock.                                                              *)

FOUR_H == 240
ANALYSIS_PUBLISH_LAG == 70
BANGKOK == 420
ASSIST_MINUTE == 25

\* Every four hours, 25 past, by the clock of Bangkok.
AssistSlot(t) == (t + BANGKOK - ASSIST_MINUTE) % FOUR_H = 0
\* The morning job runs at 08:20.
MorningSlot(t) == (t + BANGKOK) % 1440 = 8 * 60 + 20

next_assist_run(now) == Min({t \in (now + 1)..(now + 1440) : AssistSlot(t)})

expected_analysis_bar(now) == ((now - ANALYSIS_PUBLISH_LAG) \div FOUR_H) * FOUR_H - FOUR_H
analysis_is_fresh(bar, now) == bar <= now /\ bar >= expected_analysis_bar(now)
=============================================================================
