------------------------- MODULE AssistSignalsProofs -------------------------
(***************************************************************************)
(* What an idea of the assistant promises: its size, for every price,      *)
(* balance and risk, and its life, for any numbers of ideas, analyses,     *)
(* losing streaks, taps and failures.                                      *)
(*                                                                         *)
(* The life rests on one invariant, Typed (every row, copy and local       *)
(* variable holds what it may hold, a job that has an idea or a streak in  *)
(* hand names one, and one idea at most is held), and on four more, each   *)
(* for one question: SwitchInv, TrackInv, StreakInv and SeenInv.  A step   *)
(* either carries on (Onward: a job ends or goes on with what it carried)  *)
(* or begins something, and what it begins is a lemma of its own.          *)
(***************************************************************************)
EXTENDS AssistSignals, Sizing, FiniteSetTheorems, TLAPS

-----------------------------------------------------------------------------
(* The size of an idea.                                                    *)

\* Division by a positive number rounds down.
LEMMA Division ==
    ASSUME NEW n \in Int, NEW d \in Nat \ {0}
    PROVE  n \div d \in Int /\ d * (n \div d) <= n /\ n < d * (n \div d) + d
BY Z3

\* An amount is covered by its quotient, rounded up.
LEMMA CeilCovers ==
    ASSUME NEW n \in Nat, NEW d \in Nat \ {0}
    PROVE  CeilDiv(n, d) \in Int /\ n <= d * CeilDiv(n, d) /\ d * (CeilDiv(n, d) - 1) < n
<1> DEFINE q == (n + d - 1) \div d
<1>1. q \in Int /\ d * q <= n + d - 1 /\ n + d - 1 < d * q + d
  <2>1. n + d - 1 \in Int OBVIOUS
  <2> QED BY <2>1, Division
<1>2. CeilDiv(n, d) = q BY DEF CeilDiv
<1> HIDE DEF q
<1>3. n <= d * q BY <1>1, Z3
<1>4. d * (q - 1) < n
  <2>1. d * (q - 1) = d * q - d BY <1>1, Z3
  <2> QED BY <1>1, <2>1, Z3
<1> QED BY <1>1, <1>2, <1>3, <1>4

\* No more lots than the quotient has.
LEMMA FloorBelow ==
    ASSUME NEW n \in Nat, NEW d \in Nat \ {0}, NEW step \in Nat \ {0}
    PROVE  /\ floor_to_step(n, d, step) \in Nat
           /\ floor_to_step(n, d, step) * d <= n
           /\ \E lots \in Nat : floor_to_step(n, d, step) = lots * step
<1> DEFINE w == d * step
           q == n \div w
<1>1. w \in Nat \ {0} BY Z3
<1>2. q \in Int /\ w * q <= n /\ n < w * q + w
  <2> HIDE DEF w
  <2> QED BY <1>1, Division
<1>3. q \in Nat
  <2> HIDE DEF w, q
  <2> QED BY <1>1, <1>2, Z3
<1>4. (q * step) * d = w * q
  <2> HIDE DEF q
  <2> QED BY <1>3, Z3
<1>5. q * step \in Nat
  <2> HIDE DEF q
  <2> QED BY <1>3, Z3
<1>6. floor_to_step(n, d, step) = q * step BY DEF floor_to_step
<1> HIDE DEF w, q
<1> QED BY <1>2, <1>3, <1>4, <1>5, <1>6

\* An idea risks no more than its share of the balance, and is worth no more than
\* MAX_LEVERAGE times the balance; the leverage it is given covers it.
THEOREM SizedWithinLimits ==
    ASSUME NEW side \in Side, NEW entry \in Nat, NEW stop \in Nat, NEW balance \in Nat,
           NEW risk \in Nat, NEW step \in Nat \ {0},
           Sizable(side, entry, stop, balance, risk, step)
    PROVE  LET i == size_signal(side, entry, stop, balance, risk, step)
           IN  /\ i.qty > 0 /\ \E lots \in Nat : i.qty = lots * step
               /\ Whole * Loss(i) <= balance * risk
               /\ Notional(i) <= MAX_LEVERAGE * balance
               /\ Notional(i) <= i.leverage * balance
<1> DEFINE r == Abs(entry - stop)
           uncut == RiskQty(entry, stop, balance, risk, step)
           cut == floor_to_step(MAX_LEVERAGE * balance, entry, step)
           qty == SizedQty(entry, stop, balance, risk, step)
           needed == Needs(uncut * entry, balance)
<1>1. entry > 0 /\ balance > 0 /\ risk > 0 /\ qty > 0 /\ OnItsSide(side, entry, stop)
  BY DEF Sizable
<1>2. r \in Nat \ {0} BY <1>1 DEF OnItsSide, Abs
<1>3. balance * risk \in Nat /\ Whole * r \in Nat \ {0} /\ MAX_LEVERAGE * balance \in Nat
  <2> HIDE DEF r
  <2> QED BY <1>2, Z3 DEF Whole, MAX_LEVERAGE
<1>4. /\ uncut \in Nat /\ uncut * (Whole * r) <= balance * risk
      /\ \E lots \in Nat : uncut = lots * step
  <2>1. uncut = floor_to_step(balance * risk, Whole * r, step) BY DEF RiskQty
  <2> HIDE DEF r, uncut
  <2> DEFINE n == balance * risk
             d == Whole * r
  <2>2. n \in Nat /\ d \in Nat \ {0} BY <1>3
  <2>3. uncut = floor_to_step(n, d, step) BY <2>1
  <2> HIDE DEF n, d
  <2>4. uncut \in Nat /\ uncut * d <= n /\ \E lots \in Nat : uncut = lots * step
    BY <2>2, <2>3, FloorBelow
  <2> QED BY <2>4 DEF n, d
<1>5. /\ cut \in Nat /\ cut * entry <= MAX_LEVERAGE * balance
      /\ \E lots \in Nat : cut = lots * step
  <2> DEFINE n == MAX_LEVERAGE * balance
  <2>1. n \in Nat BY <1>3
  <2> HIDE DEF n
  <2>2. floor_to_step(n, entry, step) \in Nat /\ floor_to_step(n, entry, step) * entry <= n
        /\ \E lots \in Nat : floor_to_step(n, entry, step) = lots * step
    <3>1. entry \in Nat \ {0} BY <1>1
    <3> QED BY <3>1, <2>1, FloorBelow
  <2> QED BY <2>2 DEF n
<1>6. needed \in Int /\ uncut * entry <= balance * needed /\ balance * (needed - 1) < uncut * entry
  <2> HIDE DEF uncut
  <2>1. uncut * entry \in Nat BY <1>4, Z3
  <2> QED BY <1>1, <2>1, CeilCovers DEF Needs
<1>7. qty = IF needed > MAX_LEVERAGE THEN cut ELSE uncut
  BY DEF SizedQty
<1> HIDE DEF r, uncut, cut, qty, needed
<1>8. qty \in Nat /\ \E lots \in Nat : qty = lots * step BY <1>4, <1>5, <1>7
<1>9. qty <= uncut
  <2>1. CASE needed <= MAX_LEVERAGE BY <2>1, <1>4, <1>6, <1>7 DEF MAX_LEVERAGE
  <2>2. CASE needed > MAX_LEVERAGE
    \* more than the cut is worth
    <3>1. balance * MAX_LEVERAGE <= balance * (needed - 1)
      BY <2>2, <1>1, <1>6, Z3 DEF MAX_LEVERAGE
    <3>2. cut * entry < uncut * entry BY <3>1, <1>1, <1>4, <1>5, <1>6, Z3 DEF MAX_LEVERAGE
    <3>3. cut < uncut BY <3>2, <1>1, <1>4, <1>5, Z3
    <3> QED BY <3>3, <2>2, <1>4, <1>5, <1>7
  <2> QED BY <2>1, <2>2, <1>6 DEF MAX_LEVERAGE
<1>10. Whole * (qty * r) <= balance * risk
  <2>1. qty * (Whole * r) <= uncut * (Whole * r) BY <1>3, <1>4, <1>8, <1>9, Z3
  <2>2. Whole * (qty * r) = qty * (Whole * r) BY <1>2, <1>8, Z3 DEF Whole
  <2>3. qty * (Whole * r) \in Nat /\ uncut * (Whole * r) \in Nat BY <1>3, <1>4, <1>8, Z3
  <2> QED BY <2>1, <2>2, <2>3, <1>3, <1>4
<1>11. qty * entry <= MAX_LEVERAGE * balance
  <2>1. CASE needed > MAX_LEVERAGE BY <2>1, <1>5, <1>7
  <2>2. CASE needed <= MAX_LEVERAGE
    <3>1. balance * needed <= balance * MAX_LEVERAGE BY <2>2, <1>6, Z3 DEF MAX_LEVERAGE
    <3> QED BY <3>1, <2>2, <1>4, <1>6, <1>7, Z3 DEF MAX_LEVERAGE
  <2> QED BY <2>1, <2>2, <1>6 DEF MAX_LEVERAGE
<1>12. qty * entry <= Given(needed) * balance
  <2>1. CASE needed > MAX_LEVERAGE BY <2>1, <1>11 DEF Given
  <2>2. CASE needed <= MAX_LEVERAGE
    <3>1. Given(needed) \in Int /\ needed <= Given(needed) BY <2>2, <1>6 DEF Given, AtLeast, MAX_LEVERAGE
    <3>2. qty = uncut BY <2>2, <1>6, <1>7 DEF MAX_LEVERAGE
    <3>3. balance * needed <= balance * Given(needed) BY <3>1, <1>6, Z3
    <3> QED BY <3>1, <3>2, <3>3, <1>4, <1>6, Z3
  <2> QED BY <2>1, <2>2, <1>6 DEF MAX_LEVERAGE
<1> DEFINE i == size_signal(side, entry, stop, balance, risk, step)
<1>13. i.qty = qty /\ i.entry = entry /\ i.stop = stop /\ i.leverage = Given(needed)
  BY DEF size_signal, qty, needed, uncut
<1>14. Loss(i) = qty * r /\ Notional(i) = qty * entry BY <1>13 DEF Loss, Notional, r
<1> HIDE DEF i
<1>15. /\ i.qty > 0 /\ \E lots \in Nat : i.qty = lots * step
       /\ Whole * Loss(i) <= balance * risk
       /\ Notional(i) <= MAX_LEVERAGE * balance
       /\ Notional(i) <= i.leverage * balance
  BY <1>1, <1>8, <1>10, <1>11, <1>12, <1>13, <1>14
<1> QED BY <1>15 DEF i

-----------------------------------------------------------------------------
Idea == [side : Side, entry : Nat \ {0}, stop : Nat, target : Int, qty : Nat,
         leverage : Int, step : Nat \ {0}]

\* A quote that is given again is never larger than it was sized, and where the cap
\* leaves at least one lot it risks no more than the idea that was seen first.
THEOREM RequoteCapped ==
    ASSUME NEW i \in Idea, NEW first_qty \in Nat, NEW first_loss \in Nat, NEW balance \in Nat,
           first_loss > 0, Cap(i, first_qty, first_loss) > 0
    PROVE  LET again == cap_requote_qty(i, first_qty, first_loss, balance)
           IN  again.qty <= i.qty /\ Loss(again) <= first_loss
<1> DEFINE again == cap_requote_qty(i, first_qty, first_loss, balance)
           cap == Cap(i, first_qty, first_loss)
           r == Abs(i.entry - i.stop)
<1> SUFFICES again.qty <= i.qty /\ Loss(again) <= first_loss OBVIOUS
<1>0. i.qty \in Nat /\ i.entry \in Nat /\ i.stop \in Nat /\ i.step \in Nat \ {0} BY DEF Idea
<1>1. r \in Nat BY <1>0 DEF Abs
<1>2. cap \in Nat /\ (i.entry # i.stop => cap * r <= first_loss)
  <2>1. CASE i.entry = i.stop
    <3>1. floor_to_step(first_qty, 1, i.step) \in Nat
      <4>1. 1 \in Nat \ {0} OBVIOUS
      <4> QED BY <4>1, <1>0, FloorBelow
    <3> QED BY <3>1, <2>1, <1>0 DEF Cap
  <2>2. CASE i.entry # i.stop
    <3>1. r \in Nat \ {0} BY <1>0, <1>1, <2>2 DEF Abs
    <3>2. cap = floor_to_step(first_loss, r, i.step) BY <2>2 DEF Cap
    <3> HIDE DEF r, cap
    <3> QED BY <3>1, <3>2, <1>0, FloorBelow
  <2> QED BY <2>1, <2>2
<1>3. again.qty = (IF i.qty <= cap THEN i.qty ELSE cap) /\ again.entry = i.entry /\ again.stop = i.stop
  <2> DEFINE less == [i EXCEPT !.qty = cap, !.leverage = Given(Needs(cap * i.entry, balance))]
  <2>1. again = IF i.qty <= cap THEN i ELSE less
    <3>1. ~(cap <= 0)
      <4> HIDE DEF cap
      <4>1. cap > 0 BY DEF cap
      <4> QED BY <4>1, <1>2
    <3> QED BY <3>1 DEF cap_requote_qty
  <2>2. less.qty = cap /\ less.entry = i.entry /\ less.stop = i.stop BY DEF Idea
  <2> HIDE DEF less, again, cap
  <2> QED BY <2>1, <2>2
<1>4. Loss(again) = again.qty * r BY <1>3 DEF Loss
<1> HIDE DEF again, cap
<1>5. again.qty \in Nat /\ again.qty <= i.qty /\ again.qty <= cap BY <1>0, <1>2, <1>3
<1>6. CASE i.entry = i.stop
  <2>1. r = 0 BY <1>0, <1>6 DEF Abs
  <2> HIDE DEF r
  <2>2. again.qty * r = 0 BY <2>1, <1>5
  <2> QED BY <2>2, <1>4, <1>5
<1>7. CASE i.entry # i.stop
  <2> HIDE DEF r
  <2>1. again.qty * r <= cap * r BY <1>1, <1>2, <1>5, Z3
  <2>2. again.qty * r \in Nat /\ cap * r \in Nat BY <1>1, <1>2, <1>5, Z3
  <2> QED BY <2>1, <2>2, <1>2, <1>4, <1>5, <1>7
<1> QED BY <1>6, <1>7

\* What is left of an idea that is shrunk is worth no more than the leverage allows, and
\* it risks no more than it did.
THEOREM ShrunkFits ==
    ASSUME NEW i \in Idea, NEW available \in Int
    PROVE  LET qty == ShrunkQty(i, available)
           IN  /\ qty \in Nat /\ qty <= i.qty
               /\ qty > 0 => qty * i.entry <= MAX_LEVERAGE * available
<1> DEFINE most == MAX_LEVERAGE * available
           cut == floor_to_step(most, i.entry, i.step)
           qty == ShrunkQty(i, available)
<1> SUFFICES /\ qty \in Nat /\ qty <= i.qty
             /\ qty > 0 => qty * i.entry <= most
  OBVIOUS
<1>0. i.qty \in Nat /\ i.entry \in Nat \ {0} /\ i.step \in Nat \ {0} BY DEF Idea
<1>1. most \in Int BY DEF MAX_LEVERAGE
<1>2. qty = IF most <= 0 THEN 0 ELSE IF i.qty * i.entry <= most THEN i.qty ELSE cut
  BY DEF ShrunkQty, Notional
<1> HIDE DEF most, qty
<1>3. CASE most <= 0 BY <1>3, <1>1, <1>2, <1>0
<1>4. CASE most > 0
  <2>1. cut \in Nat /\ cut * i.entry <= most
    <3>1. most \in Nat BY <1>1, <1>4
    <3> QED BY <3>1, <1>0, FloorBelow
  <2> HIDE DEF cut
  <2>2. CASE i.qty * i.entry <= most BY <2>2, <1>1, <1>4, <1>2, <1>0
  <2>3. CASE ~(i.qty * i.entry <= most)
    <3>1. i.qty * i.entry \in Nat /\ cut * i.entry \in Nat BY <2>1, <1>0, Z3
    <3>2. cut * i.entry < i.qty * i.entry BY <3>1, <2>1, <2>3, <1>1
    <3>3. cut < i.qty BY <3>2, <2>1, <1>0, Z3
    <3> QED BY <3>3, <2>1, <2>3, <1>4, <1>2, <1>0, <1>1
  <2> QED BY <2>2, <2>3
<1> QED BY <1>3, <1>4, <1>1

\* The leverage that is shared leaves a twentieth of the available balance free.
THEOREM SharedMarginFits ==
    ASSUME NEW total \in Nat, NEW available \in Int,
           shared_leverage_needed(total, available) <= MAX_LEVERAGE
    PROVE  100 * total <= 95 * available * shared_leverage_needed(total, available)
<1>1. available > 0 BY DEF shared_leverage_needed, MAX_LEVERAGE
<1> DEFINE n == 100 * total
           d == 95 * available
           c == CeilDiv(n, d)
<1>2. n \in Nat /\ d \in Nat \ {0} BY <1>1
<1>3. c \in Int /\ n <= d * c
  <2> HIDE DEF n, d
  <2> QED BY <1>2, CeilCovers
<1>4. shared_leverage_needed(total, available) = IF total <= 0 THEN 1 ELSE AtLeast(1, c)
  BY <1>1 DEF shared_leverage_needed
<1>5. CASE total <= 0 BY <1>5, <1>4, <1>1
<1>6. CASE total > 0
  <2> HIDE DEF c, d
  <2>1. AtLeast(1, c) \in Int /\ c <= AtLeast(1, c) BY <1>3 DEF AtLeast
  <2>2. d * c <= d * AtLeast(1, c) BY <2>1, <1>2, <1>3, Z3
  <2>3. d * c \in Int /\ d * AtLeast(1, c) \in Int BY <2>1, <1>2, <1>3, Z3
  <2>4. n <= d * AtLeast(1, c) BY <2>2, <2>3, <1>2, <1>3
  <2> QED BY <2>4, <1>4, <1>6 DEF d
<1> QED BY <1>5, <1>6

\* What is admitted keeps to the budget and to the number of slots.
InBudget(balance, acc) ==
    acc.admitted # <<>> => acc.used <= Budget(balance) /\ acc.slots <= MAX_OPEN_IDEAS

\* Whatever the ideas at hand already use: one more never takes them past the budget
\* or past the number of slots, and after a refusal nothing is admitted.
THEOREM AdmitKeepsBudget ==
    ASSUME NEW balance \in Nat, NEW c \in Idea, NEW spent \in Nat, NEW slots \in Nat,
           NEW admitted \in Seq(Idea), NEW blocked \in BOOLEAN,
           LET acc == [used |-> spent, slots |-> slots, admitted |-> admitted, blocked |-> blocked]
           IN  InBudget(balance, acc)
    PROVE  LET acc == [used |-> spent, slots |-> slots, admitted |-> admitted, blocked |-> blocked]
               next == Admit(balance, acc, c)
           IN  /\ InBudget(balance, next)
               /\ blocked => next.admitted = admitted /\ next.blocked
<1> DEFINE acc == [used |-> spent, slots |-> slots, admitted |-> admitted, blocked |-> blocked]
           next == Admit(balance, acc, c)
           sum == spent + Whole * Loss(c)
           stop == acc.blocked \/ acc.slots + 1 > MAX_OPEN_IDEAS \/ sum > Budget(balance)
<1> SUFFICES /\ InBudget(balance, next)
             /\ blocked => next.admitted = admitted /\ next.blocked
  OBVIOUS
<1>1. CASE stop
  <2>1. next = [used |-> spent, slots |-> slots, admitted |-> admitted, blocked |-> TRUE]
    BY <1>1 DEF Admit
  <2> HIDE DEF next
  <2> QED BY <2>1 DEF InBudget
<1>2. CASE ~stop
  <2>1. next = [used |-> sum, slots |-> slots + 1, admitted |-> Append(admitted, c), blocked |-> FALSE]
    BY <1>2 DEF Admit
  <2>2. sum <= Budget(balance) /\ slots + 1 <= MAX_OPEN_IDEAS
    <3>1. sum \in Int
      <4>1. Loss(c) \in Int
        <5>1. c.qty \in Nat /\ Abs(c.entry - c.stop) \in Int BY DEF Idea, Abs
        <5> QED BY <5>1, Z3 DEF Loss
      <4> QED BY <4>1 DEF Whole
    <3>2. Budget(balance) \in Int BY DEF Budget, MAX_PORTFOLIO_RISK
    <3> HIDE DEF sum
    <3> QED BY <3>1, <3>2, <1>2 DEF MAX_OPEN_IDEAS
  <2> HIDE DEF next, sum
  <2> QED BY <2>1, <2>2, <1>2 DEF InBudget
<1> QED BY <1>1, <1>2

-----------------------------------------------------------------------------
\* A rounded stop is no nearer to the entry and a rounded target no nearer either, by
\* less than a tick, and rounding again (the tap and the order both do) changes nothing.
THEOREM RoundedIsSafe ==
    ASSUME NEW price \in Nat, NEW tick \in Nat \ {0}, NEW side \in Side, NEW kind \in {"stop", "target"}
    PROVE  LET rounded == round_level_to_tick(price, tick, side, kind)
           IN  /\ rounded \in Nat
               /\ (side = "long") = (kind = "stop") => rounded <= price /\ price - rounded < tick
               /\ (side = "long") # (kind = "stop") => rounded >= price /\ rounded - price < tick
               /\ round_level_to_tick(rounded, tick, side, kind) = rounded
<1> DEFINE q == price \div tick
           down == q * tick
<1>1. q \in Int /\ tick * q <= price /\ price < tick * q + tick BY Division
<1>2. q \in Nat
  <2> HIDE DEF q
  <2> QED BY <1>1, Z3
<1>3. \A m \in Nat : (m * tick) \div tick = m BY Z3
<1>4. Down(price, tick) = down /\ down \in Nat /\ down <= price /\ price < down + tick
  <2>1. Down(price, tick) = down BY DEF Down
  <2> HIDE DEF q
  <2> QED BY <2>1, <1>1, <1>2, Z3
<1>5. \A m \in Nat : Down(m * tick, tick) = m * tick BY <1>3 DEF Down
<1>6. Down(down, tick) = down
  <2> HIDE DEF q
  <2> QED BY <1>2, <1>5
<1>7. (q + 1) * tick = down + tick
  <2> HIDE DEF q
  <2> QED BY <1>2, Z3
<1>8. Down(down + tick, tick) = down + tick
  <2> HIDE DEF q
  <2>1. q + 1 \in Nat BY <1>2
  <2>2. Down((q + 1) * tick, tick) = (q + 1) * tick
    <3> DEFINE m == q + 1
    <3>1. m \in Nat BY <2>1
    <3> HIDE DEF m
    <3>2. Down(m * tick, tick) = m * tick BY <3>1, <1>5
    <3> QED BY <3>2 DEF m
  <2> QED BY <2>2, <1>7
<1> HIDE DEF q, down
<1>9. Up(price, tick) = IF down = price THEN price ELSE down + tick BY <1>4 DEF Up
<1>10. Up(Up(price, tick), tick) = Up(price, tick) BY <1>4, <1>6, <1>8, <1>9 DEF Up
<1>11. Up(price, tick) \in Nat /\ Up(price, tick) >= price /\ Up(price, tick) - price < tick
  BY <1>4, <1>9
<1>12. CASE (side = "long") = (kind = "stop") BY <1>12, <1>4, <1>6 DEF round_level_to_tick
<1>13. CASE (side = "long") # (kind = "stop") BY <1>13, <1>10, <1>11 DEF round_level_to_tick
<1> QED BY <1>12, <1>13

-----------------------------------------------------------------------------
\* The analysis of a bar is written an hour after the bar has closed and replaced four
\* hours later: it is fresh for those four hours, ten minutes late (sizing.py:292).
THEOREM FreshWindow ==
    ASSUME NEW bar \in Nat, NEW now \in Nat, bar % FOUR_H = 0, now >= bar
    PROVE  analysis_is_fresh(bar, now) <=> now < bar + FOUR_H + ANALYSIS_PUBLISH_LAG + FOUR_H
BY DEF analysis_is_fresh, expected_analysis_bar, FOUR_H, ANALYSIS_PUBLISH_LAG

\* Whenever the assistant runs, at its slots and in the morning, the analysis it asks for
\* is that of the newest bar that has closed: no older one passes.
THEOREM AssistSeesNewestBar ==
    ASSUME NEW now \in Nat, AssistSlot(now) \/ MorningSlot(now)
    PROVE  /\ expected_analysis_bar(now) % FOUR_H = 0
           /\ expected_analysis_bar(now) + FOUR_H <= now - 60
           /\ now < expected_analysis_bar(now) + 2 * FOUR_H
BY DEF AssistSlot, MorningSlot, expected_analysis_bar, FOUR_H, ANALYSIS_PUBLISH_LAG, BANGKOK, ASSIST_MINUTE

-----------------------------------------------------------------------------
(* The rows, the jobs and the listener.                                    *)

Row   == [status : {"none", "held", "sent", "skipped", "taken", "expired", "blocked"},
          side : {"long", "short"}, recent : BOOLEAN, flip : BOOLEAN]
Track == [kind : {"none", "held", "sent", "blocked"}, open : BOOLEAN]
Settings == [enabled : BOOLEAN, paused : {"no", "yes", "over"}, risk : {"high", "ok"}]
Edge  == [anchor : 0..MaxLosses, told : BOOLEAN]
AtIdea == {"track", "push", "mark", "decide"}
AtLoss == {"pausing", "paused"}
Job   == [pc : {"idle", "resume", "resumed", "clamp", "account", "up", "down", "pause", "scan",
                "blocked", "insert", "list"} \cup AtIdea \cup AtLoss,
          cfg : Settings, edge : Edge, i : Nat, side : {"long", "short"},
          flip : BOOLEAN, off : BOOLEAN, night : BOOLEAN, open : BOOLEAN]
Listener == [pc : {"idle", "toggle", "risk", "unpause", "note", "note_told"},
             cfg : Settings, edge : Edge]
Market == [now : Sides \cup {"flat"}, prev : Sides \cup {"flat", "none"}, open : BOOLEAN,
           night : BOOLEAN, loss : 0..MaxLosses]
Bounds == [analyses : Nat, events : Nat, faults : BOOLEAN, crashes : BOOLEAN, mixed : BOOLEAN]

RowsTyped == sig \in [Ideas -> Row] /\ track \in [Ideas -> Track]
CfgTyped  == cfg \in Settings /\ edge \in Edge /\ own \in Listener
JobTyped  == job \in [Jobs -> Job]
JobPoints == \A p \in Jobs : /\ job[p].pc \in AtIdea => job[p].i \in Ideas
                             /\ job[p].pc \in AtLoss => job[p].i \in 1..MaxLosses
RestTyped ==
    /\ market \in Market
    /\ pushed \in [Ideas -> Nat]
    /\ lost \subseteq Ideas
    /\ wants \in BOOLEAN
    /\ pauses \in [1..MaxLosses -> Nat]
    /\ stale \subseteq {"cfg", "edge"}
    /\ used \in Bounds

OneHeld == \A i, j \in Rows({"held"}) : i = j

Typed == RowsTyped /\ CfgTyped /\ JobTyped /\ JobPoints /\ RestTyped /\ OneHeld

\* The bounds are numbers.
LEMMA Bounded == MaxIdeas \in Nat /\ MaxLosses \in Nat /\ MaxEvents \in Nat /\ MaxAnalyses \in Nat
BY SignalBounds

\* A side is long or short.
LEMMA TheSides == Sides \subseteq {"long", "short"}
BY SignalSides

\* What is held before the list of the morning is one idea or none.
LEMMA NewestHeld ==
    ASSUME OneHeld
    PROVE  /\ Newest(Rows({"held"})) = Rows({"held"})
           /\ \A i \in Rows({"held"}) : Rows({"held"}) = {i}
<1> DEFINE held == Rows({"held"})
<1>1. \A i, j \in held : i = j BY DEF OneHeld
<1>2. \A i \in held : held = {i} BY <1>1
<1>3. held \subseteq Int BY DEF Rows, Ideas
<1>4. ASSUME NEW i \in held PROVE Max(held) = i
  <2>1. held = {i} BY <1>2
  <2>2. i \in Int BY <1>3
  <2> HIDE DEF held
  <2>3. \A x \in held : i >= x BY <2>1, <2>2
  <2> QED BY <2>1, <2>3 DEF Max
<1> HIDE DEF held
<1>5. CASE held = {} BY <1>5, <1>2 DEF Newest, held
<1>6. CASE held # {}
  <2>1. PICK i \in held : TRUE BY <1>6
  <2>2. held = {i} /\ Max(held) = i BY <1>2, <1>4
  <2>3. Newest(held) = {Max(held)} BY <1>6 DEF Newest
  <2> QED BY <2>2, <2>3, <1>2 DEF held
<1> QED BY <1>5, <1>6

\* The first state is typed.
LEMMA TypedFirst == ASSUME Init PROVE Typed
<1> USE Bounded, TheSides, SignalSides DEF Init, NoSig, NoTrack, FirstCfg, FirstEdge, Idle, NoTap
<1>1. RowsTyped BY DEF RowsTyped, Row, Track
<1>2. CfgTyped BY DEF CfgTyped, Settings, Edge, Listener
<1>3. JobTyped BY DEF JobTyped, Job, Settings, Edge
<1>4. JobPoints BY DEF JobPoints, AtIdea, AtLoss
<1>5. RestTyped BY DEF RestTyped, Market, Bounds
<1>6. OneHeld BY DEF OneHeld, Rows
<1> QED BY <1>1, <1>2, <1>3, <1>4, <1>5, <1>6 DEF Typed

\* What a job carries from one step to the next.
Kept(p, state) == /\ state.side = job[p].side /\ state.flip = job[p].flip
                  /\ state.off = job[p].off /\ state.night = job[p].night
Same(p, state) == state.i = job[p].i /\ Kept(p, state)

\* A job that goes on carries what it carried.
LEMMA Copies ==
    ASSUME Typed, NEW p \in Jobs, NEW pc \in {"idle", "resume", "resumed", "clamp", "account",
               "up", "down", "pause", "scan", "blocked", "insert", "list"} \cup AtIdea \cup AtLoss
    PROVE  /\ job[p] \in Job
           /\ At(p, pc) \in Job /\ ReadCfg(p, pc) \in Job /\ ReadEdge(p, pc) \in Job
           /\ At(p, pc).pc = pc /\ ReadCfg(p, pc).pc = pc /\ ReadEdge(p, pc).pc = pc
           /\ Same(p, At(p, pc)) /\ Same(p, ReadCfg(p, pc)) /\ Same(p, ReadEdge(p, pc))
           /\ ReadCfg(p, pc).cfg = cfg /\ ReadEdge(p, pc).edge = edge
           /\ Idle \in Job /\ FirstCfg \in Settings /\ FirstEdge \in Edge /\ NoTap \in Listener
<1>1. job[p] \in Job /\ cfg \in Settings /\ edge \in Edge BY DEF Typed, JobTyped, CfgTyped
<1>2. FirstCfg \in Settings /\ FirstEdge \in Edge BY Bounded DEF FirstCfg, FirstEdge, Settings, Edge
<1>3. Idle \in Job /\ NoTap \in Listener BY <1>2 DEF Idle, Job, NoTap, Listener
<1>4. At(p, pc) \in Job /\ At(p, pc).pc = pc /\ Same(p, At(p, pc))
  BY <1>1, <1>2 DEF At, Job, Same, Kept
<1>5. ReadCfg(p, pc) \in Job /\ ReadCfg(p, pc).pc = pc /\ Same(p, ReadCfg(p, pc))
     /\ ReadCfg(p, pc).cfg = cfg
  BY <1>1, <1>4 DEF ReadCfg, Job, Same, Kept
<1>6. ReadEdge(p, pc) \in Job /\ ReadEdge(p, pc).pc = pc /\ Same(p, ReadEdge(p, pc))
     /\ ReadEdge(p, pc).edge = edge
  BY <1>1, <1>4 DEF ReadEdge, Job, Same, Kept
<1> QED BY <1>1, <1>2, <1>3, <1>4, <1>5, <1>6

\* A job moves to a state of its kind.
LEMMA Goes ==
    ASSUME Typed, NEW p \in Jobs, NEW state \in Job, Go(p, state),
           state.pc \in AtIdea => state.i \in Ideas,
           state.pc \in AtLoss => state.i \in 1..MaxLosses
    PROVE  JobTyped' /\ JobPoints' /\ job'[p] = state /\ \A q \in Jobs \ {p} : job'[q] = job[q]
<1>1. job \in [Jobs -> Job] BY DEF Typed, JobTyped
<1>2. job' = [job EXCEPT ![p] = state] BY DEF Go
<1>3. JobTyped' BY <1>1, <1>2 DEF JobTyped
<1>4. job'[p] = state /\ \A q \in Jobs \ {p} : job'[q] = job[q] BY <1>1, <1>2
<1>5. JobPoints' BY <1>4 DEF JobPoints, Typed
<1> QED BY <1>3, <1>4, <1>5

\* A whole-row write puts its row in, and notes when it undid another.
LEMMA Wrote ==
    ASSUME Typed, NEW read, NEW new
    PROVE  /\ WriteCfg(read, new) => /\ cfg' = new /\ stale' \subseteq {"cfg", "edge"}
                                     /\ stale \subseteq stale' /\ "edge" \in stale' => "edge" \in stale
                                     /\ "cfg" \notin stale' => read = cfg
           /\ WriteEdge(read, new) => /\ edge' = new /\ stale' \subseteq {"cfg", "edge"}
                                      /\ stale \subseteq stale' /\ "cfg" \in stale' => "cfg" \in stale
                                      /\ "edge" \notin stale' => read = edge
BY DEF WriteCfg, WriteEdge, Typed, RestTyped

\* Counting and noting keep the bookkeeping typed.
LEMMA Counted ==
    ASSUME Typed
    PROVE  /\ Calm => used' \in Bounds
           /\ Event => used' \in Bounds
           /\ \A kind \in {"faults", "crashes", "mixed"} : Mishap(kind) => used' \in Bounds
           /\ Fail => used' \in Bounds
<1>1. used \in Bounds BY DEF Typed, RestTyped
<1>2. Calm => used' \in Bounds BY <1>1 DEF Calm
<1>3. Event => used' \in Bounds BY <1>1 DEF Event, Bounds
<1>4. Mishap("faults") => used' \in Bounds
  <2>1. SUFFICES ASSUME Mishap("faults") PROVE used' \in Bounds OBVIOUS
  <2>2. used' = [used EXCEPT !.events = used.events + 1, !.faults = TRUE] BY <2>1 DEF Mishap
  <2>3. used.events + 1 \in Nat BY <1>1 DEF Bounds
  <2> QED BY <1>1, <2>2, <2>3, Zenon DEF Bounds
<1>5. Mishap("crashes") => used' \in Bounds
  <2>1. SUFFICES ASSUME Mishap("crashes") PROVE used' \in Bounds OBVIOUS
  <2>2. used' = [used EXCEPT !.events = used.events + 1, !.crashes = TRUE] BY <2>1 DEF Mishap
  <2>3. used.events + 1 \in Nat BY <1>1 DEF Bounds
  <2> QED BY <1>1, <2>2, <2>3, Zenon DEF Bounds
<1>6. Mishap("mixed") => used' \in Bounds
  <2>1. SUFFICES ASSUME Mishap("mixed") PROVE used' \in Bounds OBVIOUS
  <2>2. used' = [used EXCEPT !.events = used.events + 1, !.mixed = TRUE] BY <2>1 DEF Mishap
  <2>3. used.events + 1 \in Nat BY <1>1 DEF Bounds
  <2> QED BY <1>1, <2>2, <2>3, Zenon DEF Bounds
<1> QED BY <1>2, <1>3, <1>4, <1>5, <1>6 DEF Fail

\* The steps the two jobs share, one by one.
LEMMA SharedTyped ==
    ASSUME Typed, NEW p \in Jobs, Shared(p)
    PROVE  Typed'
<1> USE DEF Typed
<1>0. job[p] \in Job BY DEF JobTyped
<1>1. CASE Resume(p)
  <2>1. JobTyped' /\ JobPoints' BY <1>1, Copies, Goes DEF Resume, AtIdea, AtLoss
  <2>2. [job[p].cfg EXCEPT !.paused = "no"] \in Settings BY <1>0 DEF Job, Settings
  <2>3. cfg' \in Settings /\ stale' \subseteq {"cfg", "edge"} BY <1>1, <2>2, Wrote DEF Resume
  <2>4. CfgTyped' BY <1>1, <2>3 DEF Resume, CfgTyped
  <2>5. RowsTyped' /\ RestTyped' /\ OneHeld'
    BY <1>1, <2>3 DEF Resume, RowsTyped, RestTyped, OneHeld, Rows, rows, told
  <2> QED BY <2>1, <2>4, <2>5
<1>2. CASE ResumeTold(p)
  <2>0. Then(cfg) \in {"clamp", "account"} BY DEF Then
  <2>1. JobTyped' /\ JobPoints' BY <1>2, <2>0, Copies, Goes DEF ResumeTold, AtIdea, AtLoss
  <2>2. [job[p].edge EXCEPT !.told = TRUE] \in Edge BY <1>0 DEF Job, Edge
  <2>3. edge' \in Edge /\ stale' \subseteq {"cfg", "edge"} BY <1>2, <2>2, Wrote DEF ResumeTold
  <2>4. CfgTyped' BY <1>2, <2>3 DEF ResumeTold, CfgTyped
  <2>5. RowsTyped' /\ RestTyped' /\ OneHeld'
    BY <1>2, <2>3 DEF ResumeTold, RowsTyped, RestTyped, OneHeld, Rows, rows, told
  <2> QED BY <2>1, <2>4, <2>5
<1>3. CASE Clamp(p)
  <2>1. JobTyped' /\ JobPoints' BY <1>3, Copies, Goes DEF Clamp, AtIdea, AtLoss
  <2>2. [job[p].cfg EXCEPT !.risk = "ok"] \in Settings BY <1>0 DEF Job, Settings
  <2>3. cfg' \in Settings /\ stale' \subseteq {"cfg", "edge"} BY <1>3, <2>2, Wrote DEF Clamp
  <2>4. CfgTyped' BY <1>3, <2>3 DEF Clamp, CfgTyped
  <2>5. RowsTyped' /\ RestTyped' /\ OneHeld'
    BY <1>3, <2>3 DEF Clamp, RowsTyped, RestTyped, OneHeld, Rows, rows, told
  <2> QED BY <2>1, <2>4, <2>5
<1>4. CASE Account(p)
  <2>1. [ReadEdge(p, "up") EXCEPT !.open = market.open] \in Job
    <3>1. ReadEdge(p, "up") \in Job BY Copies
    <3>2. market.open \in BOOLEAN BY DEF RestTyped, Market
    <3> QED BY <3>1, <3>2 DEF Job
  <2>2. [ReadEdge(p, "up") EXCEPT !.open = market.open].pc = "up"
    <3>1. ReadEdge(p, "up") \in Job /\ ReadEdge(p, "up").pc = "up" BY Copies
    <3> QED BY <3>1 DEF Job
  <2>3. JobTyped' /\ JobPoints'
    <3>1. CASE Go(p, [ReadEdge(p, "up") EXCEPT !.open = market.open])
      BY <3>1, <2>1, <2>2, Goes DEF AtIdea, AtLoss
    <3>2. CASE Go(p, ReadEdge(p, "down"))
      <4>1. ReadEdge(p, "down") \in Job /\ ReadEdge(p, "down").pc = "down" BY Copies
      <4> QED BY <3>2, <4>1, Goes DEF AtIdea, AtLoss
    <3> QED BY <1>4, <3>1, <3>2 DEF Account
  <2>4. used' \in Bounds BY <1>4, Counted DEF Account
  <2>5. RowsTyped' /\ CfgTyped' /\ RestTyped' /\ OneHeld'
    BY <1>4, <2>4 DEF Account, CfgTyped, RowsTyped, RestTyped, OneHeld, Rows, rows, history, told
  <2> QED BY <2>3, <2>5
<1>5. CASE AccountNoted(p)
  <2>0. Idle.pc = "idle" BY DEF Idle
  <2>1. JobTyped' /\ JobPoints' BY <1>5, <2>0, Copies, Goes DEF AccountNoted, AtIdea, AtLoss
  <2>2. job[p].edge \in Edge BY <1>0 DEF Job
  <2>3. edge' \in Edge /\ stale' \subseteq {"cfg", "edge"} BY <1>5, <2>2, Wrote DEF AccountNoted
  <2>4. CfgTyped' BY <1>5, <2>3 DEF AccountNoted, CfgTyped
  <2>5. RowsTyped' /\ RestTyped' /\ OneHeld'
    BY <1>5, <2>3 DEF AccountNoted, RowsTyped, RestTyped, OneHeld, Rows, rows, told
  <2> QED BY <2>1, <2>4, <2>5
<1>6. CASE Pause(p)
  <2>0. Idle.pc = "idle" /\ market.loss \in 0..MaxLosses BY DEF Idle, RestTyped, Market
  <2>1. Held(p) \in Job /\ Held(p).pc \in {"idle", "blocked"} BY <2>0, Copies DEF Held
  <2>2. At(p, Work(p)) \in Job /\ At(p, Work(p)).pc \in {"scan", "list"}
    <3>1. Work(p) \in {"scan", "list"} BY DEF Work
    <3> QED BY <3>1, Copies
  <2>3. [ReadCfg(p, "pausing") EXCEPT !.i = market.loss] \in Job
    <3>1. ReadCfg(p, "pausing") \in Job BY Copies DEF AtLoss
    <3> QED BY <3>1, <2>0, Bounded DEF Job
  <2>4. /\ [ReadCfg(p, "pausing") EXCEPT !.i = market.loss].pc = "pausing"
        /\ [ReadCfg(p, "pausing") EXCEPT !.i = market.loss].i = market.loss
    <3>1. ReadCfg(p, "pausing") \in Job /\ ReadCfg(p, "pausing").pc = "pausing"
      BY Copies DEF AtLoss
    <3> QED BY <3>1 DEF Job
  <2>5. market.loss # 0 => market.loss \in 1..MaxLosses BY <2>0, Bounded
  <2>6. \E state \in Job : /\ Go(p, state)
                           /\ state.pc \in AtIdea => state.i \in Ideas
                           /\ state.pc \in AtLoss => state.i \in 1..MaxLosses
    <3>1. CASE Go(p, Held(p)) BY <3>1, <2>1 DEF AtIdea, AtLoss
    <3>2. CASE Go(p, At(p, Work(p))) BY <3>2, <2>2 DEF AtIdea, AtLoss
    <3>3. CASE market.loss # 0 /\ Go(p, [ReadCfg(p, "pausing") EXCEPT !.i = market.loss])
      BY <3>3, <2>3, <2>4, <2>5 DEF AtIdea, AtLoss
    <3> QED BY <1>6, <3>1, <3>2, <3>3 DEF Pause
  <2>7. JobTyped' /\ JobPoints' BY <2>6, Goes
  <2>8. used' \in Bounds BY <1>6, Counted DEF Pause
  <2>9. RowsTyped' /\ CfgTyped' /\ RestTyped' /\ OneHeld'
    BY <1>6, <2>8 DEF Pause, CfgTyped, RowsTyped, RestTyped, OneHeld, Rows, rows, history, told
  <2> QED BY <2>7, <2>9
<1>7. CASE PauseWrites(p)
  <2>0. job[p].i \in 1..MaxLosses BY <1>7 DEF PauseWrites, JobPoints, AtLoss
  <2>1. JobTyped' /\ JobPoints' BY <1>7, <2>0, Copies, Goes DEF PauseWrites, AtIdea, AtLoss, Same
  <2>2. [job[p].cfg EXCEPT !.paused = "yes"] \in Settings BY <1>0 DEF Job, Settings
  <2>3. cfg' \in Settings /\ stale' \subseteq {"cfg", "edge"} BY <1>7, <2>2, Wrote DEF PauseWrites
  <2>4. pauses' \in [1..MaxLosses -> Nat] BY <1>7, <2>0 DEF PauseWrites, RestTyped
  <2>5. CfgTyped' BY <1>7, <2>3 DEF PauseWrites, CfgTyped
  <2>6. RowsTyped' /\ RestTyped' /\ OneHeld'
    BY <1>7, <2>3, <2>4 DEF PauseWrites, RowsTyped, RestTyped, OneHeld, Rows, rows, told
  <2> QED BY <2>1, <2>5, <2>6
<1>8. CASE PauseAnchors(p)
  <2>0. job[p].i \in 1..MaxLosses /\ Idle.pc = "idle"
    BY <1>8 DEF PauseAnchors, JobPoints, AtLoss, Idle
  <2>1. JobTyped' /\ JobPoints' BY <1>8, <2>0, Copies, Goes DEF PauseAnchors, Held, AtIdea, AtLoss
  <2>2. [anchor |-> job[p].i, told |-> FALSE] \in Edge BY <2>0 DEF Edge
  <2>3. edge' \in Edge /\ stale' \subseteq {"cfg", "edge"} BY <1>8, <2>2, Wrote DEF PauseAnchors
  <2>4. CfgTyped' BY <1>8, <2>3 DEF PauseAnchors, CfgTyped
  <2>5. RowsTyped' /\ RestTyped' /\ OneHeld'
    BY <1>8, <2>3 DEF PauseAnchors, RowsTyped, RestTyped, OneHeld, Rows, rows, told
  <2> QED BY <2>1, <2>4, <2>5
<1>9. CASE Push(p)
  <2>0. job[p].i \in Ideas /\ Idle.pc = "idle" BY <1>9 DEF Push, JobPoints, AtIdea, Idle
  <2>1. JobTyped' /\ JobPoints' BY <1>9, <2>0, Copies, Goes DEF Push, AtIdea, AtLoss, Same
  <2>2. pushed' \in [Ideas -> Nat] /\ lost' \subseteq Ideas
    <3>1. pushed \in [Ideas -> Nat] /\ lost \subseteq Ideas BY DEF RestTyped
    <3>2. pushed[job[p].i] + 1 \in Nat BY <2>0, <3>1
    <3> QED BY <1>9, <2>0, <3>1, <3>2 DEF Push, told
  <2>3. used' \in Bounds BY <1>9, Counted DEF Push
  <2>4. RowsTyped' /\ CfgTyped' /\ RestTyped' /\ OneHeld'
    BY <1>9, <2>2, <2>3 DEF Push, CfgTyped, RowsTyped, RestTyped, OneHeld, Rows, rows, told
  <2> QED BY <2>1, <2>4
<1>10. CASE MarkSent(p)
  <2>0. job[p].i \in Ideas /\ Idle.pc = "idle" BY <1>10 DEF MarkSent, JobPoints, AtIdea, Idle
  <2>1. JobTyped' /\ JobPoints' BY <1>10, <2>0, Copies, Goes DEF MarkSent, AtIdea, AtLoss
  <2>2. sig' \in [Ideas -> Row] BY <1>10, <2>0 DEF MarkSent, RowsTyped, Row
  <2>3. track' \in [Ideas -> Track]
    <3>1. track[job[p].i] \in Track BY <2>0 DEF RowsTyped
    <3>2. Promoted(track[job[p].i]) \in Track BY <3>1 DEF Promoted, Track
    <3> QED BY <1>10, <3>2 DEF MarkSent, RowsTyped
  <2>4. OneHeld'
    <3>1. \A i \in Ideas : sig'[i].status = "held" => sig[i].status = "held"
      BY <1>10 DEF MarkSent, RowsTyped, Row
    <3> QED BY <3>1 DEF OneHeld, Rows
  <2>5. RowsTyped' /\ CfgTyped' /\ RestTyped'
    BY <1>10, <2>2, <2>3 DEF MarkSent, CfgTyped, RowsTyped, RestTyped, history, told
  <2> QED BY <2>1, <2>4, <2>5
<1> QED BY <1>1, <1>2, <1>3, <1>4, <1>5, <1>6, <1>7, <1>8, <1>9, <1>10 DEF Shared

\* Expiring rows takes them out of what is held, and leaves rows.
LEMMA ExpiringRows ==
    ASSUME RowsTyped, NEW ids
    PROVE  /\ Expiring(sig, ids) \in [Ideas -> Row]
           /\ \A i \in Ideas : Expiring(sig, ids)[i] =
                 IF i \in ids THEN [sig[i] EXCEPT !.status = "expired"] ELSE sig[i]
           /\ \A i \in Ideas : [sig[i] EXCEPT !.status = "expired"] \in Row
<1>1. \A i \in Ideas : sig[i] \in Row BY DEF RowsTyped
<1>2. \A i \in Ideas : [sig[i] EXCEPT !.status = "expired"] \in Row BY <1>1 DEF Row
<1>3. \A i \in Ideas : Expiring(sig, ids)[i] =
         IF i \in ids THEN [sig[i] EXCEPT !.status = "expired"] ELSE sig[i]
  BY DEF Expiring
<1>4. Expiring(sig, ids) \in [Ideas -> Row] BY <1>1, <1>2 DEF Expiring
<1> QED BY <1>2, <1>3, <1>4

\* What is held after an expiry was held before, and keeps its side and turn.
LEMMA ExpiringHeld ==
    ASSUME RowsTyped, NEW ids, NEW i \in Ideas
    PROVE  /\ Expiring(sig, ids)[i].status = "held" => sig[i].status = "held" /\ i \notin ids
           /\ i \in ids => Expiring(sig, ids)[i].status = "expired"
           /\ Expiring(sig, ids)[i].side = sig[i].side /\ Expiring(sig, ids)[i].flip = sig[i].flip
<1>1. sig[i] \in Row BY DEF RowsTyped
<1>2. Expiring(sig, ids)[i] = IF i \in ids THEN [sig[i] EXCEPT !.status = "expired"] ELSE sig[i]
  BY ExpiringRows
<1> QED BY <1>1, <1>2 DEF Row

\* The steps of the signals job.
LEMMA SignalsTyped ==
    ASSUME Typed, Scan \/ Blocked \/ Insert \/ InsertTrack
    PROVE  Typed'
<1> DEFINE p == "signals"
<1> USE DEF Typed
<1>0. p \in Jobs /\ job[p] \in Job /\ Idle.pc = "idle" /\ Idle \in Job BY Copies DEF JobTyped, Jobs, Idle
<1>1. CASE Scan
  <2>1. ASSUME NEW pc \in {"insert", "blocked"}, market.now \in Sides
        PROVE  /\ [At(p, pc) EXCEPT !.side = market.now, !.flip = Flipped(market.now)] \in Job
               /\ [At(p, pc) EXCEPT !.side = market.now, !.flip = Flipped(market.now)].pc = pc
    <3>1. At(p, pc) \in Job /\ At(p, pc).pc = pc BY <1>0, Copies
    <3>2. market.now \in {"long", "short"} BY <2>1, TheSides
    <3>3. Flipped(market.now) \in BOOLEAN BY DEF Flipped
    <3> HIDE DEF p
    <3> QED BY <3>1, <3>2, <3>3 DEF Job
  <2>2. \E state \in Job : Go(p, state) /\ state.pc \in {"insert", "blocked", "idle"}
    <3>1. CASE Go(p, Idle) BY <3>1, <1>0
    <3>2. CASE market.now \in Sides /\ \E pc \in {"insert", "blocked"} :
                  Go(p, [At(p, pc) EXCEPT !.side = market.now, !.flip = Flipped(market.now)])
      BY <3>2, <2>1
    <3> QED BY <1>1, <3>1, <3>2 DEF Scan
  <2>3. JobTyped' /\ JobPoints' BY <2>2, <1>0, Goes DEF AtIdea, AtLoss
  <2>4. RowsTyped' /\ CfgTyped' /\ RestTyped' /\ OneHeld'
    BY <1>1 DEF Scan, Calm, CfgTyped, RowsTyped, RestTyped, OneHeld, Rows, rows, history, told
  <2> QED BY <2>3, <2>4
<1>2. CASE Blocked
  <2>1. JobTyped' /\ JobPoints' BY <1>2, <1>0, Goes DEF Blocked, AtIdea, AtLoss
  <2>2. RowsTyped' /\ OneHeld'
    <3>1. CASE UNCHANGED rows BY <3>1 DEF rows, RowsTyped, OneHeld, Rows
    <3>2. CASE market.now \in Sides /\ \E i \in Fresh :
                /\ sig' = [sig EXCEPT ![i] = [NoSig EXCEPT !.status = "blocked", !.side = market.now]]
                /\ track' = [track EXCEPT ![i] = [kind |-> "blocked", open |-> TRUE]]
      <4>1. PICK i \in Ideas :
                /\ sig' = [sig EXCEPT ![i] = [NoSig EXCEPT !.status = "blocked", !.side = market.now]]
                /\ track' = [track EXCEPT ![i] = [kind |-> "blocked", open |-> TRUE]]
        BY <3>2 DEF Fresh
      <4>2. [NoSig EXCEPT !.status = "blocked", !.side = market.now] \in Row
        BY <3>2, TheSides DEF NoSig, Row
      <4>3. [NoSig EXCEPT !.status = "blocked", !.side = market.now].status = "blocked" BY DEF NoSig
      <4>4. RowsTyped' BY <4>1, <4>2 DEF RowsTyped, Track
      <4>5. \A j \in Ideas : sig'[j].status = "held" => sig[j].status = "held"
        BY <4>1, <4>3 DEF RowsTyped
      <4> QED BY <4>4, <4>5 DEF OneHeld, Rows
    <3> QED BY <1>2, <3>1, <3>2 DEF Blocked
  <2>3. CfgTyped' /\ RestTyped' BY <1>2 DEF Blocked, Calm, CfgTyped, RestTyped, history, told
  <2> QED BY <2>1, <2>2, <2>3
<1>3. CASE Insert
  <2>1. PICK i \in Fresh :
          /\ sig' = [Expiring(sig, Rows({"held"})) EXCEPT
                        ![i] = [status |-> "held", side |-> job[p].side,
                                recent |-> TRUE, flip |-> job[p].flip]]
          /\ IF Rows({"held"}) # {}
             THEN track' = track /\ Go(p, [At(p, "track") EXCEPT !.i = i])
             ELSE /\ track' = [track EXCEPT ![i] = HeldTrack(job[p].side)]
                  /\ Go(p, IF job[p].night THEN Idle ELSE [At(p, "push") EXCEPT !.i = i])
    BY <1>3 DEF Insert
  <2>2. i \in Ideas /\ i \in Nat BY Bounded DEF Fresh, Ideas
  <2>3. ASSUME NEW pc \in {"track", "push"}
        PROVE  /\ [At(p, pc) EXCEPT !.i = i] \in Job /\ [At(p, pc) EXCEPT !.i = i].pc = pc
               /\ [At(p, pc) EXCEPT !.i = i].i = i
    <3>1. At(p, pc) \in Job /\ At(p, pc).pc = pc BY <1>0, Copies DEF AtIdea
    <3> HIDE DEF p
    <3> QED BY <3>1, <2>2 DEF Job
  <2>4. \E state \in Job : Go(p, state) /\ (state = Idle \/ (state.pc \in {"track", "push"} /\ state.i = i))
    BY <2>1, <2>3, <1>0
  <2>5. JobTyped' /\ JobPoints' BY <2>4, <2>2, <1>0, Goes DEF AtIdea, AtLoss
  <2>6. [status |-> "held", side |-> job[p].side,
                                recent |-> TRUE, flip |-> job[p].flip] \in Row
    BY <1>0 DEF Job, Row
  <2>7. sig' \in [Ideas -> Row] BY <2>1, <2>6, ExpiringRows
  <2>8. HeldTrack(job[p].side) \in Track BY DEF HeldTrack, NoTrack, Track
  <2>9. track' \in [Ideas -> Track] BY <2>1, <2>8 DEF RowsTyped
  <2>10. \A j \in Ideas : sig'[j].status = "held" => j = i
    <3> SUFFICES ASSUME NEW j \in Ideas, sig'[j].status = "held", j # i PROVE FALSE OBVIOUS
    <3>1. sig'[j] = Expiring(sig, Rows({"held"}))[j] BY <2>1, ExpiringRows
    <3>2. sig[j].status = "held" /\ j \notin Rows({"held"}) BY <3>1, ExpiringHeld
    <3> QED BY <3>2 DEF Rows
  <2>11. OneHeld' BY <2>10 DEF OneHeld, Rows
  <2>12. CfgTyped' /\ RestTyped' BY <1>3 DEF Insert, CfgTyped, RestTyped, history, told
  <2> QED BY <2>5, <2>7, <2>9, <2>11, <2>12 DEF RowsTyped
<1>4. CASE InsertTrack
  <2>0. job[p].i \in Ideas BY <1>4, <1>0 DEF InsertTrack, JobPoints, AtIdea
  <2>1. At(p, "push") \in Job /\ At(p, "push").i = job[p].i BY <1>0, Copies DEF AtIdea, Same
  <2>2. \E state \in Job : Go(p, state) /\ (state = Idle \/ (state.i = job[p].i /\ state.pc = "push"))
    <3>1. At(p, "push").pc = "push" BY <1>0, Copies DEF AtIdea
    <3> QED BY <1>4, <2>1, <3>1, <1>0 DEF InsertTrack
  <2>3. JobTyped' /\ JobPoints' BY <2>2, <2>0, <1>0, Goes DEF AtIdea, AtLoss
  <2>4. HeldTrack(job[p].side) \in Track BY DEF HeldTrack, NoTrack, Track
  <2>5. track' \in [Ideas -> Track] BY <1>4, <2>4 DEF InsertTrack, RowsTyped
  <2>6. RowsTyped' /\ CfgTyped' /\ RestTyped' /\ OneHeld'
    BY <1>4, <2>5 DEF InsertTrack, CfgTyped, RowsTyped, RestTyped, OneHeld, Rows, history, told
  <2> QED BY <2>3, <2>6
<1> QED BY <1>1, <1>2, <1>3, <1>4

\* The steps of the morning job.
LEMMA MorningTyped ==
    ASSUME Typed, List \/ Decide
    PROVE  Typed'
<1> DEFINE p == "morning"
           held == Rows({"held"})
<1> USE DEF Typed
<1>0. p \in Jobs /\ job[p] \in Job /\ Idle.pc = "idle" /\ Idle \in Job BY Copies DEF JobTyped, Jobs, Idle
<1>1. CASE List
  <2>1. Newest(held) = held BY NewestHeld
  <2>2. sig' = Expiring(sig, {}) BY <1>1, <2>1 DEF List
  <2>3. sig' \in [Ideas -> Row] /\ \A i \in Ideas : sig'[i] = sig[i] BY <2>2, ExpiringRows
  <2>4. ASSUME NEW k \in Ideas
        PROVE  /\ [At(p, "decide") EXCEPT !.i = k] \in Job /\ [At(p, "decide") EXCEPT !.i = k].i = k
               /\ [At(p, "decide") EXCEPT !.i = k].pc = "decide"
    <3>1. At(p, "decide") \in Job /\ At(p, "decide").pc = "decide" BY <1>0, Copies DEF AtIdea
    <3>2. k \in Nat BY Bounded DEF Ideas
    <3> HIDE DEF p
    <3> QED BY <3>1, <3>2 DEF Job
  <2>5. held # {} => (CHOOSE i \in held : TRUE) \in Ideas BY DEF Rows
  <2>6. \E state \in Job : Go(p, state) /\ (state = Idle \/ (state.pc = "decide" /\ state.i \in Ideas))
    <3>1. Go(p, IF held = {} THEN Idle ELSE [At(p, "decide") EXCEPT !.i = CHOOSE i \in held : TRUE])
      BY <1>1, <2>1 DEF List, Listed
    <3>2. CASE held = {} BY <3>1, <3>2, <1>0
    <3>3. CASE held # {}
      <4> DEFINE k == CHOOSE i \in held : TRUE
      <4>1. Go(p, [At(p, "decide") EXCEPT !.i = k]) BY <3>1, <3>3
      <4>2. k \in Ideas BY <2>5, <3>3
      <4> HIDE DEF k
      <4> QED BY <4>1, <4>2, <2>4
    <3> QED BY <3>2, <3>3
  <2>7. JobTyped' /\ JobPoints' BY <2>6, <1>0, Goes DEF AtIdea, AtLoss
  <2>8. RowsTyped' BY <1>1, <2>3 DEF List, RowsTyped
  <2>9. OneHeld' BY <2>3 DEF OneHeld, Rows
  <2>10. CfgTyped' /\ RestTyped' BY <1>1 DEF List, CfgTyped, RestTyped, history, told
  <2> QED BY <2>7, <2>8, <2>9, <2>10
<1>2. CASE Decide
  <2>0. job[p].i \in Ideas BY <1>2, <1>0 DEF Decide, JobPoints, AtIdea
  <2>1. At(p, "push") \in Job /\ At(p, "push").i = job[p].i /\ At(p, "push").pc = "push"
    BY <1>0, Copies DEF AtIdea, Same
  <2>2. \E state \in Job : Go(p, state) /\ (state = Idle \/ (state.pc = "push" /\ state.i \in Ideas))
    BY <1>2, <2>0, <2>1, <1>0 DEF Decide
  <2>3. JobTyped' /\ JobPoints' BY <2>2, <1>0, Goes DEF AtIdea, AtLoss
  <2>4. /\ sig' \in [Ideas -> Row]
        /\ \A i \in Ideas : sig'[i].status = "held" => sig[i].status = "held"
    BY <1>2, ExpiringRows, ExpiringHeld DEF Decide, RowsTyped
  <2>5. RowsTyped' BY <1>2, <2>4 DEF Decide, RowsTyped
  <2>6. OneHeld' BY <2>4 DEF OneHeld, Rows
  <2>7. CfgTyped' /\ RestTyped' BY <1>2 DEF Decide, CfgTyped, RestTyped, history, told
  <2> QED BY <2>3, <2>5, <2>6, <2>7
<1> QED BY <1>1, <1>2

\* A job starts.
LEMMA StartTyped == ASSUME Typed, NEW p \in Jobs, Start(p) PROVE Typed'
<1> USE DEF Typed
<1> DEFINE state == [Idle EXCEPT !.pc = IF cfg.paused = "over" THEN "resume" ELSE Then(cfg),
                          !.cfg = cfg, !.off = ~wants, !.night = market.night]
<1>1. cfg \in Settings /\ market.night \in BOOLEAN BY DEF CfgTyped, RestTyped, Market
<1>2. (IF cfg.paused = "over" THEN "resume" ELSE Then(cfg)) \in {"resume", "clamp", "account"}
  BY DEF Then
<1>3. Idle \in Job BY Copies
<1>4. state \in Job /\ state.pc \in {"resume", "clamp", "account"} BY <1>1, <1>2, <1>3 DEF Job
<1>5. Go(p, state) BY DEF Start
<1>6. JobTyped' /\ JobPoints'
  <2> HIDE DEF state
  <2> QED BY <1>4, <1>5, Goes DEF AtIdea, AtLoss
<1>7. used' \in Bounds BY Counted DEF Start
<1>8. RowsTyped' /\ CfgTyped' /\ RestTyped' /\ OneHeld'
  BY <1>7 DEF Start, CfgTyped, RowsTyped, RestTyped, OneHeld, Rows, rows, history, told
<1> QED BY <1>6, <1>8

\* A job dies.
LEMMA DieTyped == ASSUME Typed, NEW p \in Jobs, Die(p) PROVE Typed'
<1> USE DEF Typed
<1>1. Idle \in Job /\ Idle.pc = "idle" BY Copies DEF Idle
<1>2. JobTyped' /\ JobPoints' BY <1>1, Goes DEF Die, AtIdea, AtLoss
<1>3. used' \in Bounds BY Counted DEF Die
<1>5. lost' \subseteq Ideas
  <2>1. job[p].pc = "mark" => job[p].i \in Ideas BY DEF JobPoints, AtIdea
  <2> QED BY <2>1 DEF Die, RestTyped
<1>4. RowsTyped' /\ CfgTyped' /\ RestTyped' /\ OneHeld'
  BY <1>3, <1>5 DEF Die, CfgTyped, RowsTyped, RestTyped, OneHeld, Rows, rows, history, told
<1> QED BY <1>2, <1>4

\* A job that is left alone is typed as it was.
LEMMA JobsAside == ASSUME Typed, job' = job PROVE JobTyped' /\ JobPoints'
BY DEF Typed, JobTyped, JobPoints

\* The taps of the owner.
LEMMA OwnerTyped == ASSUME Typed, Owner PROVE Typed'
<1> USE DEF Typed
<1>0. /\ own \in Listener /\ cfg \in Settings /\ edge \in Edge
      /\ FirstCfg \in Settings /\ FirstEdge \in Edge /\ NoTap \in Listener /\ NoTap.pc = "idle"
  BY Copies DEF CfgTyped, NoTap, Jobs
<1>j. JobTyped' /\ JobPoints'
  <2>1. job' = job
    BY DEF Owner, Skip, Take, TapToggle, TapRisk, ListenerNotes, Toggle, Unpause, SetRisk, Note
  <2> QED BY <2>1, JobsAside
<1>1. ASSUME NEW i \in Ideas, Skip(i) PROVE Typed'
  <2>1. sig' \in [Ideas -> Row] /\ \A j \in Ideas : sig'[j].status = "held" => sig[j].status = "held"
    BY <1>1 DEF Skip, RowsTyped, Row
  <2>2. used' \in Bounds BY <1>1, Counted DEF Skip, Tap
  <2>3. RowsTyped' /\ CfgTyped' /\ RestTyped'
    BY <1>1, <2>1, <2>2 DEF Skip, CfgTyped, RowsTyped, RestTyped, history, told
  <2>4. OneHeld' BY <2>1 DEF OneHeld, Rows
  <2> QED BY <1>j, <2>3, <2>4
<1>2. ASSUME NEW i \in Ideas, Take(i) PROVE Typed'
  <2>1. sig' \in [Ideas -> Row] /\ \A j \in Ideas : sig'[j].status = "held" => sig[j].status = "held"
    BY <1>2 DEF Take, RowsTyped, Row
  <2>2. used' \in Bounds BY <1>2, Counted DEF Take, Tap
  <2>3. market' \in Market BY <1>2 DEF Take, RestTyped, Market
  <2>4. RowsTyped' /\ CfgTyped' /\ RestTyped'
    BY <1>2, <2>1, <2>2, <2>3 DEF Take, CfgTyped, RowsTyped, RestTyped, history, told
  <2>5. OneHeld' BY <2>1 DEF OneHeld, Rows
  <2> QED BY <1>j, <2>4, <2>5
<1>3. CASE TapToggle \/ TapRisk \/ ListenerNotes
  <2>1. used' \in Bounds BY <1>3, Counted DEF TapToggle, TapRisk, ListenerNotes, Tap
  <2>2. own' \in Listener
    <3>1. ASSUME NEW pc \in {"toggle", "risk"}, ReadFor(pc) PROVE own' \in Listener
      BY <1>0, <3>1 DEF ReadFor, Listener, NoTap
    <3>2. CASE ListenerNotes BY <1>0, <3>2 DEF ListenerNotes, Listener, NoTap
    <3> QED BY <1>3, <3>1, <3>2 DEF TapToggle, TapRisk
  <2>3. RowsTyped' /\ CfgTyped' /\ RestTyped' /\ OneHeld'
    BY <1>3, <2>1, <2>2
    DEF TapToggle, TapRisk, ListenerNotes, CfgTyped, RowsTyped, RestTyped, OneHeld, Rows, rows, history, told
  <2> QED BY <1>j, <2>3
<1>4. CASE Toggle
  <2>1. [own.cfg EXCEPT !.enabled = ~@] \in Settings BY <1>0 DEF Listener, Settings
  <2>2. cfg' \in Settings /\ stale' \subseteq {"cfg", "edge"} BY <1>4, <2>1, Wrote DEF Toggle
  <2>3. own' \in Listener
    <3>1. [NoTap EXCEPT !.pc = "unpause", !.cfg = cfg'] \in Listener
      BY <1>0, <2>2 DEF NoTap, Listener
    <3> QED BY <1>4, <3>1, <1>0 DEF Toggle
  <2>4. wants' \in BOOLEAN BY <1>4, <1>0 DEF Toggle, Listener, Settings
  <2>5. RowsTyped' /\ CfgTyped' /\ RestTyped' /\ OneHeld'
    BY <1>4, <2>2, <2>3, <2>4 DEF Toggle, CfgTyped, RowsTyped, RestTyped, OneHeld, Rows, rows, told
  <2> QED BY <1>j, <2>5
<1>5. CASE Unpause
  <2>1. [own.cfg EXCEPT !.paused = "no"] \in Settings BY <1>0 DEF Listener, Settings
  <2>2. cfg' \in Settings /\ stale' \subseteq {"cfg", "edge"} BY <1>5, <2>1, Wrote DEF Unpause
  <2>3. own' \in Listener BY <1>5, <1>0 DEF Unpause, NoTap, Listener
  <2>4. RowsTyped' /\ CfgTyped' /\ RestTyped' /\ OneHeld'
    BY <1>5, <2>2, <2>3 DEF Unpause, CfgTyped, RowsTyped, RestTyped, OneHeld, Rows, rows, told
  <2> QED BY <1>j, <2>4
<1>6. CASE SetRisk
  <2>1. [own.cfg EXCEPT !.risk = "ok"] \in Settings BY <1>0 DEF Listener, Settings
  <2>2. cfg' \in Settings /\ stale' \subseteq {"cfg", "edge"} BY <1>6, <2>1, Wrote DEF SetRisk
  <2>3. RowsTyped' /\ CfgTyped' /\ RestTyped' /\ OneHeld'
    BY <1>6, <1>0, <2>2 DEF SetRisk, CfgTyped, RowsTyped, RestTyped, OneHeld, Rows, rows, told
  <2> QED BY <1>j, <2>3
<1>7. CASE Note
  <2>1. own.edge \in Edge /\ [own.edge EXCEPT !.told = TRUE] \in Edge BY <1>0 DEF Listener, Edge
  <2>2. edge' \in Edge /\ stale' \subseteq {"cfg", "edge"} BY <1>7, <2>1, Wrote DEF Note
  <2>3. RowsTyped' /\ CfgTyped' /\ RestTyped' /\ OneHeld'
    BY <1>7, <1>0, <2>2 DEF Note, CfgTyped, RowsTyped, RestTyped, OneHeld, Rows, rows, told
  <2> QED BY <1>j, <2>3
<1> QED BY <1>1, <1>2, <1>3, <1>4, <1>5, <1>6, <1>7 DEF Owner

\* The market, the clock and the track resolver.
LEMMA WorldTyped == ASSUME Typed, World PROVE Typed'
<1> USE DEF Typed
<1>j. JobTyped' /\ JobPoints' /\ edge' = edge /\ own' = own
  <2>1. job' = job /\ edge' = edge /\ own' = own
    BY DEF World, Analyse, Close, Lose, Nightfall, Lapse, Daybreak, Resolve, Age, Outside
  <2> QED BY <2>1, JobsAside
<1>m. market \in Market /\ cfg \in Settings /\ used \in Bounds BY DEF RestTyped, CfgTyped
<1>1. CASE Analyse
  <2>1. market' \in Market
    <3>1. PICK action \in Sides \cup {"flat"} :
             market' = [market EXCEPT !.now = action, !.prev = market.now]
      BY <1>1 DEF Analyse
    <3>2. market.now \in Sides \cup {"flat", "none"} BY <1>m DEF Market
    <3> QED BY <1>m, <3>1, <3>2 DEF Market
  <2>2. used' \in Bounds BY <1>1, <1>m DEF Analyse, Bounds
  <2>3. RowsTyped' /\ CfgTyped' /\ RestTyped' /\ OneHeld'
    BY <1>1, <1>j, <2>1, <2>2
    DEF Analyse, Outside, CfgTyped, RowsTyped, RestTyped, OneHeld, Rows, rows, history, told
  <2> QED BY <1>j, <2>3
<1>2. CASE Close \/ Lose \/ Nightfall \/ Daybreak
  <2>1. market' \in Market
    <3>1. CASE Lose BY <3>1, <1>m, Bounded DEF Lose, Market
    <3>2. CASE Close BY <3>2, <1>m DEF Close, Market
    <3>3. CASE Nightfall BY <3>3, <1>m DEF Nightfall, Market
    <3>4. CASE Daybreak BY <3>4, <1>m DEF Daybreak, Market
    <3> QED BY <1>2, <3>1, <3>2, <3>3, <3>4
  <2>2. used' \in Bounds BY <1>2, <1>m, Counted DEF Close, Lose, Nightfall, Daybreak
  <2>3. UNCHANGED <<rows, cfg, history, told>>
    BY <1>2 DEF Close, Lose, Nightfall, Daybreak, Outside, history
  <2>4. RowsTyped' /\ CfgTyped' /\ RestTyped' /\ OneHeld'
    BY <1>j, <2>1, <2>2, <2>3 DEF CfgTyped, RowsTyped, RestTyped, OneHeld, Rows, rows, history, told
  <2> QED BY <1>j, <2>4
<1>3. CASE Lapse
  <2>1. cfg' \in Settings BY <1>3, <1>m DEF Lapse, Settings
  <2>2. RowsTyped' /\ CfgTyped' /\ RestTyped' /\ OneHeld'
    BY <1>3, <1>j, <2>1
    DEF Lapse, Outside, CfgTyped, RowsTyped, RestTyped, OneHeld, Rows, rows, history, told
  <2> QED BY <1>j, <2>2
<1>4. ASSUME NEW i \in Ideas, Resolve(i) PROVE Typed'
  <2>1. track' \in [Ideas -> Track] BY <1>4 DEF Resolve, RowsTyped, Track
  <2>2. RowsTyped' /\ CfgTyped' /\ RestTyped' /\ OneHeld'
    BY <1>4, <1>j, <2>1 DEF Resolve, Outside, CfgTyped, RowsTyped, RestTyped, OneHeld, Rows, history, told
  <2> QED BY <1>j, <2>2
<1>5. ASSUME NEW i \in Ideas, Age(i) PROVE Typed'
  <2>1. sig' \in [Ideas -> Row] /\ \A j \in Ideas : sig'[j].status = sig[j].status
    BY <1>5 DEF Age, RowsTyped, Row
  <2>2. used' \in Bounds BY <1>5, Counted DEF Age
  <2>3. RowsTyped' /\ CfgTyped' /\ RestTyped'
    BY <1>5, <1>j, <2>1, <2>2 DEF Age, Outside, CfgTyped, RowsTyped, RestTyped, history, told
  <2>4. OneHeld' BY <2>1 DEF OneHeld, Rows
  <2> QED BY <1>j, <2>3, <2>4
<1> QED BY <1>1, <1>2, <1>3, <1>4, <1>5 DEF World

\* Every step keeps the types.
LEMMA TypedKept == ASSUME Typed, [Next]_vars PROVE Typed'
<1>1. CASE UNCHANGED vars
  BY <1>1 DEF Typed, vars, rows, history, told, RowsTyped, CfgTyped, JobTyped, JobPoints, RestTyped,
              OneHeld, Rows
<1>2. CASE Next
  BY <1>2, SharedTyped, SignalsTyped, MorningTyped, StartTyped, DieTyped, OwnerTyped, WorldTyped
  DEF Next, Morning, Signals, Step, Jobs
<1> QED BY <1>1, <1>2

\* The types of all reachable states.
LEMMA AlwaysTyped == Spec => []Typed
BY TypedFirst, TypedKept, PTL DEF Spec

\* insert_signal expires what is held before it adds its own, and nothing else holds an idea:
\* over any number of nights, lost pushes and deaths at most one idea of the symbol is held.
THEOREM OneIdeaHeld == Spec => []OneHeldPerSymbol
<1>1. ASSUME Typed PROVE OneHeldPerSymbol
  <2>1. CASE Rows({"held"}) = {} BY <2>1, FS_EmptySet DEF OneHeldPerSymbol
  <2>2. CASE Rows({"held"}) # {}
    <3>1. PICK i \in Rows({"held"}) : TRUE BY <2>2
    <3>2. Rows({"held"}) = {i} BY <1>1, <3>1, NewestHeld DEF Typed
    <3>3. Cardinality({i}) = 1 BY FS_Singleton
    <3> QED BY <3>2, <3>3 DEF OneHeldPerSymbol
  <2> QED BY <2>1, <2>2
<1> QED BY <1>1, AlwaysTyped, PTL

-----------------------------------------------------------------------------
(* How the jobs move.                                                      *)

\* Nothing new begins: a job ends or goes on with what it carried.
Follows(q) ==
    /\ job'[q].pc # "idle" => job[q].pc # "idle" /\ Kept(q, job'[q])
    /\ job'[q].off => job[q].off
    /\ job'[q].pc \in AtIdea => job[q].pc \in AtIdea /\ job'[q].i = job[q].i
    /\ job'[q].pc \in AtLoss => job[q].pc = job'[q].pc /\ job'[q].i = job[q].i
    /\ job'[q].pc = "insert" => job[q].pc = "insert"

\* The steps that only carry on.
Onward ==
    \/ \E p \in Jobs :
          Resume(p) \/ ResumeTold(p) \/ Clamp(p) \/ Account(p) \/ AccountNoted(p)
              \/ PauseAnchors(p) \/ Push(p) \/ MarkSent(p) \/ Die(p)
    \/ Blocked \/ InsertTrack \/ Decide \/ Owner \/ World

\* A step of one job that ends it or keeps what it carries.
LEMMA FollowsAlone ==
    ASSUME Typed, NEW p \in Jobs, NEW state \in Job, Go(p, state),
           \/ state = Idle
           \/ /\ job[p].pc # "idle" /\ Same(p, state) /\ state.pc # "insert" /\ state.pc \notin AtLoss
              /\ state.pc \in AtIdea => job[p].pc \in AtIdea
    PROVE  \A q \in Jobs : Follows(q)
<1>1. job'[p] = state /\ \A q \in Jobs \ {p} : job'[q] = job[q]
  BY DEF Typed, JobTyped, Go
<1>2. \A q \in Jobs \ {p} : Follows(q) BY <1>1 DEF Follows, Kept
<1>3. CASE state = Idle
  <2>1. Idle.pc = "idle" /\ Idle.off = FALSE BY DEF Idle
  <2>2. Follows(p) BY <1>1, <1>3, <2>1 DEF Follows, AtIdea, AtLoss
  <2> QED BY <1>2, <2>2
<1>4. CASE state # Idle
  <2>1. Follows(p) BY <1>1, <1>4 DEF Follows, Same, Kept
  <2> QED BY <1>2, <2>1
<1> QED BY <1>3, <1>4

\* The steps that carry on do.
LEMMA OnwardFollows == ASSUME Typed, Onward PROVE \A q \in Jobs : Follows(q)
<1>0. Idle \in Job /\ "signals" \in Jobs /\ "morning" \in Jobs BY Copies DEF Jobs
<1>1. ASSUME NEW p \in Jobs, Resume(p) PROVE \A q \in Jobs : Follows(q)
  <2>1. ReadEdge(p, "resumed") \in Job /\ ReadEdge(p, "resumed").pc = "resumed"
        /\ Same(p, ReadEdge(p, "resumed"))
    BY Copies
  <2> QED BY <1>1, <2>1, FollowsAlone DEF Resume, AtIdea, AtLoss
<1>2. ASSUME NEW p \in Jobs, ResumeTold(p) PROVE \A q \in Jobs : Follows(q)
  <2>1. Then(cfg) \in {"clamp", "account"} BY DEF Then
  <2>2. ReadCfg(p, Then(cfg)) \in Job /\ ReadCfg(p, Then(cfg)).pc \in {"clamp", "account"}
        /\ Same(p, ReadCfg(p, Then(cfg)))
    BY <2>1, Copies
  <2> QED BY <1>2, <2>2, FollowsAlone DEF ResumeTold, AtIdea, AtLoss
<1>3. ASSUME NEW p \in Jobs, Clamp(p) PROVE \A q \in Jobs : Follows(q)
  <2>1. At(p, "account") \in Job /\ At(p, "account").pc = "account" /\ Same(p, At(p, "account"))
    BY Copies
  <2> QED BY <1>3, <2>1, FollowsAlone DEF Clamp, AtIdea, AtLoss
<1>4. ASSUME NEW p \in Jobs, Account(p) PROVE \A q \in Jobs : Follows(q)
  <2> DEFINE up == ReadEdge(p, "up")
             down == ReadEdge(p, "down")
  <2>1. up \in Job /\ up.pc = "up" /\ Same(p, up) /\ down \in Job /\ down.pc = "down" /\ Same(p, down)
    BY Copies
  <2>2. market.open \in BOOLEAN BY DEF Typed, RestTyped, Market
  <2>3. job[p].pc = "account"
        /\ (Go(p, [up EXCEPT !.open = market.open]) \/ Go(p, down))
    BY <1>4 DEF Account
  <2> HIDE DEF up, down
  <2>4. [up EXCEPT !.open = market.open] \in Job /\ [up EXCEPT !.open = market.open].pc = "up"
        /\ Same(p, [up EXCEPT !.open = market.open])
    BY <2>1, <2>2 DEF Job, Same, Kept
  <2> QED BY <2>1, <2>3, <2>4, FollowsAlone DEF AtIdea, AtLoss
<1>5. ASSUME NEW p \in Jobs, AccountNoted(p) PROVE \A q \in Jobs : Follows(q)
  <2>1. At(p, "pause") \in Job /\ At(p, "pause").pc = "pause" /\ Same(p, At(p, "pause"))
    BY Copies
  <2> QED BY <1>5, <1>0, <2>1, FollowsAlone DEF AccountNoted, AtIdea, AtLoss
<1>6. ASSUME NEW p \in Jobs, PauseAnchors(p) PROVE \A q \in Jobs : Follows(q)
  <2>1. At(p, "blocked") \in Job /\ At(p, "blocked").pc = "blocked" /\ Same(p, At(p, "blocked"))
    BY Copies
  <2> QED BY <1>6, <1>0, <2>1, FollowsAlone DEF PauseAnchors, Held, AtIdea, AtLoss
<1>7. ASSUME NEW p \in Jobs, Push(p) PROVE \A q \in Jobs : Follows(q)
  <2>1. At(p, "mark") \in Job /\ At(p, "mark").pc = "mark" /\ Same(p, At(p, "mark"))
    BY Copies DEF AtIdea
  <2> QED BY <1>7, <1>0, <2>1, FollowsAlone DEF Push, AtIdea, AtLoss
<1>8. ASSUME NEW p \in Jobs, MarkSent(p) \/ Die(p) PROVE \A q \in Jobs : Follows(q)
  BY <1>8, <1>0, FollowsAlone DEF MarkSent, Die
<1>9. CASE Blocked BY <1>9, <1>0, FollowsAlone DEF Blocked
<1>10. CASE InsertTrack
  <2> DEFINE p == "signals"
  <2>1. At(p, "push") \in Job /\ At(p, "push").pc = "push" /\ Same(p, At(p, "push"))
    BY <1>0, Copies DEF AtIdea
  <2>2. job[p].pc = "track" /\ (Go(p, Idle) \/ Go(p, At(p, "push"))) BY <1>10 DEF InsertTrack
  <2> HIDE DEF p
  <2>3. p \in Jobs BY <1>0 DEF p
  <2> QED BY <1>0, <2>1, <2>2, <2>3, FollowsAlone DEF AtIdea, AtLoss
<1>11. CASE Decide
  <2> DEFINE p == "morning"
  <2>1. At(p, "push") \in Job /\ At(p, "push").pc = "push" /\ Same(p, At(p, "push"))
    BY <1>0, Copies DEF AtIdea
  <2>2. job[p].pc = "decide" /\ (Go(p, Idle) \/ Go(p, At(p, "push"))) BY <1>11 DEF Decide
  <2> HIDE DEF p
  <2>3. p \in Jobs BY <1>0 DEF p
  <2> QED BY <1>0, <2>1, <2>2, <2>3, FollowsAlone DEF AtIdea, AtLoss
<1>12. CASE Owner \/ World
  <2>1. job' = job
    BY <1>12 DEF Owner, Skip, Take, TapToggle, TapRisk, ListenerNotes, Toggle, Unpause, SetRisk, Note,
                 World, Analyse, Close, Lose, Nightfall, Lapse, Daybreak, Resolve, Age, Outside
  <2> QED BY <2>1 DEF Follows, Kept
<1> QED BY <1>1, <1>2, <1>3, <1>4, <1>5, <1>6, <1>7, <1>8, <1>9, <1>10, <1>11, <1>12 DEF Onward

\* What the other steps begin.
LEMMA StartMoves ==
    ASSUME Typed, NEW p \in Jobs, Start(p)
    PROVE  /\ \A q \in Jobs \ {p} : job'[q] = job[q]
           /\ job'[p].pc \in {"resume", "clamp", "account"} /\ job'[p].off = ~wants
<1> DEFINE pc == IF cfg.paused = "over" THEN "resume" ELSE Then(cfg)
           state == [Idle EXCEPT !.pc = pc, !.cfg = cfg, !.off = ~wants, !.night = market.night]
<1>1. pc \in {"resume", "clamp", "account"} BY DEF Then
<1>2. Go(p, state) BY DEF Start
<1>3. job' = [job EXCEPT ![p] = state] BY <1>2 DEF Go
<1>4. state.pc = pc /\ state.off = ~wants BY DEF Idle
<1> HIDE DEF state, pc
<1> QED BY <1>1, <1>3, <1>4 DEF Typed, JobTyped

\* evaluate_pause goes for a streak that is not anchored.
LEMMA PauseMoves ==
    ASSUME Typed, NEW p \in Jobs, Pause(p)
    PROVE  /\ \A q \in Jobs \ {p} : job'[q] = job[q]
           /\ job'[p].pc \in {"idle", "blocked", "scan", "list", "pausing"}
           /\ job'[p].pc = "pausing" => /\ market.loss # 0 /\ ~Anchored(market.loss)
                                        /\ job'[p].i = market.loss
           /\ job'[p].off => job[p].off
<1>1. Held(p) \in Job /\ Held(p).pc \in {"idle", "blocked"} /\ (Held(p).off => job[p].off)
  BY Copies DEF Held, Same, Kept, Idle
<1>2. At(p, Work(p)) \in Job /\ At(p, Work(p)).pc \in {"scan", "list"} /\ At(p, Work(p)).off = job[p].off
  <2>1. Work(p) \in {"scan", "list"} BY DEF Work
  <2> QED BY <2>1, Copies DEF Same, Kept
<1> DEFINE r == ReadCfg(p, "pausing")
           state == [r EXCEPT !.i = market.loss]
<1>3. r \in Job /\ r.pc = "pausing" /\ r.off = job[p].off BY Copies DEF AtLoss, Same, Kept
<1>4. state \in Job /\ state.pc = "pausing" /\ state.off = job[p].off /\ state.i = market.loss
  <2>1. market.loss \in Nat BY Bounded DEF Typed, RestTyped, Market
  <2> HIDE DEF r
  <2> QED BY <1>3, <2>1 DEF Job
<1>5. \/ Go(p, Held(p)) \/ Go(p, At(p, Work(p)))
      \/ market.loss # 0 /\ ~Anchored(market.loss) /\ Go(p, state)
  BY DEF Pause
<1> HIDE DEF state
<1> QED BY <1>1, <1>2, <1>4, <1>5, Goes DEF AtIdea, AtLoss, Typed, JobTyped, Go

\* After the row of settings comes the row of edges.
LEMMA PauseWritesMoves ==
    ASSUME Typed, NEW p \in Jobs, PauseWrites(p)
    PROVE  /\ \A q \in Jobs \ {p} : job'[q] = job[q]
           /\ job'[p].pc = "paused" /\ job'[p].i = job[p].i /\ job'[p].off = job[p].off
           /\ job'[p].edge = edge
<1>1. ReadEdge(p, "paused") \in Job /\ ReadEdge(p, "paused").pc = "paused"
      /\ Same(p, ReadEdge(p, "paused")) /\ ReadEdge(p, "paused").edge = edge
  BY Copies DEF AtLoss
<1>2. Go(p, ReadEdge(p, "paused")) BY DEF PauseWrites
<1> QED BY <1>1, <1>2 DEF Go, Typed, JobTyped, Same, Kept

\* What the scan lets through is not the same idea.
LEMMA ScanMoves ==
    ASSUME Typed, Scan
    PROVE  /\ job'["morning"] = job["morning"]
           /\ \/ job'["signals"] = Idle
              \/ /\ job'["signals"].pc \in {"insert", "blocked"} /\ market.now \in Sides
                 /\ ~SameIdea(market.now) /\ job'["signals"].off = job["signals"].off
                 /\ job'["signals"].side = market.now /\ job'["signals"].flip = Flipped(market.now)
<1> DEFINE p == "signals"
<1>0. p \in Jobs /\ "morning" \in Jobs /\ "morning" # p BY DEF Jobs
<1>1. ASSUME NEW pc \in {"insert", "blocked"}
      PROVE  LET state == [At(p, pc) EXCEPT !.side = market.now, !.flip = Flipped(market.now)]
             IN  state.pc = pc /\ state.off = job[p].off /\ state.side = market.now
                 /\ state.flip = Flipped(market.now)
  <2>1. At(p, pc) \in Job /\ At(p, pc).pc = pc /\ At(p, pc).off = job[p].off
    BY <1>0, Copies DEF Same, Kept
  <2> HIDE DEF p
  <2> QED BY <2>1 DEF Job
<1>2. \/ Go(p, Idle)
      \/ /\ market.now \in Sides /\ ~SameIdea(market.now)
         /\ \E pc \in {"insert", "blocked"} :
               Go(p, [At(p, pc) EXCEPT !.side = market.now, !.flip = Flipped(market.now)])
  BY DEF Scan
<1>3. job \in [Jobs -> Job] BY DEF Typed, JobTyped
<1>4. CASE Go(p, Idle) BY <1>0, <1>3, <1>4 DEF Go
<1>5. ASSUME NEW pc \in {"insert", "blocked"}, market.now \in Sides, ~SameIdea(market.now),
             Go(p, [At(p, pc) EXCEPT !.side = market.now, !.flip = Flipped(market.now)])
      PROVE  /\ job'["morning"] = job["morning"]
             /\ job'[p].pc = pc /\ job'[p].off = job[p].off
             /\ job'[p].side = market.now /\ job'[p].flip = Flipped(market.now)
  BY <1>0, <1>1, <1>3, <1>5 DEF Go
<1> QED BY <1>2, <1>4, <1>5

\* A fresh row is held, what was held expires, and the job takes the row in hand.
LEMMA InsertMoves ==
    ASSUME Typed, Insert
    PROVE  \E i \in Fresh :
              /\ job'["morning"] = job["morning"]
              /\ job'["signals"].off => job["signals"].off
              /\ \/ job'["signals"] = Idle
                 \/ job'["signals"].pc \in {"track", "push"} /\ job'["signals"].i = i
              /\ sig'[i] = [status |-> "held", side |-> job["signals"].side,
                            recent |-> TRUE, flip |-> job["signals"].flip]
              /\ \A j \in Ideas \ {i} : sig'[j] = Expiring(sig, Rows({"held"}))[j]
              /\ \A j \in Ideas \ {i} : track'[j] = track[j]
              /\ track'[i] \in {track[i], NoTrack, [kind |-> "held", open |-> TRUE]}
<1> DEFINE p == "signals"
<1>0. p \in Jobs /\ "morning" \in Jobs /\ "morning" # p BY DEF Jobs
<1>1. PICK i \in Fresh :
        /\ sig' = [Expiring(sig, Rows({"held"})) EXCEPT
                      ![i] = [status |-> "held", side |-> job[p].side,
                                recent |-> TRUE, flip |-> job[p].flip]]
        /\ IF Rows({"held"}) # {}
           THEN track' = track /\ Go(p, [At(p, "track") EXCEPT !.i = i])
           ELSE /\ track' = [track EXCEPT ![i] = HeldTrack(job[p].side)]
                /\ Go(p, IF job[p].night THEN Idle ELSE [At(p, "push") EXCEPT !.i = i])
  BY DEF Insert
<1>2. i \in Ideas /\ i \in Nat BY Bounded DEF Fresh, Ideas
<1>3. ASSUME NEW pc \in {"track", "push"}
      PROVE  /\ [At(p, pc) EXCEPT !.i = i].pc = pc /\ [At(p, pc) EXCEPT !.i = i].i = i
             /\ [At(p, pc) EXCEPT !.i = i].off = job[p].off
  <2>1. At(p, pc) \in Job /\ At(p, pc).pc = pc /\ At(p, pc).off = job[p].off
    BY <1>0, Copies DEF AtIdea, Same, Kept
  <2> HIDE DEF p
  <2> QED BY <2>1 DEF Job
<1>4. job \in [Jobs -> Job] /\ track \in [Ideas -> Track] /\ Idle.off = FALSE
  BY DEF Typed, JobTyped, RowsTyped, Idle
<1>5. \/ Go(p, Idle) \/ \E pc \in {"track", "push"} : Go(p, [At(p, pc) EXCEPT !.i = i]) BY <1>1
<1>6. /\ job'["morning"] = job["morning"] /\ (job'[p].off => job[p].off)
      /\ job'[p] = Idle \/ (job'[p].pc \in {"track", "push"} /\ job'[p].i = i)
  <2>1. CASE Go(p, Idle) BY <2>1, <1>0, <1>4 DEF Go
  <2>2. ASSUME NEW pc \in {"track", "push"}, Go(p, [At(p, pc) EXCEPT !.i = i])
        PROVE  /\ job'["morning"] = job["morning"] /\ (job'[p].off => job[p].off)
               /\ job'[p].pc \in {"track", "push"} /\ job'[p].i = i
    BY <2>2, <1>0, <1>3, <1>4 DEF Go
  <2> QED BY <1>5, <2>1, <2>2
<1>7. HeldTrack(job[p].side) \in {NoTrack, [kind |-> "held", open |-> TRUE]} BY DEF HeldTrack
<1>8. /\ \A j \in Ideas \ {i} : track'[j] = track[j]
      /\ track'[i] \in {track[i], NoTrack, [kind |-> "held", open |-> TRUE]}
  BY <1>1, <1>2, <1>4, <1>7
<1>9. Expiring(sig, Rows({"held"})) \in [Ideas -> Row] BY ExpiringRows DEF Typed
<1> QED BY <1>1, <1>2, <1>6, <1>8, <1>9

\* The morning job takes the idea that is held, and nothing expires.
LEMMA ListMoves ==
    ASSUME Typed, List
    PROVE  /\ UNCHANGED <<sig, track>>
           /\ job'["signals"] = job["signals"]
           /\ job'["morning"].off => job["morning"].off
           /\ \/ job'["morning"] = Idle
              \/ job'["morning"].pc = "decide" /\ job'["morning"].i \in Rows({"held"})
<1> DEFINE p == "morning"
           held == Rows({"held"})
<1>0. p \in Jobs /\ "signals" \in Jobs /\ "signals" # p BY DEF Jobs
<1>1. Newest(held) = held BY NewestHeld DEF Typed
<1>2. sig' = Expiring(sig, {}) /\ track' = track
      /\ Go(p, IF held = {} THEN Idle ELSE [At(p, "decide") EXCEPT !.i = CHOOSE i \in held : TRUE])
  BY <1>1 DEF List, Listed
<1>3. sig' = sig
  <2>1. sig' \in [Ideas -> Row] /\ sig \in [Ideas -> Row] /\ \A i \in Ideas : sig'[i] = sig[i]
    BY <1>2, ExpiringRows DEF Typed, RowsTyped
  <2> QED BY <2>1
<1>4. job \in [Jobs -> Job] /\ Idle.off = FALSE BY DEF Typed, JobTyped, Idle
<1>5. CASE held = {}
  <2>1. Go(p, Idle) BY <1>2, <1>5
  <2> QED BY <2>1, <1>0, <1>2, <1>3, <1>4 DEF Go
<1>6. CASE held # {}
  <2> DEFINE k == CHOOSE i \in held : TRUE
             state == [At(p, "decide") EXCEPT !.i = k]
  <2>1. k \in held /\ k \in Ideas BY <1>6 DEF Rows
  <2>2. Go(p, state) BY <1>2, <1>6
  <2>3. At(p, "decide") \in Job /\ At(p, "decide").pc = "decide" /\ At(p, "decide").off = job[p].off
    BY <1>0, Copies DEF AtIdea, Same, Kept
  <2> HIDE DEF k, held, p
  <2>4. state.pc = "decide" /\ state.i = k /\ state.off = job[p].off BY <2>3 DEF Job
  <2> HIDE DEF state
  <2> QED BY <1>0, <1>2, <1>3, <1>4, <2>1, <2>2, <2>4 DEF Go, p, held
<1> QED BY <1>5, <1>6

\* Every step is one that carries on or one of seven that begin something.
LEMMA StepKinds ==
    ASSUME Next
    PROVE  \/ Onward \/ Scan \/ Insert \/ List
           \/ \E p \in Jobs : Start(p) \/ Pause(p) \/ PauseWrites(p)
<1>1. "signals" \in Jobs /\ "morning" \in Jobs BY DEF Jobs
<1>2. ASSUME NEW p \in Jobs, Step(p)
      PROVE  Onward \/ \E q \in Jobs : Start(q) \/ Pause(q) \/ PauseWrites(q)
  BY <1>2 DEF Step, Shared, Onward
<1> QED BY <1>1, <1>2 DEF Next, Morning, Signals, Onward

-----------------------------------------------------------------------------
(* The switch.                                                             *)

\* What the row says is what the owner said last, and no job that runs began against it,
\* unless a whole-row write undid another.
SwitchInv == "cfg" \in stale \/ (cfg.enabled = wants /\ \A p \in Jobs : ~job[p].off)

\* A write over the row it read carries the switch with it.
LEMMA SwitchKept == ASSUME Typed, SwitchInv, [Next]_vars PROVE SwitchInv'
<1>1. SUFFICES ASSUME Next, "cfg" \notin stale' PROVE SwitchInv'
  BY DEF SwitchInv, vars, history, told
<1>2. \A read, new : WriteCfg(read, new) => /\ cfg' = new /\ read = cfg /\ "cfg" \notin stale
  <2> SUFFICES ASSUME NEW read, NEW new, WriteCfg(read, new)
               PROVE  cfg' = new /\ read = cfg /\ "cfg" \notin stale OBVIOUS
  <2> QED BY <1>1 DEF WriteCfg
<1>3. \A read, new : WriteEdge(read, new) => "cfg" \notin stale
  <2> SUFFICES ASSUME NEW read, NEW new, WriteEdge(read, new) PROVE "cfg" \notin stale OBVIOUS
  <2> QED BY <1>1 DEF WriteEdge
<1>4. cfg \in Settings /\ own \in Listener /\ job \in [Jobs -> Job] /\ wants \in BOOLEAN
  BY DEF Typed, CfgTyped, JobTyped, RestTyped
<1>5. \A p \in Jobs : job[p].off \in BOOLEAN BY <1>4 DEF Job
<1>6. "cfg" \notin stale /\ ((cfg'.enabled = cfg.enabled /\ wants' = wants) \/ cfg'.enabled = wants')
  <2>1. ASSUME NEW p \in Jobs, Resume(p) \/ Clamp(p) \/ PauseWrites(p)
        PROVE  "cfg" \notin stale /\ cfg'.enabled = cfg.enabled /\ wants' = wants
    BY <2>1, <1>2, <1>4 DEF Resume, Clamp, PauseWrites, Settings
  <2>2. ASSUME NEW p \in Jobs, ResumeTold(p) \/ AccountNoted(p) \/ PauseAnchors(p)
        PROVE  "cfg" \notin stale /\ cfg'.enabled = cfg.enabled /\ wants' = wants
    BY <2>2, <1>3 DEF ResumeTold, AccountNoted, PauseAnchors
  <2>3. ASSUME NEW p \in Jobs, Account(p) \/ Push(p) \/ MarkSent(p) \/ Die(p) \/ Start(p) \/ Pause(p)
        PROVE  "cfg" \notin stale /\ cfg'.enabled = cfg.enabled /\ wants' = wants
    BY <2>3, <1>1 DEF Account, Push, MarkSent, Die, Start, Pause, history, told
  <2>4. ASSUME Scan \/ Insert \/ List \/ Blocked \/ InsertTrack \/ Decide
        PROVE  "cfg" \notin stale /\ cfg'.enabled = cfg.enabled /\ wants' = wants
    BY <2>4, <1>1 DEF Scan, Insert, List, Blocked, InsertTrack, Decide, history, told
  <2>5. ASSUME World
        PROVE  "cfg" \notin stale /\ cfg'.enabled = cfg.enabled /\ wants' = wants
    BY <2>5, <1>1, <1>4
    DEF World, Analyse, Close, Lose, Nightfall, Lapse, Daybreak, Resolve, Age, Outside, history, told, Settings
  <2>6. ASSUME Owner
        PROVE  /\ "cfg" \notin stale
               /\ (cfg'.enabled = cfg.enabled /\ wants' = wants) \/ cfg'.enabled = wants'
    <3>1. CASE Toggle BY <3>1, <1>2, <1>4 DEF Toggle, Settings
    <3>2. CASE Unpause \/ SetRisk BY <3>2, <1>2, <1>4 DEF Unpause, SetRisk, Settings
    <3>3. CASE Note BY <3>3, <1>3 DEF Note
    <3>4. CASE \E i \in Ideas : Skip(i) \/ Take(i) BY <3>4, <1>1 DEF Skip, Take, history, told
    <3>5. CASE TapToggle \/ TapRisk \/ ListenerNotes
      BY <3>5, <1>1 DEF TapToggle, TapRisk, ListenerNotes, history, told
    <3> QED BY <2>6, <3>1, <3>2, <3>3, <3>4, <3>5 DEF Owner
  <2> QED BY <1>1, <2>1, <2>2, <2>3, <2>4, <2>5, <2>6, StepKinds DEF Onward
<1>7. \A p \in Jobs : job'[p].off => job[p].off
  <2>1. CASE Onward BY <2>1, OnwardFollows DEF Follows
  <2>2. CASE Scan BY <2>2, ScanMoves DEF Jobs, Idle
  <2>3. CASE Insert BY <2>3, InsertMoves DEF Jobs
  <2>4. CASE List BY <2>4, ListMoves DEF Jobs
  <2>5. ASSUME NEW p \in Jobs, Start(p) PROVE \A q \in Jobs : job'[q].off => job[q].off
    <3>1. cfg.enabled = wants BY <1>6 DEF SwitchInv
    <3>2. cfg.enabled BY <2>5 DEF Start, Enabled
    <3>3. job'[p].off = ~wants /\ \A q \in Jobs \ {p} : job'[q] = job[q] BY <2>5, StartMoves
    <3> QED BY <3>1, <3>2, <3>3
  <2>6. ASSUME NEW p \in Jobs, Pause(p) PROVE \A q \in Jobs : job'[q].off => job[q].off
    BY <2>6, PauseMoves
  <2>7. ASSUME NEW p \in Jobs, PauseWrites(p) PROVE \A q \in Jobs : job'[q].off => job[q].off
    BY <2>7, PauseWritesMoves
  <2> QED BY <1>1, StepKinds, <2>1, <2>2, <2>3, <2>4, <2>5, <2>6, <2>7
<1> QED BY <1>6, <1>7 DEF SwitchInv

\* After the owner switched the assistant off, no job that starts later delivers an idea,
\* unless a whole-row write of older settings brought the switch back (toggle_enabled).
THEOREM OffIsOff == Spec => OffMeansOff
<1>1. Init => SwitchInv BY DEF Init, SwitchInv, FirstCfg, Idle
<1>2. Spec => []SwitchInv BY <1>1, SwitchKept, AlwaysTyped, PTL DEF Spec
<1>3. SwitchInv => [\A p \in Jobs : Pushes(p) => ~job[p].off \/ "cfg" \in stale]_vars
  BY DEF SwitchInv
<1> QED BY <1>2, <1>3, PTL DEF OffMeansOff, Spec

-----------------------------------------------------------------------------
(* The tracks.                                                             *)

TrackOf(i) ==
    /\ sig[i].status = "none" => track[i] = NoTrack
    /\ sig[i].status = "held" => track[i].kind # "blocked"
    /\ sig[i].status = "sent" => \/ track[i].kind = "sent"
                                 \/ track[i].kind = "held" /\ ~track[i].open
\* The idea a job has in hand.
InHand(p) == job[p].pc \in AtIdea => /\ sig[job[p].i].status \notin {"none", "blocked"}
                                     /\ track[job[p].i].kind # "blocked"
TrackInv == (\A i \in Ideas : TrackOf(i)) /\ \A p \in Jobs : InHand(p)

\* At first nothing is tracked.
LEMMA TrackFirst == ASSUME Init PROVE TrackInv
BY DEF Init, TrackInv, TrackOf, InHand, NoSig, NoTrack, Idle, AtIdea

\* Rows of which no idea becomes unknown or blocked, and no track of an idea in hand blocked,
\* keep what jobs have in hand.
LEMMA HandsFollow ==
    ASSUME Typed, TrackInv, \A q \in Jobs : Follows(q),
           \A i \in Ideas : sig[i].status \notin {"none", "blocked"} /\ track[i].kind # "blocked"
                => sig'[i].status \notin {"none", "blocked"} /\ track'[i].kind # "blocked"
    PROVE  \A q \in Jobs : InHand(q)'
<1> SUFFICES ASSUME NEW q \in Jobs, job'[q].pc \in AtIdea
             PROVE  sig'[job'[q].i].status \notin {"none", "blocked"} /\ track'[job'[q].i].kind # "blocked"
  BY DEF InHand
<1>1. job[q].pc \in AtIdea /\ job'[q].i = job[q].i BY DEF Follows
<1>2. job[q].i \in Ideas BY <1>1 DEF Typed, JobPoints
<1> QED BY <1>1, <1>2 DEF TrackInv, InHand

\* A row that is sent keeps its track, a row in hand is never a blocked one.
LEMMA TrackKept == ASSUME Typed, TrackInv, [Next]_vars PROVE TrackInv'
<1>0. sig \in [Ideas -> Row] /\ track \in [Ideas -> Track] BY DEF Typed, RowsTyped
<1>1. CASE UNCHANGED vars BY <1>1 DEF vars, rows, TrackInv, TrackOf, InHand
<1>2. ASSUME UNCHANGED rows, \A q \in Jobs : Follows(q) PROVE TrackInv'
  <2>1. \A i \in Ideas : TrackOf(i)' BY <1>2 DEF rows, TrackInv, TrackOf
  <2>2. \A q \in Jobs : InHand(q)' BY <1>2, HandsFollow DEF rows
  <2> QED BY <2>1, <2>2 DEF TrackInv
<1>3. ASSUME UNCHANGED rows, NEW p \in Jobs, \A q \in Jobs \ {p} : job'[q] = job[q],
             job'[p].pc \notin AtIdea
      PROVE  TrackInv'
  <2>1. \A i \in Ideas : TrackOf(i)' BY <1>3 DEF rows, TrackInv, TrackOf
  <2>2. \A q \in Jobs : InHand(q)' BY <1>3 DEF rows, InHand, TrackInv
  <2> QED BY <2>1, <2>2 DEF TrackInv
<1>4. ASSUME NEW p \in Jobs, MarkSent(p) PROVE TrackInv'
  <2> DEFINE i == job[p].i
  <2>1. i \in Ideas /\ job[p].pc \in AtIdea BY <1>4 DEF MarkSent, Typed, JobPoints, AtIdea
  <2>2. sig[i].status \notin {"none", "blocked"} /\ track[i].kind # "blocked"
    BY <2>1 DEF TrackInv, InHand
  <2>3. sig[i] \in Row /\ track[i] \in Track BY <2>1, <1>0
  <2>4. sig' = [sig EXCEPT ![i].status = "sent"] /\ track' = [track EXCEPT ![i] = Promoted(track[i])]
    BY <1>4 DEF MarkSent
  <2>5. Promoted(track[i]).kind = "sent"
        \/ (Promoted(track[i]).kind = "held" /\ ~Promoted(track[i]).open)
    BY <2>2, <2>3 DEF Promoted, Track
  <2>6. \A q \in Jobs : Follows(q) BY <1>4, OnwardFollows DEF Onward
  <2> HIDE DEF i
  <2>7. sig'[i].status = "sent" /\ track'[i] = Promoted(track[i])
        /\ \A j \in Ideas \ {i} : sig'[j] = sig[j] /\ track'[j] = track[j]
    BY <1>0, <2>1, <2>3, <2>4 DEF Row
  <2>8. \A j \in Ideas : TrackOf(j)' BY <2>5, <2>7 DEF TrackOf, TrackInv
  <2>9. \A q \in Jobs : InHand(q)' BY <2>5, <2>6, <2>7, HandsFollow
  <2> QED BY <2>8, <2>9 DEF TrackInv
<1>5. ASSUME Blocked, ~UNCHANGED rows PROVE TrackInv'
  <2>1. PICK i \in Fresh :
           /\ sig' = [sig EXCEPT ![i] = [NoSig EXCEPT !.status = "blocked", !.side = market.now]]
           /\ track' = [track EXCEPT ![i] = [kind |-> "blocked", open |-> TRUE]]
    BY <1>5 DEF Blocked
  <2>2. i \in Ideas /\ sig[i].status = "none" BY DEF Fresh, NoSig
  <2>3. [NoSig EXCEPT !.status = "blocked", !.side = market.now].status = "blocked" BY DEF NoSig
  <2>4. sig'[i].status = "blocked" /\ \A j \in Ideas \ {i} : sig'[j] = sig[j] /\ track'[j] = track[j]
    BY <1>0, <2>1, <2>2, <2>3
  <2>5. \A q \in Jobs : Follows(q) BY <1>5, OnwardFollows DEF Onward
  <2>6. \A j \in Ideas : TrackOf(j)' BY <2>4 DEF TrackOf, TrackInv
  <2>7. \A q \in Jobs : InHand(q)' BY <2>2, <2>4, <2>5, HandsFollow
  <2> QED BY <2>6, <2>7 DEF TrackInv
<1>6. CASE Insert
  <2>1. PICK i \in Fresh :
              /\ job'["morning"] = job["morning"]
              /\ \/ job'["signals"] = Idle
                 \/ job'["signals"].pc \in {"track", "push"} /\ job'["signals"].i = i
              /\ sig'[i] = [status |-> "held", side |-> job["signals"].side,
                            recent |-> TRUE, flip |-> job["signals"].flip]
              /\ \A j \in Ideas \ {i} : sig'[j] = Expiring(sig, Rows({"held"}))[j]
              /\ \A j \in Ideas \ {i} : track'[j] = track[j]
              /\ track'[i] \in {track[i], NoTrack, [kind |-> "held", open |-> TRUE]}
    BY <1>6, InsertMoves
  <2>2. i \in Ideas /\ sig[i].status = "none" /\ track[i] = NoTrack
    BY DEF Fresh, NoSig, TrackInv, TrackOf
  <2>3. sig'[i].status = "held" /\ track'[i].kind # "blocked" BY <2>1, <2>2 DEF NoTrack
  <2>4. \A j \in Ideas \ {i} : \/ sig'[j].status = sig[j].status
                               \/ sig[j].status = "held" /\ sig'[j].status = "expired"
    <3> SUFFICES ASSUME NEW j \in Ideas \ {i}
                 PROVE  \/ sig'[j].status = sig[j].status
                        \/ sig[j].status = "held" /\ sig'[j].status = "expired"
      OBVIOUS
    <3>1. CASE j \in Rows({"held"})
      <4>1. Expiring(sig, Rows({"held"}))[j].status = "expired" BY <3>1, ExpiringHeld DEF Typed
      <4> QED BY <2>1, <3>1, <4>1 DEF Rows
    <3>2. CASE j \notin Rows({"held"})
      <4>1. Expiring(sig, Rows({"held"}))[j] = sig[j] BY <3>2, ExpiringRows DEF Typed
      <4> QED BY <2>1, <4>1
    <3> QED BY <3>1, <3>2
  <2>5. \A j \in Ideas : TrackOf(j)' BY <2>1, <2>3, <2>4 DEF TrackOf, TrackInv
  <2>6. InHand("signals")' BY <2>1, <2>3 DEF InHand, Idle, AtIdea
  <2>7. InHand("morning")'
    <3>1. CASE job["morning"].pc \in AtIdea
      <4>1. job["morning"].i \in Ideas BY <3>1 DEF Typed, JobPoints, Jobs
      <4>2. /\ sig[job["morning"].i].status \notin {"none", "blocked"}
            /\ track[job["morning"].i].kind # "blocked"
        BY <3>1 DEF TrackInv, InHand, Jobs
      <4>3. job["morning"].i # i BY <2>2, <4>2
      <4> QED BY <2>1, <2>4, <4>1, <4>2, <4>3 DEF InHand
    <3> QED BY <2>1, <3>1 DEF InHand
  <2> QED BY <2>5, <2>6, <2>7 DEF TrackInv, Jobs
<1>7. CASE InsertTrack
  <2> DEFINE p == "signals"
             i == job[p].i
  <2>1. p \in Jobs /\ i \in Ideas /\ job[p].pc \in AtIdea
    BY <1>7 DEF InsertTrack, Typed, JobPoints, AtIdea, Jobs
  <2>2. /\ sig' = sig
        /\ track' = IF track[i] = NoTrack THEN [track EXCEPT ![i] = HeldTrack(job[p].side)] ELSE track
    BY <1>7 DEF InsertTrack
  <2>3. HeldTrack(job[p].side) \in {NoTrack, [kind |-> "held", open |-> TRUE]} BY DEF HeldTrack
  <2>4. sig[i].status \notin {"none", "blocked"} BY <2>1 DEF TrackInv, InHand
  <2> HIDE DEF i, p
  <2>5. \/ track'[i] = track[i]
        \/ track[i] = NoTrack /\ track'[i] \in {NoTrack, [kind |-> "held", open |-> TRUE]}
    BY <1>0, <2>1, <2>2, <2>3
  <2>6. \A j \in Ideas \ {i} : track'[j] = track[j] BY <1>0, <2>1, <2>2
  <2>7. \A q \in Jobs : Follows(q) BY <1>7, OnwardFollows DEF Onward
  <2>8. \A j \in Ideas : TrackOf(j)'
    <3> SUFFICES ASSUME NEW j \in Ideas PROVE TrackOf(j)' OBVIOUS
    <3>1. TrackOf(j) BY DEF TrackInv
    <3>2. CASE j # i BY <2>2, <2>6, <3>1, <3>2 DEF TrackOf
    <3>3. CASE j = i BY <2>2, <2>4, <2>5, <3>1, <3>3 DEF TrackOf, NoTrack
    <3> QED BY <3>2, <3>3
  <2>11. \A q \in Jobs : InHand(q)' BY <2>2, <2>5, <2>6, <2>7, HandsFollow DEF NoTrack
  <2> QED BY <2>8, <2>11 DEF TrackInv
<1>8. CASE List
  <2>1. /\ UNCHANGED <<sig, track>> /\ job'["signals"] = job["signals"]
        /\ job'["morning"] = Idle \/ (job'["morning"].pc = "decide" /\ job'["morning"].i \in Rows({"held"}))
    BY <1>8, ListMoves
  <2>2. InHand("signals") BY DEF TrackInv, Jobs
  <2>3. InHand("signals")' BY <2>1, <2>2 DEF InHand
  <2>4. InHand("morning")' BY <2>1 DEF InHand, TrackInv, TrackOf, Rows, Idle, AtIdea
  <2> QED BY <2>1, <2>3, <2>4 DEF TrackInv, TrackOf, Jobs
<1>9. ASSUME Onward, track' = track,
             \A i \in Ideas : \/ sig'[i] = sig[i]
                              \/ sig'[i].status \in {"expired", "skipped", "taken"}
      PROVE  TrackInv'
  <2>1. \A i \in Ideas : TrackOf(i)' BY <1>9 DEF TrackOf, TrackInv
  <2>2. \A q \in Jobs : InHand(q)' BY <1>9, OnwardFollows, HandsFollow
  <2> QED BY <2>1, <2>2 DEF TrackInv
<1>10. CASE Decide
  <2>1. job["morning"].i \in Ideas BY <1>10 DEF Decide, Typed, JobPoints, AtIdea, Jobs
  <2>2. \A i \in Ideas : sig'[i] = sig[i] \/ sig'[i].status = "expired"
    <3> SUFFICES ASSUME NEW i \in Ideas PROVE sig'[i] = sig[i] \/ sig'[i].status = "expired" OBVIOUS
    <3>1. sig' = sig \/ sig' = Expiring(sig, {job["morning"].i}) BY <1>10 DEF Decide
    <3>2. ASSUME NEW ids PROVE Expiring(sig, ids)[i] = sig[i] \/ Expiring(sig, ids)[i].status = "expired"
      <4>1. CASE i \in ids BY <4>1, ExpiringHeld DEF Typed
      <4>2. CASE i \notin ids
        <5>1. Expiring(sig, ids)[i] = IF i \in ids THEN [sig[i] EXCEPT !.status = "expired"] ELSE sig[i]
          BY ExpiringRows DEF Typed
        <5> QED BY <4>2, <5>1
      <4> QED BY <4>1, <4>2
    <3>3. CASE sig' = sig BY <3>3
    <3>4. CASE sig' = Expiring(sig, {job["morning"].i}) BY <3>2, <3>4
    <3> QED BY <3>1, <3>3, <3>4
  <2> QED BY <1>9, <1>10, <2>2 DEF Onward, Decide
<1>11. ASSUME NEW i \in Ideas, Skip(i) \/ Take(i) PROVE TrackInv'
  <2>1. \A j \in Ideas : sig'[j] = sig[j] \/ sig'[j].status \in {"skipped", "taken"}
    BY <1>0, <1>11 DEF Skip, Take, Row
  <2> QED BY <1>9, <1>11, <2>1 DEF Onward, Owner, Skip, Take
<1>12. ASSUME NEW i \in Ideas, Resolve(i) PROVE TrackInv'
  <2>1. sig' = sig /\ track[i].open /\ track' = [track EXCEPT ![i].open = FALSE] /\ track[i] \in Track
    BY <1>0, <1>12 DEF Resolve
  <2>2. track'[i].kind = track[i].kind /\ ~track'[i].open /\ track[i] # NoTrack
        /\ \A j \in Ideas \ {i} : track'[j] = track[j]
    BY <1>0, <2>1 DEF Track, NoTrack
  <2>3. \A j \in Ideas : TrackOf(j)' BY <2>1, <2>2 DEF TrackOf, TrackInv
  <2>4. \A q \in Jobs : Follows(q) BY <1>12, OnwardFollows DEF Onward, World
  <2>5. \A q \in Jobs : InHand(q)' BY <2>1, <2>2, <2>4, HandsFollow
  <2> QED BY <2>3, <2>5 DEF TrackInv
<1>13. CASE Onward
  <2>f. \A q \in Jobs : Follows(q) BY <1>13, OnwardFollows
  <2>1. ASSUME NEW p \in Jobs, Resume(p) \/ ResumeTold(p) \/ Clamp(p) \/ Account(p) \/ AccountNoted(p)
                                \/ PauseAnchors(p) \/ Push(p) \/ Die(p)
        PROVE  UNCHANGED rows
    BY <2>1 DEF Resume, ResumeTold, Clamp, Account, AccountNoted, PauseAnchors, Push, Die
  <2>2. ASSUME TapToggle \/ TapRisk \/ ListenerNotes \/ Toggle \/ Unpause \/ SetRisk \/ Note
        PROVE  UNCHANGED rows
    BY <2>2 DEF TapToggle, TapRisk, ListenerNotes, Toggle, Unpause, SetRisk, Note
  <2>3. ASSUME Analyse \/ Close \/ Lose \/ Nightfall \/ Lapse \/ Daybreak PROVE UNCHANGED rows
    BY <2>3 DEF Analyse, Close, Lose, Nightfall, Lapse, Daybreak
  <2>4. CASE UNCHANGED rows BY <2>4, <2>f, <1>2
  <2>5. CASE ~UNCHANGED rows
    <3>1. \/ \E p \in Jobs : MarkSent(p)
          \/ Blocked \/ InsertTrack \/ Decide
          \/ \E i \in Ideas : Skip(i) \/ Take(i) \/ Resolve(i) \/ Age(i)
      BY <1>13, <2>1, <2>2, <2>3, <2>5 DEF Onward, Owner, World
    <3>2. ASSUME NEW i \in Ideas, Age(i) PROVE TrackInv'
      <4>1. track' = track /\ \A j \in Ideas : sig'[j].status = sig[j].status
        BY <1>0, <3>2 DEF Age, Row
      <4>2. \A j \in Ideas : TrackOf(j)' BY <4>1 DEF TrackOf, TrackInv
      <4>3. \A q \in Jobs : InHand(q)' BY <2>f, <4>1, HandsFollow
      <4> QED BY <4>2, <4>3 DEF TrackInv
    <3> QED BY <3>1, <3>2, <2>5, <1>4, <1>5, <1>7, <1>10, <1>11, <1>12
  <2> QED BY <2>4, <2>5
<1>14. CASE Scan
  <2>1. UNCHANGED rows BY <1>14 DEF Scan
  <2>2. \A q \in Jobs \ {"signals"} : job'[q] = job[q] BY <1>14, ScanMoves DEF Jobs
  <2>3. job'["signals"].pc \notin AtIdea BY <1>14, ScanMoves DEF Idle, AtIdea
  <2> QED BY <2>1, <2>2, <2>3, <1>3 DEF Jobs
<1>15. ASSUME NEW p \in Jobs, Start(p) \/ Pause(p) \/ PauseWrites(p) PROVE TrackInv'
  <2>1. UNCHANGED rows BY <1>15 DEF Start, Pause, PauseWrites
  <2>2. \A q \in Jobs \ {p} : job'[q] = job[q] BY <1>15, StartMoves, PauseMoves, PauseWritesMoves
  <2>3. job'[p].pc \notin AtIdea BY <1>15, StartMoves, PauseMoves, PauseWritesMoves DEF AtIdea
  <2> QED BY <2>1, <2>2, <2>3, <1>3
<1> QED BY StepKinds, <1>1, <1>6, <1>8, <1>13, <1>14, <1>15

\* mark_signal_sent gives every idea it marks a track, whatever became of the held one
\* between the insert and the mark.
THEOREM EverySentTracked == Spec => []SentIsTracked
<1>1. Spec => []TrackInv BY TrackFirst, TrackKept, AlwaysTyped, PTL DEF Spec
<1>2. TrackInv => SentIsTracked BY DEF TrackInv, TrackOf, SentIsTracked, Rows
<1> QED BY <1>1, <1>2, PTL

-----------------------------------------------------------------------------
(* One job at a time.                                                      *)

Alone == \A p, q \in Jobs : job[p].pc # "idle" /\ job[q].pc # "idle" => p = q

\* What happened stays noted.
LEMMA FlagsStay ==
    ASSUME Typed, [Next]_vars
    PROVE  /\ used.faults => used'.faults
           /\ used.crashes => used'.crashes
           /\ used.mixed => used'.mixed
<1>0. used \in Bounds BY DEF Typed, RestTyped
<1>1. CASE UNCHANGED used BY <1>1
<1>2. ASSUME NEW kind \in {"faults", "crashes", "mixed"}, Mishap(kind)
      PROVE  /\ used.faults => used'.faults
             /\ used.crashes => used'.crashes
             /\ used.mixed => used'.mixed
  BY <1>0, <1>2 DEF Mishap, Bounds
<1>3. CASE Event BY <1>0, <1>3 DEF Event, Bounds
<1>4. CASE Analyse BY <1>0, <1>4 DEF Analyse, Bounds
<1>5. CASE UNCHANGED vars BY <1>5 DEF vars
<1>6. ASSUME Next
      PROVE  \/ UNCHANGED used \/ Event \/ Analyse
             \/ \E kind \in {"faults", "crashes", "mixed"} : Mishap(kind)
  <2>1. ASSUME NEW p \in Jobs, Shared(p) \/ Start(p) \/ Die(p)
        PROVE  UNCHANGED used \/ \E kind \in {"faults", "crashes", "mixed"} : Mishap(kind)
    BY <2>1 DEF Shared, Resume, ResumeTold, Clamp, Account, AccountNoted, Pause, PauseWrites,
                PauseAnchors, Push, MarkSent, Start, Die, Calm, Fail
  <2>2. ASSUME List \/ Decide \/ Scan \/ Blocked \/ Insert \/ InsertTrack PROVE UNCHANGED used
    BY <2>2 DEF List, Decide, Scan, Blocked, Insert, InsertTrack, Calm
  <2>3. ASSUME Owner PROVE UNCHANGED used \/ Event
    BY <2>3 DEF Owner, Skip, Take, TapToggle, TapRisk, ListenerNotes, Toggle, Unpause, SetRisk,
                Note, Tap
  <2>4. ASSUME World PROVE UNCHANGED used \/ Event \/ Analyse
    BY <2>4 DEF World, Close, Lose, Nightfall, Lapse, Daybreak, Resolve, Age
  <2> QED BY <1>6, <2>1, <2>2, <2>3, <2>4 DEF Next, Morning, Signals, Step, Jobs
<1> QED BY <1>1, <1>2, <1>3, <1>4, <1>5, <1>6

\* Only a start brings a second job in, and it says so.
LEMMA AloneKept == ASSUME Typed, Alone, Next, ~used'.mixed PROVE Alone'
<1>2. ASSUME NEW p \in Jobs, job[p].pc # "idle", \A q \in Jobs \ {p} : job'[q] = job[q]
      PROVE  Alone'
  BY <1>2 DEF Alone
<1>3. ASSUME Onward PROVE Alone' BY <1>3, OnwardFollows DEF Alone, Follows
<1>4. ASSUME Scan PROVE Alone'
  <2>1. job["signals"].pc = "scan" BY <1>4 DEF Scan
  <2> QED BY <1>2, <1>4, <2>1, ScanMoves DEF Jobs
<1>5. ASSUME Insert PROVE Alone'
  <2>1. job["signals"].pc = "insert" BY <1>5 DEF Insert
  <2> QED BY <1>2, <1>5, <2>1, InsertMoves DEF Jobs
<1>6. ASSUME List PROVE Alone'
  <2>1. job["morning"].pc = "list" BY <1>6 DEF List
  <2> QED BY <1>2, <1>6, <2>1, ListMoves DEF Jobs
<1>7. ASSUME NEW p \in Jobs, Pause(p) \/ PauseWrites(p) PROVE Alone'
  <2>1. job[p].pc # "idle" BY <1>7 DEF Pause, PauseWrites
  <2> QED BY <1>2, <1>7, <2>1, PauseMoves, PauseWritesMoves
<1>8. ASSUME NEW p \in Jobs, Start(p) PROVE Alone'
  <2>1. \A q \in Jobs : job[q].pc = "idle"
    <3>1. \/ \A q \in Jobs : job[q].pc = "idle"
          \/ Mishap("mixed")
      BY <1>8 DEF Start
    <3>2. used \in Bounds BY DEF Typed, RestTyped
    <3>3. CASE Mishap("mixed")
      <4>1. used'.mixed = TRUE BY <3>2, <3>3 DEF Mishap, Bounds
      <4> QED BY <4>1
    <3> QED BY <3>1, <3>3
  <2> QED BY <1>8, <2>1, StartMoves DEF Alone
<1> QED BY StepKinds, <1>3, <1>4, <1>5, <1>6, <1>7, <1>8

-----------------------------------------------------------------------------
(* The losing streaks.                                                     *)

Undisturbed == "edge" \notin stale /\ ~used.crashes /\ ~used.mixed

\* The anchor is a streak that was; a streak that paused is at or below the anchor, or the
\* job that paused for it is about to anchor it; what a job pauses for is above the anchor.
StreakInv ==
    Undisturbed =>
        /\ Alone
        /\ edge.anchor <= market.loss
        /\ \A n \in 1..MaxLosses :
              /\ pauses[n] <= 1
              /\ pauses[n] > 0 => \/ n <= edge.anchor
                                  \/ \E p \in Jobs : job[p].pc = "paused" /\ job[p].i = n
        /\ \A p \in Jobs : job[p].pc \in AtLoss => /\ edge.anchor < job[p].i
                                                   /\ job[p].i <= market.loss

\* The anchor only grows, and nobody pauses for what it covers.
LEMMA StreakKept == ASSUME Typed, StreakInv, [Next]_vars PROVE StreakInv'
<1>1. CASE UNCHANGED vars
  BY <1>1 DEF vars, history, told, StreakInv, Undisturbed, Alone
<1>2. SUFFICES ASSUME Next, Undisturbed' PROVE StreakInv'
  BY <1>1 DEF StreakInv
<1>3. "edge" \notin stale
  <2>1. stale \subseteq stale'
    <3>1. UNCHANGED stale \/ \E read, new : WriteCfg(read, new) \/ WriteEdge(read, new)
      <4>1. ASSUME NEW p \in Jobs, Shared(p) \/ Start(p) \/ Die(p)
            PROVE  UNCHANGED stale \/ \E read, new : WriteCfg(read, new) \/ WriteEdge(read, new)
        BY <4>1 DEF Shared, Resume, ResumeTold, Clamp, Account, AccountNoted, Pause, PauseWrites,
                    PauseAnchors, Push, MarkSent, Start, Die, history, told
      <4>2. ASSUME List \/ Decide \/ Scan \/ Blocked \/ Insert \/ InsertTrack PROVE UNCHANGED stale
        BY <4>2 DEF List, Decide, Scan, Blocked, Insert, InsertTrack, history, told
      <4>3. ASSUME Owner
            PROVE  UNCHANGED stale \/ \E read, new : WriteCfg(read, new) \/ WriteEdge(read, new)
        BY <4>3 DEF Owner, Skip, Take, TapToggle, TapRisk, ListenerNotes, Toggle, Unpause, SetRisk,
                    Note, history, told
      <4>4. ASSUME World PROVE UNCHANGED stale
        BY <4>4 DEF World, Analyse, Close, Lose, Nightfall, Lapse, Daybreak, Resolve, Age, Outside, history, told
      <4> QED BY <1>2, <4>1, <4>2, <4>3, <4>4 DEF Next, Morning, Signals, Step, Jobs
    <3> QED BY <3>1 DEF WriteCfg, WriteEdge
  <2> QED BY <1>2, <2>1 DEF Undisturbed
<1>4. Undisturbed
  <2>1. used.crashes \in BOOLEAN /\ used.mixed \in BOOLEAN BY DEF Typed, RestTyped, Bounds
  <2> QED BY <1>2, <1>3, <2>1, FlagsStay DEF Undisturbed
<1>5. Alone' BY <1>2, <1>4, AloneKept DEF StreakInv, Undisturbed
<1>6. /\ Alone /\ edge.anchor <= market.loss
      /\ \A n \in 1..MaxLosses :
            /\ pauses[n] <= 1
            /\ pauses[n] > 0 => \/ n <= edge.anchor
                                \/ \E p \in Jobs : job[p].pc = "paused" /\ job[p].i = n
      /\ \A p \in Jobs : job[p].pc \in AtLoss => edge.anchor < job[p].i /\ job[p].i <= market.loss
  BY <1>4 DEF StreakInv
<1>7. /\ edge \in Edge /\ market \in Market /\ job \in [Jobs -> Job] /\ own \in Listener
      /\ pauses \in [1..MaxLosses -> Nat] /\ MaxLosses \in Nat /\ edge.anchor \in Nat
  BY Bounded DEF Typed, CfgTyped, JobTyped, RestTyped, Edge
<1>8. \A read, new : WriteEdge(read, new) => edge' = new /\ read = edge
  <2> SUFFICES ASSUME NEW read, NEW new, WriteEdge(read, new) PROVE edge' = new /\ read = edge OBVIOUS
  <2> QED BY <1>2 DEF WriteEdge, Undisturbed
\* Nothing but the jobs and the length of the losing row moves.
<1>9. ASSUME edge'.anchor = edge.anchor, market'.loss >= market.loss, market' \in Market, pauses' = pauses,
             \A p \in Jobs : \/ job'[p].pc = job[p].pc /\ job'[p].i = job[p].i
                             \/ job'[p].pc \notin AtLoss /\ job[p].pc # "paused"
      PROVE  StreakInv'
  <2>1. market'.loss \in Nat /\ market.loss \in Nat BY <1>7, <1>9 DEF Market
  <2>2. edge'.anchor <= market'.loss BY <1>6, <1>7, <1>9, <2>1
  <2>3. \A p \in Jobs : job'[p].pc \in AtLoss => edge'.anchor < job'[p].i /\ job'[p].i <= market'.loss
    <3> SUFFICES ASSUME NEW p \in Jobs, job'[p].pc \in AtLoss
                 PROVE  edge'.anchor < job'[p].i /\ job'[p].i <= market'.loss OBVIOUS
    <3>1. job'[p].pc = job[p].pc /\ job'[p].i = job[p].i BY <1>9
    <3>2. job[p].i \in Nat BY <1>7 DEF Job
    <3> QED BY <1>6, <1>7, <1>9, <2>1, <3>1, <3>2
  <2>4. \A n \in 1..MaxLosses :
           /\ pauses'[n] <= 1
           /\ pauses'[n] > 0 => \/ n <= edge'.anchor
                                \/ \E p \in Jobs : job'[p].pc = "paused" /\ job'[p].i = n
    BY <1>6, <1>9
  <2> QED BY <1>5, <2>2, <2>3, <2>4 DEF StreakInv
<1>10. market' \in Market BY TypedKept DEF Typed, RestTyped
<1>11. ASSUME NEW p \in Jobs, NEW state, Go(p, state)
       PROVE  job'[p] = state /\ \A q \in Jobs \ {p} : job'[q] = job[q]
  BY <1>7, <1>11 DEF Go
<1>12. CASE Onward /\ ~\E p \in Jobs : PauseAnchors(p) \/ Die(p)
  <2>1. \A q \in Jobs : job[q].pc = "paused" => job'[q] = job[q]
    <3>1. \/ job' = job \/ \E p \in Jobs : \E state : Go(p, state) /\ job[p].pc # "paused"
      <4>1. "signals" \in Jobs /\ "morning" \in Jobs BY DEF Jobs
      <4>2. ASSUME NEW p \in Jobs, Resume(p) \/ ResumeTold(p) \/ Clamp(p) \/ Account(p)
                                    \/ AccountNoted(p) \/ Push(p) \/ MarkSent(p)
            PROVE  \E state : Go(p, state) /\ job[p].pc # "paused"
        BY <4>2 DEF Resume, ResumeTold, Clamp, Account, AccountNoted, Push, MarkSent
      <4>3. ASSUME Blocked \/ InsertTrack
            PROVE  \E state : Go("signals", state) /\ job["signals"].pc # "paused"
        BY <4>3 DEF Blocked, InsertTrack
      <4>4. ASSUME Decide PROVE \E state : Go("morning", state) /\ job["morning"].pc # "paused"
        BY <4>4 DEF Decide
      <4>5. ASSUME Owner \/ World PROVE job' = job
        BY <4>5 DEF Owner, Skip, Take, TapToggle, TapRisk, ListenerNotes, Toggle, Unpause, SetRisk, Note,
                 World, Analyse, Close, Lose, Nightfall, Lapse, Daybreak, Resolve, Age, Outside
      <4> QED BY <1>12, <4>1, <4>2, <4>3, <4>4, <4>5 DEF Onward
    <3> QED BY <3>1, <1>11
  <2>2. \A q \in Jobs : \/ job'[q].pc = job[q].pc /\ job'[q].i = job[q].i
                        \/ job'[q].pc \notin AtLoss /\ job[q].pc # "paused"
    BY <2>1, <1>12, OnwardFollows DEF Follows
  <2>3. edge'.anchor = edge.anchor
    <3>1. ASSUME NEW p \in Jobs, ResumeTold(p) \/ AccountNoted(p) PROVE edge'.anchor = edge.anchor
      BY <3>1, <1>7, <1>8 DEF ResumeTold, AccountNoted, Edge
    <3>2. ASSUME Note PROVE edge'.anchor = edge.anchor BY <3>2, <1>7, <1>8 DEF Note, Edge
    <3>3. ASSUME NEW p \in Jobs, Resume(p) \/ Clamp(p) \/ Account(p) \/ Push(p) \/ MarkSent(p)
          PROVE  edge' = edge
      BY <3>3 DEF Resume, Clamp, Account, Push, MarkSent
    <3>4. ASSUME Blocked \/ InsertTrack \/ Decide PROVE edge' = edge
      BY <3>4 DEF Blocked, InsertTrack, Decide
    <3>5. ASSUME Owner, ~Note PROVE edge' = edge
      BY <3>5 DEF Owner, Skip, Take, TapToggle, TapRisk, ListenerNotes, Toggle, Unpause, SetRisk
    <3>6. ASSUME World PROVE edge' = edge
      BY <3>6 DEF World, Analyse, Close, Lose, Nightfall, Lapse, Daybreak, Resolve, Age, Outside
    <3> QED BY <1>12, <3>1, <3>2, <3>3, <3>4, <3>5, <3>6 DEF Onward
  <2>4. pauses' = pauses /\ market'.loss >= market.loss
    <3>0. market.loss \in Nat BY <1>7 DEF Market
    <3>1. ASSUME NEW p \in Jobs, Resume(p) \/ ResumeTold(p) \/ Clamp(p) \/ Account(p)
                                    \/ AccountNoted(p) \/ Push(p) \/ MarkSent(p)
          PROVE  pauses' = pauses /\ market' = market
      BY <3>1 DEF Resume, ResumeTold, Clamp, Account, AccountNoted, Push, MarkSent, history, told
    <3>2. ASSUME Blocked \/ InsertTrack \/ Decide PROVE pauses' = pauses /\ market' = market
      BY <3>2 DEF Blocked, InsertTrack, Decide, history, told
    <3>3. ASSUME Owner PROVE pauses' = pauses /\ market'.loss = market.loss
      BY <3>3, <1>7 DEF Owner, Skip, Take, TapToggle, TapRisk, ListenerNotes, Toggle, Unpause, SetRisk,
                        Note, history, told, Market
    <3>4. ASSUME World PROVE pauses' = pauses /\ market'.loss >= market.loss
      <4>1. CASE Analyse
        <5>1. PICK action \in Sides \cup {"flat"} :
                 market' = [market EXCEPT !.now = action, !.prev = market.now]
          BY <4>1 DEF Analyse
        <5> QED BY <4>1, <5>1, <3>0, <1>7 DEF Analyse, Outside, history, told, Market
      <4>2. CASE Lose BY <4>2, <3>0, <1>7 DEF Lose, Outside, history, told, Market
      <4>3. CASE Close \/ Nightfall \/ Daybreak
        <5>1. market'.loss = market.loss BY <4>3, <1>7 DEF Close, Nightfall, Daybreak, Market
        <5> QED BY <4>3, <5>1, <3>0 DEF Close, Nightfall, Daybreak, Outside, history, told
      <4>4. CASE Lapse \/ \E i \in Ideas : Resolve(i) \/ Age(i)
        BY <4>4, <3>0 DEF Lapse, Resolve, Age, Outside, history, told
      <4> QED BY <3>4, <4>1, <4>2, <4>3, <4>4 DEF World
    <3> QED BY <1>12, <3>0, <3>1, <3>2, <3>3, <3>4 DEF Onward
  <2> QED BY <1>9, <1>10, <2>2, <2>3, <2>4
<1>13. ASSUME NEW p \in Jobs, Die(p) PROVE StreakInv'
  <2>1. used \in Bounds BY DEF Typed, RestTyped
  <2>2. used'.crashes = TRUE BY <1>13, <2>1 DEF Die, Mishap, Bounds
  <2> QED BY <1>2, <2>2 DEF Undisturbed
<1>14. ASSUME NEW p \in Jobs, PauseAnchors(p) PROVE StreakInv'
  <2>1. job[p].pc = "paused" /\ UNCHANGED <<market, pauses>>
        /\ edge' = [anchor |-> job[p].i, told |-> FALSE]
    BY <1>8, <1>14 DEF PauseAnchors
  <2>2. edge.anchor < job[p].i /\ job[p].i <= market.loss /\ job[p].i \in Nat
    BY <1>6, <1>7, <2>1 DEF AtLoss, Job
  <2>3. edge'.anchor = job[p].i BY <2>1
  <2>4. \A q \in Jobs : job[q].pc = "paused" => q = p BY <1>6, <2>1 DEF Alone
  <2>5. \A q \in Jobs : job'[q].pc \notin AtLoss
    <3>1. \A q \in Jobs : Follows(q) BY <1>14, OnwardFollows DEF Onward
    <3>2. \A q \in Jobs \ {p} : job[q].pc = "idle" BY <1>6, <2>1 DEF Alone
    <3>3. job'[p].pc \notin AtLoss
      <4>1. Held(p).pc \notin AtLoss BY Copies DEF Held, Idle, AtLoss
      <4> QED BY <1>11, <1>14, <4>1 DEF PauseAnchors
    <3> QED BY <3>1, <3>2, <3>3 DEF Follows, AtLoss
  <2>6. \A n \in 1..MaxLosses : pauses'[n] <= 1 /\ (pauses'[n] > 0 => n <= edge'.anchor)
    <3> SUFFICES ASSUME NEW n \in 1..MaxLosses
                 PROVE  pauses'[n] <= 1 /\ (pauses'[n] > 0 => n <= edge'.anchor) OBVIOUS
    <3>1. pauses[n] <= 1 /\ (pauses[n] > 0 => n <= edge.anchor \/ n = job[p].i) BY <1>6, <2>4
    <3> QED BY <1>7, <2>1, <2>2, <2>3, <3>1
  <2> QED BY <1>5, <2>1, <2>2, <2>3, <2>5, <2>6 DEF StreakInv
<1>15. ASSUME NEW p \in Jobs, Pause(p) PROVE StreakInv'
  <2>1. edge' = edge /\ market' = market /\ pauses' = pauses BY <1>15 DEF Pause, history, told
  <2>2. job[p].pc = "pause" BY <1>15 DEF Pause
  <2>3. CASE job'[p].pc # "pausing"
    <3>1. job'[p].pc \notin AtLoss BY <1>15, <2>3, PauseMoves DEF AtLoss
    <3>2. market'.loss >= market.loss BY <1>7, <2>1 DEF Market
    <3> QED BY <1>9, <1>10, <1>15, <2>1, <2>2, <3>1, <3>2, PauseMoves
  <2>4. CASE job'[p].pc = "pausing"
    <3>1. job'[p].i = market.loss /\ edge.anchor # market.loss /\ \A q \in Jobs \ {p} : job'[q] = job[q]
      BY <1>15, <2>4, PauseMoves DEF Anchored
    <3>2. market.loss \in Nat BY <1>7 DEF Market
    <3>3. \A q \in Jobs \ {p} : job[q].pc = "idle" BY <1>6, <2>2 DEF Alone
    <3>4. \A q \in Jobs : job'[q].pc \in AtLoss => edge'.anchor < job'[q].i /\ job'[q].i <= market'.loss
      BY <1>6, <1>7, <2>1, <3>1, <3>2, <3>3 DEF AtLoss
    <3>5. \A n \in 1..MaxLosses : pauses'[n] <= 1 /\ (pauses'[n] > 0 => n <= edge'.anchor)
      BY <1>6, <2>1, <2>2, <3>3
    <3> QED BY <1>5, <1>6, <2>1, <3>4, <3>5 DEF StreakInv
  <2> QED BY <2>3, <2>4
<1>16. ASSUME NEW p \in Jobs, PauseWrites(p) PROVE StreakInv'
  <2> DEFINE k == job[p].i
  <2>1. edge' = edge /\ market' = market /\ pauses' = [pauses EXCEPT ![k] = @ + 1]
    BY <1>16 DEF PauseWrites
  <2>2. job[p].pc = "pausing" /\ k \in 1..MaxLosses
    BY <1>16 DEF PauseWrites, Typed, JobPoints, AtLoss
  <2>3. edge.anchor < k /\ k <= market.loss BY <1>6, <2>2 DEF AtLoss
  <2>4. \A q \in Jobs \ {p} : job[q].pc = "idle" /\ job'[q] = job[q]
    BY <1>6, <1>16, <2>2, PauseWritesMoves DEF Alone
  <2>5. job'[p].pc = "paused" /\ job'[p].i = k BY <1>16, PauseWritesMoves
  <2>6. pauses[k] = 0
    <3>1. pauses[k] \in Nat BY <1>7, <2>2
    <3>2. ~(pauses[k] > 0)
      <4>1. ~\E q \in Jobs : job[q].pc = "paused" BY <2>2, <2>4
      <4>2. ~(k <= edge.anchor) BY <1>7, <2>2, <2>3
      <4> QED BY <1>6, <2>2, <4>1, <4>2
    <3> QED BY <3>1, <3>2
  <2> HIDE DEF k
  <2>7. pauses'[k] = 1 /\ \A n \in 1..MaxLosses \ {k} : pauses'[n] = pauses[n]
    BY <1>7, <2>1, <2>2, <2>6
  <2>8. \A n \in 1..MaxLosses :
           /\ pauses'[n] <= 1
           /\ pauses'[n] > 0 => \/ n <= edge'.anchor
                                \/ \E q \in Jobs : job'[q].pc = "paused" /\ job'[q].i = n
    <3> SUFFICES ASSUME NEW n \in 1..MaxLosses
                 PROVE  /\ pauses'[n] <= 1
                        /\ pauses'[n] > 0 => \/ n <= edge'.anchor
                                             \/ \E q \in Jobs : job'[q].pc = "paused" /\ job'[q].i = n
      OBVIOUS
    <3>1. CASE n = k BY <2>5, <2>7, <3>1
    <3>2. CASE n # k
      <4>1. ~\E q \in Jobs : job[q].pc = "paused" BY <2>2, <2>4
      <4> QED BY <1>6, <2>1, <2>7, <3>2, <4>1
    <3> QED BY <3>1, <3>2
  <2>9. \A q \in Jobs : job'[q].pc \in AtLoss => edge'.anchor < job'[q].i /\ job'[q].i <= market'.loss
    BY <2>1, <2>3, <2>4, <2>5 DEF AtLoss
  <2> QED BY <1>5, <1>6, <2>1, <2>8, <2>9 DEF StreakInv
<1>17. ASSUME NEW p \in Jobs, Start(p) PROVE StreakInv'
  <2>1. edge' = edge /\ market' = market /\ pauses' = pauses /\ job[p].pc = "idle"
    BY <1>17 DEF Start, history, told
  <2>2. market'.loss >= market.loss BY <1>7, <2>1 DEF Market
  <2>3. job'[p].pc \notin AtLoss /\ \A q \in Jobs \ {p} : job'[q] = job[q]
    BY <1>17, StartMoves DEF AtLoss
  <2> QED BY <1>9, <1>10, <2>1, <2>2, <2>3
<1>18. ASSUME Scan \/ Insert \/ List PROVE StreakInv'
  <2>1. edge' = edge /\ market' = market /\ pauses' = pauses
    BY <1>18 DEF Scan, Insert, List, history, told
  <2>2. market'.loss >= market.loss BY <1>7, <2>1 DEF Market
  <2>3. \A p \in Jobs : job'[p] = job[p] \/ (job'[p].pc \notin AtLoss /\ job[p].pc # "paused")
    <3>1. CASE Scan
      <4>1. job["signals"].pc = "scan" BY <3>1 DEF Scan
      <4> QED BY <3>1, <4>1, ScanMoves DEF Idle, AtLoss, Jobs
    <3>2. CASE Insert
      <4>1. job["signals"].pc = "insert" BY <3>2 DEF Insert
      <4> QED BY <3>2, <4>1, InsertMoves DEF Idle, AtLoss, Jobs
    <3>3. CASE List
      <4>1. job["morning"].pc = "list" BY <3>3 DEF List
      <4> QED BY <3>3, <4>1, ListMoves DEF Idle, AtLoss, Jobs
    <3> QED BY <1>18, <3>1, <3>2, <3>3
  <2> QED BY <1>9, <1>10, <2>1, <2>2, <2>3
<1> QED BY <1>2, StepKinds, <1>12, <1>13, <1>14, <1>15, <1>16, <1>17, <1>18

\* evaluate_pause pauses once for a losing streak, unless a job died between the two rows,
\* the two jobs overlapped or an older copy of the edges was put back.
THEOREM OnePausePerStreak == Spec => []StreakPausesOnce
<1>1. Init => StreakInv
  BY Bounded DEF Init, StreakInv, Alone, FirstEdge, Idle, AtLoss
<1>2. Spec => []StreakInv BY <1>1, StreakKept, AlwaysTyped, PTL DEF Spec
<1>3. StreakInv => StreakPausesOnce BY DEF StreakInv, Undisturbed, StreakPausesOnce
<1> QED BY <1>2, <1>3, PTL

-----------------------------------------------------------------------------
(* What the owner sees.                                                    *)

Seen == {"sent", "taken", "skipped"}

\* The owner was shown idea i, by a job that went on to note it.
Noted(i) == pushed[i] > 0 /\ i \notin lost

\* No recent idea of this side was shown, beside i.
NewBeside(side, i) == \A j \in Ideas \ {i} : Noted(j) /\ sig[j].recent => sig[j].side # side
Apart(i) == sig[i].flip \/ NewBeside(sig[i].side, i)

\* While the jobs keep out of each other's way: what was shown has been noted, or the job that
\* showed it is about to note it; no idea is held but the one in hand; and an idea that is
\* held or in hand is of a new side or was found at a turn, as is one that is about to be held.
SeenInv ==
    ~used.mixed =>
        /\ Alone
        /\ \A i \in Ideas : Noted(i) => \/ sig[i].status \in Seen
                                        \/ \E p \in Jobs : job[p].pc = "mark" /\ job[p].i = i
        /\ \A i \in Ideas : sig[i].status = "held" => Apart(i)
        /\ \A p \in Jobs :
              /\ job[p].pc \in AtIdea =>
                    /\ Apart(job[p].i)
                    /\ \A i \in Ideas : sig[i].status = "held" => i = job[p].i
              /\ job[p].pc \in AtIdea \ {"mark"} => ~Noted(job[p].i)
              /\ job[p].pc = "insert" =>
                    job[p].flip \/ \A i \in Ideas : Noted(i) /\ sig[i].recent => sig[i].side # job[p].side

\* The jobs carry on, nothing new is shown, and what is held, in hand or shown keeps its side
\* and its turn and grows no younger.
Quiet ==
    /\ \A q \in Jobs : \/ Follows(q) /\ (job'[q].pc = "mark" <=> job[q].pc = "mark")
                       \/ /\ job'[q].pc \notin AtIdea \cup {"insert"}
                          /\ \A i \in Ideas : job[q].pc = "mark" /\ job[q].i = i => ~Noted(i)'
    /\ \A i \in Ideas : /\ Noted(i)' => Noted(i)
                        /\ sig'[i].status = "held" => sig[i].status = "held"
                        /\ Noted(i)' /\ sig[i].status \in Seen => sig'[i].status \in Seen
    /\ \A i \in Ideas :
          Noted(i) \/ sig[i].status = "held" \/ (\E q \in Jobs : job[q].pc \in AtIdea /\ job[q].i = i) =>
             /\ sig'[i].side = sig[i].side /\ sig'[i].flip = sig[i].flip
             /\ sig'[i].recent => sig[i].recent

\* A quiet step keeps the invariant.
LEMMA QuietSeen ==
    ASSUME Typed, SeenInv, ~used.mixed, Quiet, Alone'
    PROVE  SeenInv'
<1>1. /\ \A i \in Ideas : Noted(i) => \/ sig[i].status \in Seen
                                      \/ \E p \in Jobs : job[p].pc = "mark" /\ job[p].i = i
      /\ \A i \in Ideas : sig[i].status = "held" => Apart(i)
      /\ \A p \in Jobs :
            /\ job[p].pc \in AtIdea =>
                  /\ Apart(job[p].i)
                  /\ \A i \in Ideas : sig[i].status = "held" => i = job[p].i
            /\ job[p].pc \in AtIdea \ {"mark"} => ~Noted(job[p].i)
            /\ job[p].pc = "insert" =>
                  job[p].flip \/ \A i \in Ideas : Noted(i) /\ sig[i].recent => sig[i].side # job[p].side
      /\ \A p \in Jobs : job[p].pc \in AtIdea => job[p].i \in Ideas
  BY DEF SeenInv, Typed, JobPoints
<1>2. \A i \in Ideas : Noted(i)' /\ sig'[i].recent =>
                          Noted(i) /\ sig[i].recent /\ sig'[i].side = sig[i].side
  BY DEF Quiet
<1>3. ASSUME NEW i \in Ideas, Apart(i), sig'[i].side = sig[i].side, sig'[i].flip = sig[i].flip
      PROVE  Apart(i)'
  BY <1>2, <1>3 DEF Apart, NewBeside
<1>4. \A i \in Ideas : sig'[i].status = "held" => Apart(i)'
  BY <1>1, <1>3 DEF Quiet
<1>5. \A i \in Ideas : Noted(i)' => \/ sig'[i].status \in Seen
                                    \/ \E p \in Jobs : job'[p].pc = "mark" /\ job'[p].i = i
  <2> SUFFICES ASSUME NEW i \in Ideas, Noted(i)'
               PROVE  \/ sig'[i].status \in Seen
                      \/ \E p \in Jobs : job'[p].pc = "mark" /\ job'[p].i = i
    OBVIOUS
  <2>1. Noted(i) BY DEF Quiet
  <2>2. CASE sig[i].status \in Seen BY <2>2 DEF Quiet
  <2>3. ASSUME NEW p \in Jobs, job[p].pc = "mark", job[p].i = i
        PROVE  job'[p].pc = "mark" /\ job'[p].i = i
    BY <2>3 DEF Quiet, Follows, AtIdea
  <2> QED BY <1>1, <2>1, <2>2, <2>3
<1>6. ASSUME NEW p \in Jobs, NEW k \in Ideas, job'[p].pc \in AtIdea, job'[p].i = k
      PROVE  /\ Apart(k)'
             /\ \A i \in Ideas : sig'[i].status = "held" => i = k
             /\ job'[p].pc # "mark" => ~Noted(k)'
  <2>1. Follows(p) /\ (job'[p].pc = "mark" <=> job[p].pc = "mark") BY <1>6 DEF Quiet
  <2>2. job[p].pc \in AtIdea /\ job[p].i = k BY <1>6, <2>1 DEF Follows
  <2>3. Apart(k) /\ (job[p].pc # "mark" => ~Noted(k)) BY <1>1, <2>2
  <2>4. sig'[k].side = sig[k].side /\ sig'[k].flip = sig[k].flip BY <2>2 DEF Quiet
  <2>5. \A i \in Ideas : sig'[i].status = "held" => i = k BY <1>1, <2>2 DEF Quiet
  <2>6. Noted(k)' => Noted(k) BY DEF Quiet
  <2>7. Apart(k)' BY <1>3, <2>3, <2>4
  <2> QED BY <2>1, <2>3, <2>5, <2>6, <2>7
<1>7. ASSUME NEW p \in Jobs, job'[p].pc = "insert"
      PROVE  job'[p].flip \/ \A i \in Ideas : Noted(i)' /\ sig'[i].recent => sig'[i].side # job'[p].side
  <2>1. job[p].pc = "insert" /\ job'[p].flip = job[p].flip /\ job'[p].side = job[p].side
    BY <1>7 DEF Quiet, Follows, Kept
  <2> QED BY <1>1, <1>2, <2>1
<1>8. \A p \in Jobs : job'[p].pc \in AtIdea => job'[p].i \in Ideas
  <2> SUFFICES ASSUME NEW p \in Jobs, job'[p].pc \in AtIdea PROVE job'[p].i \in Ideas OBVIOUS
  <2>1. job[p].pc \in AtIdea /\ job'[p].i = job[p].i BY DEF Quiet, Follows
  <2> QED BY <1>1, <2>1
<1> QED BY <1>4, <1>5, <1>6, <1>7, <1>8 DEF SeenInv, Apart, NewBeside, Noted

\* What is shown, what is noted and what is held stay in step.
LEMMA SeenKept == ASSUME Typed, SeenInv, [Next]_vars PROVE SeenInv'
<1>1. CASE UNCHANGED vars
  BY <1>1 DEF vars, rows, history, told, SeenInv, Alone, Apart, NewBeside, Noted
<1>2. SUFFICES ASSUME Next, ~used'.mixed PROVE SeenInv'
  BY <1>1 DEF SeenInv
<1>3. ~used.mixed
  <2>1. used.mixed \in BOOLEAN BY DEF Typed, RestTyped, Bounds
  <2> QED BY <1>2, <2>1, FlagsStay
<1>4. Alone /\ Alone' BY <1>2, <1>3, AloneKept DEF SeenInv
<1>5. /\ \A i \in Ideas : Noted(i) => \/ sig[i].status \in Seen
                                      \/ \E p \in Jobs : job[p].pc = "mark" /\ job[p].i = i
      /\ \A i \in Ideas : sig[i].status = "held" => Apart(i)
      /\ \A p \in Jobs :
            /\ job[p].pc \in AtIdea =>
                  /\ Apart(job[p].i)
                  /\ \A i \in Ideas : sig[i].status = "held" => i = job[p].i
            /\ job[p].pc \in AtIdea \ {"mark"} => ~Noted(job[p].i)
            /\ job[p].pc = "insert" =>
                  job[p].flip \/ \A i \in Ideas : Noted(i) /\ sig[i].recent => sig[i].side # job[p].side
  BY <1>3 DEF SeenInv
<1>6. /\ sig \in [Ideas -> Row] /\ job \in [Jobs -> Job] /\ pushed \in [Ideas -> Nat]
      /\ \A p \in Jobs : job[p].pc \in AtIdea => job[p].i \in Ideas
      /\ lost \subseteq Ideas
  BY DEF Typed, RowsTyped, JobTyped, RestTyped, JobPoints
\* While a job is at work and does not note, all that was shown has been noted.
<1>7. ASSUME NEW p \in Jobs, job[p].pc \notin {"idle", "mark"}
      PROVE  /\ \A i \in Ideas : Noted(i) => sig[i].status \in Seen
             /\ \A q \in Jobs \ {p} : job[q].pc = "idle"
  BY <1>4, <1>5, <1>7 DEF Alone
<1>8. ASSUME NEW p \in Jobs, NEW state, Go(p, state)
      PROVE  job'[p] = state /\ \A q \in Jobs \ {p} : job'[q] = job[q]
  BY <1>6, <1>8 DEF Go
\* A step that shows nothing and moves no row.
<1>10. ASSUME UNCHANGED <<sig, told>>,
              \A q \in Jobs : \/ Follows(q) /\ (job'[q].pc = "mark" <=> job[q].pc = "mark")
                              \/ job'[q].pc \notin AtIdea \cup {"insert"} /\ job[q].pc # "mark"
       PROVE  SeenInv'
  <2>1. \A i \in Ideas : Noted(i)' <=> Noted(i) BY <1>10 DEF Noted, told
  <2>2. Quiet BY <1>10, <2>1 DEF Quiet
  <2> QED BY <1>3, <1>4, <2>2, QuietSeen
\* A job that was not at work on an idea, and is not now.
<1>11. ASSUME NEW p \in Jobs, UNCHANGED <<sig, told>>, job[p].pc \notin AtIdea,
              job'[p].pc \notin AtIdea \cup {"insert"}, \A q \in Jobs \ {p} : job'[q] = job[q]
       PROVE  SeenInv'
  <2>1. \A q \in Jobs \ {p} : Follows(q) /\ (job'[q].pc = "mark" <=> job[q].pc = "mark")
    BY <1>11 DEF Follows, Kept
  <2>2. job[p].pc # "mark" BY <1>11 DEF AtIdea
  <2> QED BY <1>10, <1>11, <2>1, <2>2
<1>12. ASSUME NEW p \in Jobs, Resume(p) \/ ResumeTold(p) \/ Clamp(p) \/ Account(p) \/ AccountNoted(p)
                                 \/ PauseAnchors(p)
       PROVE  SeenInv'
  <2>1. UNCHANGED <<sig, told>> /\ job[p].pc \notin AtIdea /\ job[p].pc # "insert"
    BY <1>12 DEF Resume, ResumeTold, Clamp, Account, AccountNoted, PauseAnchors, rows, history, AtIdea
  <2>2. \E state : Go(p, state)
    BY <1>12 DEF Resume, ResumeTold, Clamp, Account, AccountNoted, PauseAnchors
  <2>3. Follows(p) BY <1>12, OnwardFollows DEF Onward
  <2>4. job'[p].pc \notin AtIdea \cup {"insert"} BY <2>1, <2>3 DEF Follows
  <2> QED BY <1>8, <1>11, <2>1, <2>2, <2>4
<1>13. ASSUME NEW p \in Jobs, Pause(p) \/ PauseWrites(p) \/ Start(p) PROVE SeenInv'
  <2>1. UNCHANGED <<sig, told>> /\ job[p].pc \notin AtIdea
    BY <1>13 DEF Pause, PauseWrites, Start, rows, history, AtIdea
  <2>2. job'[p].pc \notin AtIdea \cup {"insert"} /\ \A q \in Jobs \ {p} : job'[q] = job[q]
    BY <1>13, PauseMoves, PauseWritesMoves, StartMoves DEF AtIdea
  <2> QED BY <1>11, <2>1, <2>2
\* A job that dies, or whose message is lost or refused, shows nothing that is noted.
<1>14. ASSUME NEW p \in Jobs, NEW k \in Ideas, Go(p, Idle), UNCHANGED sig,
              \A i \in Ideas \ {k} : Noted(i)' <=> Noted(i),
              Noted(k)' => Noted(k) /\ (job[p].pc = "mark" => job[p].i # k),
              job[p].pc = "mark" => job[p].i = k
       PROVE  SeenInv'
  <2>1. \A q \in Jobs \ {p} : Follows(q) /\ (job'[q].pc = "mark" <=> job[q].pc = "mark")
    BY <1>8, <1>14 DEF Follows, Kept
  <2>2. job'[p].pc \notin AtIdea \cup {"insert"} BY <1>8, <1>14 DEF Idle, AtIdea
  <2>3. \A i \in Ideas : job[p].pc = "mark" /\ job[p].i = i => ~Noted(i)' BY <1>14
  <2>4. Quiet BY <1>14, <2>1, <2>2, <2>3 DEF Quiet
  <2> QED BY <1>3, <1>4, <2>4, QuietSeen
<1>15. ASSUME NEW p \in Jobs, Die(p) PROVE SeenInv'
  <2>1. UNCHANGED <<sig, pushed>> /\ Go(p, Idle)
        /\ lost' = IF job[p].pc = "mark" THEN lost \cup {job[p].i} ELSE lost
    BY <1>15 DEF Die, rows
  <2>2. CASE job[p].pc = "mark"
    <3>1. PICK k \in Ideas : k = job[p].i BY <1>6, <2>2 DEF AtIdea
    <3>2. ~Noted(k)' /\ \A i \in Ideas \ {k} : Noted(i)' <=> Noted(i) BY <2>1, <2>2, <3>1 DEF Noted
    <3> QED BY <1>14, <2>1, <3>1, <3>2
  <2>3. CASE job[p].pc # "mark"
    <3>1. UNCHANGED told BY <2>1, <2>3 DEF told
    <3>2. job'[p].pc \notin AtIdea \cup {"insert"} BY <1>8, <2>1 DEF Idle, AtIdea
    <3>3. \A q \in Jobs \ {p} : Follows(q) /\ (job'[q].pc = "mark" <=> job[q].pc = "mark")
      BY <1>8, <2>1 DEF Follows, Kept
    <3> QED BY <1>10, <2>1, <2>3, <3>1, <3>2, <3>3
  <2> QED BY <2>2, <2>3
<1>16. ASSUME NEW p \in Jobs, Push(p) PROVE SeenInv'
  <2>1. PICK k \in Ideas : k = job[p].i BY <1>6, <1>16 DEF Push, AtIdea
  <2>2. job[p].pc = "push" /\ sig' = sig /\ ~Noted(k) /\ Apart(k)
        /\ \A i \in Ideas : sig[i].status = "held" => i = k
    BY <1>5, <1>16, <2>1 DEF Push, rows, AtIdea
  <2>3. CASE pushed' = [pushed EXCEPT ![k] = @ + 1] /\ lost' = lost \cup {k} /\ Go(p, Idle)
    <3>1. ~Noted(k)' /\ \A i \in Ideas \ {k} : Noted(i)' <=> Noted(i) BY <1>6, <2>3 DEF Noted
    <3> QED BY <1>14, <2>2, <2>3, <3>1
  <2>4. CASE UNCHANGED told /\ Go(p, Idle)
    <3>1. \A i \in Ideas : Noted(i)' <=> Noted(i) BY <2>4 DEF Noted, told
    <3> QED BY <1>14, <2>2, <2>4, <3>1
  <2>5. CASE pushed' = [pushed EXCEPT ![k] = @ + 1] /\ lost' = lost /\ Go(p, At(p, "mark"))
    <3>1. \A i \in Ideas \ {k} : Noted(i)' <=> Noted(i) BY <1>6, <2>5 DEF Noted
    <3>2. /\ job'[p].pc = "mark" /\ job'[p].i = k
          /\ \A q \in Jobs \ {p} : job'[q] = job[q] /\ job[q].pc = "idle"
      <4>1. At(p, "mark").pc = "mark" /\ At(p, "mark").i = k BY <2>1, Copies DEF AtIdea, Same
      <4>2. \A q \in Jobs \ {p} : job[q].pc = "idle" BY <1>7, <2>2
      <4> QED BY <1>8, <2>5, <4>1, <4>2
    <3>3. \A i \in Ideas : Noted(i)' => \/ sig'[i].status \in Seen
                                        \/ \E q \in Jobs : job'[q].pc = "mark" /\ job'[q].i = i
      <4> SUFFICES ASSUME NEW i \in Ideas, Noted(i)', i # k PROVE sig'[i].status \in Seen
        BY <3>2
      <4>1. Noted(i) BY <3>1
      <4> QED BY <1>7, <2>2, <4>1
    <3>4. Apart(k)' BY <2>2, <3>1 DEF Apart, NewBeside
    <3>5. \A q \in Jobs : /\ job'[q].pc \in AtIdea => job'[q].pc = "mark" /\ job'[q].i = k
                          /\ job'[q].pc # "insert"
      BY <3>2 DEF AtIdea
    <3>6. \A i \in Ideas : sig'[i].status = "held" => i = k BY <2>2
    <3> QED BY <1>4, <3>3, <3>4, <3>5, <3>6 DEF SeenInv, Apart, NewBeside, Noted
  <2> QED BY <1>16, <2>1, <2>3, <2>4, <2>5 DEF Push
<1>17. ASSUME NEW p \in Jobs, MarkSent(p) PROVE SeenInv'
  <2>1. PICK k \in Ideas : k = job[p].i BY <1>6, <1>17 DEF MarkSent, AtIdea
  <2>2. /\ job[p].pc = "mark" /\ Go(p, Idle) /\ pushed' = pushed /\ lost' = lost \ {k}
        /\ sig' = [sig EXCEPT ![k].status = "sent"]
        /\ \A i \in Ideas : sig[i].status = "held" => i = k
    BY <1>5, <1>17, <2>1 DEF MarkSent, AtIdea
  <2>3. \A q \in Jobs : job'[q].pc = "idle" /\ (q # p => job[q].pc = "idle")
    <3>1. \A q \in Jobs \ {p} : job[q].pc = "idle" BY <1>4, <2>2 DEF Alone
    <3> QED BY <1>8, <2>2, <3>1 DEF Idle
  <2>4. sig'[k].status = "sent" /\ \A j \in Ideas \ {k} : sig'[j] = sig[j]
    BY <1>6, <2>2 DEF Row
  <2>5. \A i \in Ideas : Noted(i)' => sig'[i].status \in Seen
    <3> SUFFICES ASSUME NEW i \in Ideas, Noted(i)', i # k PROVE sig'[i].status \in Seen
      BY <2>4 DEF Seen
    <3>1. Noted(i) BY <2>2 DEF Noted
    <3>2. sig[i].status \in Seen \/ \E q \in Jobs : job[q].pc = "mark" /\ job[q].i = i
      BY <1>5, <3>1
    <3>3. ~\E q \in Jobs : job[q].pc = "mark" /\ job[q].i = i BY <2>1, <2>3
    <3> QED BY <2>4, <3>2, <3>3
  <2>6. \A i \in Ideas : sig'[i].status # "held" BY <2>2, <2>4
  <2> QED BY <1>4, <2>3, <2>5, <2>6 DEF SeenInv, AtIdea
<1>18. CASE Scan
  <2>0. "signals" \in Jobs BY DEF Jobs
  <2>1. job["signals"].pc = "scan" /\ UNCHANGED <<sig, told>> BY <1>18 DEF Scan, rows, history
  <2>2. \A q \in Jobs \ {"signals"} : job'[q] = job[q] BY <1>18, ScanMoves DEF Jobs
  <2>3. CASE job'["signals"].pc # "insert"
    <3>1. job'["signals"].pc \notin AtIdea \cup {"insert"} BY <1>18, <2>3, ScanMoves DEF AtIdea, Idle
    <3> QED BY <1>11, <2>0, <2>1, <2>2, <3>1 DEF AtIdea
  <2>4. CASE job'["signals"].pc = "insert"
    <3>1. /\ ~SameIdea(market.now) /\ job'["signals"].side = market.now
          /\ job'["signals"].flip = Flipped(market.now)
      BY <1>18, <2>4, ScanMoves DEF Idle
    <3>2. /\ \A i \in Ideas : Noted(i) => sig[i].status \in Seen
          /\ \A q \in Jobs \ {"signals"} : job[q].pc = "idle"
      BY <1>7, <2>0, <2>1
    <3>3. \A i \in Ideas : Noted(i)' <=> Noted(i) BY <2>1 DEF Noted, told
    <3>4. \/ job'["signals"].flip
          \/ \A i \in Ideas : Noted(i)' /\ sig'[i].recent => sig'[i].side # job'["signals"].side
      <4>1. CASE Flipped(market.now) BY <3>1, <4>1
      <4>2. CASE ~Flipped(market.now)
        <5>1. \A i \in Rows(Seen) : sig[i].recent => sig[i].side # market.now
          BY <3>1, <4>2 DEF SameIdea, Seen
        <5> QED BY <2>1, <3>1, <3>2, <3>3, <5>1 DEF Rows
      <4> QED BY <4>1, <4>2
    <3>5. \A q \in Jobs : job'[q].pc \in {"idle", "insert"} /\ (job'[q].pc = "insert" => q = "signals")
      BY <2>2, <2>4, <3>2
    <3>6. \A i \in Ideas : Noted(i)' => sig'[i].status \in Seen BY <2>1, <3>2, <3>3
    <3>7. \A i \in Ideas : sig'[i].status = "held" => Apart(i)'
      BY <1>5, <2>1, <3>3 DEF Apart, NewBeside
    <3> QED BY <1>4, <3>4, <3>5, <3>6, <3>7 DEF SeenInv, AtIdea
  <2> QED BY <2>3, <2>4
<1>19. CASE Blocked
  <2>0. "signals" \in Jobs BY DEF Jobs
  <2>1. job["signals"].pc = "blocked" /\ UNCHANGED told /\ Go("signals", Idle)
    BY <1>19 DEF Blocked, history
  <2>2. \A q \in Jobs : job'[q].pc = "idle" /\ (q # "signals" => job[q].pc = "idle")
    BY <1>7, <1>8, <2>0, <2>1 DEF Idle
  <2>3. CASE sig' = sig
    <3>1. \A q \in Jobs \ {"signals"} : job'[q] = job[q] BY <1>8, <2>0, <2>1
    <3> QED BY <1>11, <2>0, <2>1, <2>2, <2>3, <3>1 DEF AtIdea
  <2>4. CASE sig' # sig
    <3>1. PICK i \in Fresh :
             sig' = [sig EXCEPT ![i] = [NoSig EXCEPT !.status = "blocked", !.side = market.now]]
      BY <1>19, <2>4 DEF Blocked, rows
    <3>2. i \in Ideas /\ sig[i].status = "none" BY DEF Fresh, NoSig
    <3>3. ~Noted(i) BY <1>7, <2>0, <2>1, <3>2 DEF Seen
    <3>4. [NoSig EXCEPT !.status = "blocked", !.side = market.now].status = "blocked" BY DEF NoSig
    <3>5. sig'[i].status = "blocked" /\ \A j \in Ideas \ {i} : sig'[j] = sig[j]
      BY <1>6, <3>1, <3>2, <3>4
    <3>6. \A j \in Ideas : Noted(j)' <=> Noted(j) BY <2>1 DEF Noted, told
    <3>7. \A q \in Jobs : job[q].pc \notin AtIdea BY <2>1, <2>2 DEF AtIdea
    <3>8. \A q \in Jobs : job'[q].pc \notin AtIdea \cup {"insert"} /\ job[q].pc # "mark"
      BY <2>2, <3>7 DEF AtIdea
    <3>9. Quiet BY <3>2, <3>3, <3>5, <3>6, <3>7, <3>8 DEF Quiet
    <3> QED BY <1>3, <1>4, <3>9, QuietSeen
  <2> QED BY <2>3, <2>4
<1>20. CASE Insert
  <2>0. "signals" \in Jobs BY DEF Jobs
  <2>1. PICK i \in Fresh :
          /\ job'["morning"] = job["morning"]
          /\ \/ job'["signals"] = Idle
             \/ job'["signals"].pc \in {"track", "push"} /\ job'["signals"].i = i
          /\ sig'[i] = [status |-> "held", side |-> job["signals"].side,
                        recent |-> TRUE, flip |-> job["signals"].flip]
          /\ \A j \in Ideas \ {i} : sig'[j] = Expiring(sig, Rows({"held"}))[j]
    BY <1>20, InsertMoves
  <2>2. job["signals"].pc = "insert" /\ UNCHANGED told BY <1>20 DEF Insert, history
  <2>3. /\ \A j \in Ideas : Noted(j) => sig[j].status \in Seen
        /\ \A q \in Jobs \ {"signals"} : job[q].pc = "idle"
    BY <1>7, <2>0, <2>2
  <2>4. i \in Ideas /\ sig[i].status = "none" BY DEF Fresh, NoSig
  <2>5. \A j \in Ideas : Noted(j)' <=> Noted(j) BY <2>2 DEF Noted, told
  <2>6. ~Noted(i) /\ ~Noted(i)' BY <2>3, <2>4, <2>5 DEF Seen
  <2>7. \A q \in Jobs : \/ job'[q].pc = "idle"
                        \/ job'[q].pc \in {"track", "push"} /\ job'[q].i = i
    BY <2>1, <2>3 DEF Jobs, Idle
  <2>8. ASSUME NEW j \in Ideas \ {i}
        PROVE  sig'[j].status # "held" /\ (sig[j].status \in Seen => sig'[j] = sig[j])
    <3>1. sig'[j].status = "held" => sig[j].status = "held" /\ j \notin Rows({"held"})
      BY <2>1, ExpiringHeld DEF Typed
    <3>2. sig[j].status \in Seen => j \notin Rows({"held"}) BY DEF Rows, Seen
    <3>3. sig'[j] = IF j \in Rows({"held"}) THEN [sig[j] EXCEPT !.status = "expired"] ELSE sig[j]
      BY <2>1, ExpiringRows DEF Typed
    <3> QED BY <3>1, <3>2, <3>3 DEF Rows
  <2>9. \A j \in Ideas : Noted(j)' => sig[j].status \in Seen /\ sig'[j] = sig[j] /\ j # i
    BY <2>3, <2>5, <2>6, <2>8
  <2>10. Apart(i)'
    <3>1. sig'[i].flip = job["signals"].flip /\ sig'[i].side = job["signals"].side BY <2>1
    <3>2. \/ job["signals"].flip
          \/ \A j \in Ideas : Noted(j) /\ sig[j].recent => sig[j].side # job["signals"].side
      BY <1>5, <2>0, <2>2
    <3> QED BY <2>5, <2>9, <3>1, <3>2 DEF Apart, NewBeside
  <2>11. \A j \in Ideas : sig'[j].status = "held" => j = i BY <2>8
  <2>12. \A q \in Jobs : job'[q].pc \in AtIdea => job'[q].pc # "mark" /\ job'[q].i = i
    BY <2>7 DEF AtIdea
  <2>13. \A q \in Jobs : job'[q].pc # "insert" BY <2>7
  <2> QED BY <1>4, <2>6, <2>9, <2>10, <2>11, <2>12, <2>13 DEF SeenInv, Apart, NewBeside, Noted
<1>21. CASE InsertTrack
  <2>0. "signals" \in Jobs BY DEF Jobs
  <2>1. job["signals"].pc = "track" /\ UNCHANGED <<sig, told>> BY <1>21 DEF InsertTrack, history
  <2>2. \A q \in Jobs : Follows(q) BY <1>21, OnwardFollows DEF Onward
  <2>3. (\A q \in Jobs \ {"signals"} : job'[q] = job[q]) /\ job'["signals"].pc # "mark"
    <3>1. Go("signals", Idle) \/ Go("signals", At("signals", "push")) BY <1>21 DEF InsertTrack
    <3>2. Idle.pc # "mark" /\ At("signals", "push").pc # "mark" BY <2>0, Copies DEF Idle, AtIdea
    <3> QED BY <1>8, <2>0, <3>1, <3>2
  <2> QED BY <1>10, <2>1, <2>2, <2>3
<1>22. CASE List
  <2>0. "morning" \in Jobs /\ Jobs \ {"morning"} = {"signals"} BY DEF Jobs
  <2>1. /\ sig' = sig /\ job'["signals"] = job["signals"]
        /\ job'["morning"] = Idle \/ (job'["morning"].pc = "decide" /\ job'["morning"].i \in Rows({"held"}))
    BY <1>22, ListMoves
  <2>2. job["morning"].pc = "list" /\ UNCHANGED told BY <1>22 DEF List, history
  <2>3. /\ \A j \in Ideas : Noted(j) => sig[j].status \in Seen
        /\ \A q \in Jobs \ {"morning"} : job[q].pc = "idle"
    BY <1>7, <2>0, <2>2
  <2>4. CASE job'["morning"] = Idle
    <3>1. job'["morning"].pc \notin AtIdea \cup {"insert"} BY <2>4 DEF Idle, AtIdea
    <3> QED BY <1>11, <2>0, <2>1, <2>2, <3>1 DEF AtIdea
  <2>5. CASE job'["morning"] # Idle
    <3>1. PICK k \in Ideas : job'["morning"].i = k /\ sig[k].status = "held" BY <2>1, <2>5 DEF Rows
    <3>2. job'["morning"].pc = "decide" BY <2>1, <2>5
    <3>3. \A j \in Ideas : Noted(j)' <=> Noted(j) BY <2>2 DEF Noted, told
    <3>4. ~Noted(k) /\ ~Noted(k)' BY <2>3, <3>1, <3>3 DEF Seen
    <3>5. \A j \in Ideas : sig'[j].status = "held" => j = k
      BY <2>1, <3>1 DEF Typed, OneHeld, Rows
    <3>6. Apart(k)' BY <1>5, <2>1, <3>1, <3>3 DEF Apart, NewBeside
    <3>7. \A q \in Jobs : job'[q].pc = "idle" \/ (job'[q].pc = "decide" /\ job'[q].i = k)
      BY <2>0, <2>1, <2>3, <3>1, <3>2
    <3>8. \A q \in Jobs : /\ job'[q].pc \in AtIdea => job'[q].pc # "mark" /\ job'[q].i = k
                          /\ job'[q].pc # "insert"
      BY <3>7 DEF AtIdea
    <3>9. \A j \in Ideas : Noted(j)' => sig'[j].status \in Seen BY <2>1, <2>3, <3>3
    <3> QED BY <1>4, <3>4, <3>5, <3>6, <3>8, <3>9 DEF SeenInv, Apart, NewBeside, Noted
  <2> QED BY <2>4, <2>5
<1>23. CASE Decide
  <2>0. "morning" \in Jobs BY DEF Jobs
  <2>1. job["morning"].pc = "decide" /\ UNCHANGED told BY <1>23 DEF Decide, history
  <2>2. \A q \in Jobs : Follows(q) BY <1>23, OnwardFollows DEF Onward
  <2>3. (\A q \in Jobs \ {"morning"} : job'[q] = job[q]) /\ job'["morning"].pc # "mark"
    <3>1. Go("morning", Idle) \/ Go("morning", At("morning", "push")) BY <1>23 DEF Decide
    <3>2. Idle.pc # "mark" /\ At("morning", "push").pc # "mark" BY <2>0, Copies DEF Idle, AtIdea
    <3> QED BY <1>8, <2>0, <3>1, <3>2
  <2>4. CASE sig' = sig BY <1>10, <2>1, <2>2, <2>3, <2>4
  <2>5. CASE sig' = Expiring(sig, {job["morning"].i}) /\ Go("morning", Idle)
    <3>1. PICK k \in Ideas : k = job["morning"].i BY <1>6, <2>0, <2>1 DEF AtIdea
    <3>2. ~Noted(k) BY <1>5, <2>0, <2>1, <3>1 DEF AtIdea
    <3>3. \A j \in Ideas : Noted(j)' <=> Noted(j) BY <2>1 DEF Noted, told
    <3>4. /\ sig'[k].status = "expired" /\ sig'[k].side = sig[k].side /\ sig'[k].flip = sig[k].flip
          /\ \A j \in Ideas \ {k} : sig'[j] = sig[j]
          /\ sig'[k].recent => sig[k].recent
      <4>1. sig'[k] = [sig[k] EXCEPT !.status = "expired"] /\ \A j \in Ideas \ {k} : sig'[j] = sig[j]
        BY <2>5, <3>1, ExpiringRows DEF Typed
      <4> QED BY <1>6, <4>1 DEF Row
    <3>5. \A q \in Jobs : Follows(q) /\ (job'[q].pc = "mark" <=> job[q].pc = "mark") BY <2>1, <2>2, <2>3
    <3>6. Quiet BY <3>2, <3>3, <3>4, <3>5 DEF Quiet
    <3> QED BY <1>3, <1>4, <3>6, QuietSeen
  <2> QED BY <1>23, <2>4, <2>5 DEF Decide
\* What the owner and the world do to a row.
<1>24. ASSUME UNCHANGED <<job, told>>,
              \A i \in Ideas : /\ sig'[i].side = sig[i].side /\ sig'[i].flip = sig[i].flip
                               /\ sig'[i].recent => sig[i].recent
                               /\ sig'[i].status = sig[i].status \/ sig'[i].status \in Seen
       PROVE  SeenInv'
  <2>1. \A i \in Ideas : Noted(i)' <=> Noted(i) BY <1>24 DEF Noted, told
  <2>2. \A q \in Jobs : Follows(q) /\ (job'[q].pc = "mark" <=> job[q].pc = "mark")
    BY <1>24 DEF Follows, Kept
  <2>3. Quiet BY <1>24, <2>1, <2>2 DEF Quiet, Seen
  <2> QED BY <1>3, <1>4, <2>3, QuietSeen
<1>25. CASE Owner
  <2>1. ASSUME NEW i \in Ideas, Skip(i) \/ Take(i) PROVE SeenInv'
    BY <1>6, <1>24, <2>1 DEF Skip, Take, Row, Seen, history
  <2>2. CASE ~\E i \in Ideas : Skip(i) \/ Take(i)
    <3>1. UNCHANGED <<job, told, sig>>
      BY <1>25, <2>2 DEF Owner, TapToggle, TapRisk, ListenerNotes, Toggle, Unpause, SetRisk, Note, rows, history
    <3> QED BY <1>24, <3>1
  <2> QED BY <2>1, <2>2
<1>26. CASE World
  <2>1. ASSUME NEW i \in Ideas, Age(i) PROVE SeenInv'
    BY <1>6, <1>24, <2>1 DEF Age, Row, Outside, history
  <2>2. CASE ~\E i \in Ideas : Age(i)
    <3>1. UNCHANGED <<job, told, sig>>
      BY <1>26, <2>2 DEF World, Analyse, Close, Lose, Nightfall, Lapse, Daybreak, Resolve, Outside, rows, history
    <3> QED BY <1>24, <3>1
  <2> QED BY <2>1, <2>2
<1> QED BY <1>2, StepKinds, <1>12, <1>13, <1>15, <1>16, <1>17, <1>18, <1>19, <1>20, <1>21, <1>22, <1>23,
           <1>25, <1>26 DEF Onward

\* recent_same_idea keeps the owner from being shown a side again in its 24 hours without a
\* turn, through nights, deaths, failed messages and his own taps: unless the two jobs
\* overlapped, or the job that showed him the earlier idea failed before it could note so.
THEOREM SeenOnce == Spec => IdeaSeenOnce
<1>1. Init => SeenInv BY DEF Init, SeenInv, Alone, NoSig, Idle, Noted, AtIdea
<1>2. Spec => []SeenInv BY <1>1, SeenKept, AlwaysTyped, PTL DEF Spec
<1>3. ASSUME SeenInv, Typed
      PROVE  [\A p \in Jobs : Pushes(p) /\ ~used.mixed =>
                \/ sig[job[p].i].flip
                \/ \A i \in Ideas : pushed[i] > 0 /\ i \notin lost /\ sig[i].recent =>
                       sig[i].side # sig[job[p].i].side]_vars
  <2>1. SUFFICES ASSUME NEW p \in Jobs, Pushes(p), ~used.mixed, ~sig[job[p].i].flip
                 PROVE  \A i \in Ideas : pushed[i] > 0 /\ i \notin lost /\ sig[i].recent =>
                            sig[i].side # sig[job[p].i].side
    OBVIOUS
  <2>2. job[p].pc = "push" BY <2>1 DEF Pushes
  <2>3. ~Noted(job[p].i) /\ Apart(job[p].i) BY <1>3, <2>1, <2>2 DEF SeenInv, AtIdea
  <2> QED BY <2>1, <2>3 DEF Apart, NewBeside, Noted
<1> QED BY <1>2, <1>3, AlwaysTyped, PTL DEF IdeaSeenOnce, Spec
=============================================================================
