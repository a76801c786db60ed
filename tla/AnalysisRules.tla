---------------------------- MODULE AnalysisRules ----------------------------
(***************************************************************************)
(* What a closed bar is taken for (src/jarvise_analyze): the live rule     *)
(* with its confirmation by a higher timeframe, the strategies of the      *)
(* replay, and the ranking of symbols for the owner.  Pure functions of    *)
(* stored bars.                                                            *)
(*                                                                         *)
(* A bar has a time (bar, where it opens), a low, a high, a close and      *)
(* indicators; all but the time may be absent, so each is a set of at most *)
(* one element.  Prices are integers of some small unit, half an ATR is a  *)
(* whole number of them; an RSI is an integer.  Confidence is in           *)
(* hundredths, size in 1/100 of what RiskGate counts in (a product is not  *)
(* rounded).  An analysis carries all its id is the hash of.               *)
(***************************************************************************)
EXTENDS RiskGate, Sequences

BASE_SIZE_PCT == 15000                  \* 1.5 percent
MAX_SIZE_PCT  == 20000                  \* 2 percent
DONCHIAN_LOOKBACK      == 20
DONCHIAN_EXIT_LOOKBACK == 10
DONCHIAN_CONFIDENCE    == 75

The(present) == CHOOSE x \in present : TRUE
AtLeast(x, least) == IF x < least THEN least ELSE x

Ready(c) ==
    /\ c.close # {} /\ c.atr # {} /\ c.ema20 # {} /\ c.ema200 # {}
    /\ The(c.close) > 0

\* The side on which the averages are stacked.
Stack(c) ==
    IF The(c.ema20) > The(c.ema200) THEN "long"
    ELSE IF The(c.ema20) < The(c.ema200) THEN "short" ELSE "flat"

\* The momentum contradicts the stack.
_rsi_conflicts(side, rsi) == \E r \in rsi : (side = "long" /\ r < 30) \/ (side = "short" /\ r > 70)

_trend_confidence(side, rsi) ==
    LET Within(long, short) == \E r \in rsi : r \in IF side = "long" THEN long ELSE short
    IN  IF Within(45..70, 30..55) THEN 75
        ELSE IF _rsi_conflicts(side, rsi) THEN 25
        ELSE IF \E r \in rsi : IF side = "long" THEN r > 75 ELSE r < 25 THEN 50
        ELSE 60

Regime(c) ==
    IF ~Ready(c) THEN "chaotic"
    ELSE IF 100 * The(c.atr) >= 5 * The(c.close) /\ _rsi_conflicts(Stack(c), c.rsi) THEN "chaotic"
    ELSE IF 1000 * Distance(The(c.ema20), The(c.ema200)) < 15 * The(c.close) THEN "range"
    ELSE IF Stack(c) = "long" THEN "trend_up" ELSE "trend_down"

Lean(regime) == IF regime = "trend_up" THEN "long" ELSE IF regime = "trend_down" THEN "short" ELSE "flat"

\* The close is on the wrong side of the fast average.
AgainstEma20(c, side) ==
    IF side = "long" THEN The(c.close) < The(c.ema20) ELSE The(c.close) > The(c.ema20)

Confidence(c) ==
    LET regime == Regime(c)
        side   == Lean(regime)
        trend  == _trend_confidence(side, c.rsi)
    IN  IF ~Ready(c) THEN 10
        ELSE IF regime = "chaotic" THEN 25
        ELSE IF regime = "range" THEN 40
        ELSE IF AgainstEma20(c, side) THEN AtLeast(trend - 10, 5) ELSE trend

StopOf(c, side) ==
    LET gap == (3 * The(c.atr)) \div 2
    IN  IF side = "long" THEN The(c.close) - gap ELSE The(c.close) + gap

SizeOf(confidence) == AtMost((BASE_SIZE_PCT * confidence) \div 100, MAX_SIZE_PCT)

_result(c, regime, action, confidence) ==
    [bar |-> c.bar, regime |-> regime, confidence |-> confidence, action |-> action,
     stop |-> IF action = "flat" THEN {} ELSE {StopOf(c, action)},
     size |-> IF action = "flat" THEN 0 ELSE SizeOf(confidence), forced |-> "no"]

analyze_snapshot(c, threshold) ==
    LET acts == Confidence(c) >= threshold
    IN  _result(c, Regime(c), IF acts THEN Lean(Regime(c)) ELSE "flat", Confidence(c))

\* The id is hashed again, with the reason; regime and confidence stay.
_force_flat(a, reason) ==
    [a EXCEPT !.action = "flat", !.size = 0, !.stop = {}, !.forced = reason]

\* The higher bar is asked for its regime only, neither for its confidence nor for its age.
analyze_mtf(c, higher, threshold) ==
    LET a == analyze_snapshot(c, threshold)
        regime == Regime(The(higher))
    IN  IF higher = {} THEN _force_flat(a, "htf_missing")
        ELSE IF a.action = "flat" \/ a.action = Lean(regime) THEN a
        ELSE _force_flat(a, IF regime = "range" THEN "htf_range" ELSE "htf_conflict")

-----------------------------------------------------------------------------
(* Which higher bar is asked.  Bars are sorted by their time, lasting each *)
(* as long as the next is away.                                            *)

\* The live callers take the last bar that is stored.
load_latest_candle(bars) == IF bars = <<>> THEN {} ELSE {bars[Len(bars)]}

\* The replay takes, of the bars whose slow average is stored, the last that had closed by then.
closed_htf_candle(bars, at, lasting) ==
    LET closed == {i \in DOMAIN bars : bars[i].ema200 # {} /\ bars[i].bar + lasting <= at}
    IN  {bars[i] : i \in {j \in closed : \A k \in closed : k <= j}}

\* What the live callers make of the last bar, the safety gate aside.
AnalyzeLatest(bars, higher, mtf, threshold) ==
    IF mtf THEN analyze_mtf(bars[Len(bars)], load_latest_candle(higher), threshold)
    ELSE analyze_snapshot(bars[Len(bars)], threshold)

-----------------------------------------------------------------------------
(* The strategies of the replay.                                           *)

_trend_long(c) ==
    LET a == analyze_snapshot(c, CONFIDENCE_THRESHOLD)
    IN  IF a.action = "short" THEN _result(c, a.regime, "flat", a.confidence) ELSE a

\* The n bars before the last one.
Before(history, n) == {history[i] : i \in {j \in DOMAIN history : j < Len(history) /\ j >= Len(history) - n}}

AboveChannel(history) ==
    LET bars == Before(history, DONCHIAN_LOOKBACK)
    IN  \A b \in bars : \E high \in b.high : The(history[Len(history)].close) > high

\* A low that is missing ends the position as well.
BelowChannel(history) ==
    LET bars == Before(history, DONCHIAN_EXIT_LOOKBACK)
    IN  \/ \E b \in bars : b.low = {}
        \/ \A b \in bars : The(history[Len(history)].close) < The(b.low)

_donchian_long(history, side) ==
    LET c == history[Len(history)]
        warm == /\ Len(history) > DONCHIAN_LOOKBACK
                /\ \E x \in c.close : x > 0
                /\ \E x \in c.atr : x > 0
    IN  IF warm /\ IF side = "long" THEN ~BelowChannel(history) ELSE AboveChannel(history)
        THEN _result(c, "trend_up", "long", DONCHIAN_CONFIDENCE)
        ELSE _result(c, "range", "flat", 0)

decide(name, history, side) ==
    CASE name = "current"       -> analyze_snapshot(history[Len(history)], CONFIDENCE_THRESHOLD)
      [] name = "trend_long"    -> _trend_long(history[Len(history)])
      [] name = "donchian_long" -> _donchian_long(history, side)

-----------------------------------------------------------------------------
(* The ranking of symbols, in tenths of a point.  The latest analysis and  *)
(* the latest bar are read one after the other, and either may be missing. *)

NoAnalysis == [action |-> "flat", regime |-> "unknown", confidence |-> 0]
NoBar      == [close |-> {}, ema20 |-> {}, ema200 |-> {}]

RegimePoints == [trend_up |-> 150, trend_down |-> 150, range |-> 80, chaotic |-> 20, unknown |-> 0]

\* The confidence over 0.85, of 30 points, rounded to a tenth (half up: exact ties do not occur).
ConfidencePoints(confidence) == AtMost((600 * confidence + 85) \div 170, 300)

AlignmentPoints(a, c) ==
    LET close == The(c.close)
        fast  == The(c.ema20)
        slow  == The(c.ema200)
    IN  IF c.close = {} \/ c.ema20 = {} THEN 0
        ELSE IF c.ema200 = {} THEN 40
        ELSE IF \/ a.action = "long"  /\ close > fast /\ fast > slow
                \/ a.action = "short" /\ close < fast /\ fast < slow THEN 100
        ELSE IF \/ a.regime = "trend_up"   /\ close > fast
                \/ a.regime = "trend_down" /\ close < fast THEN 70
        ELSE 40

HealthPoints(h) ==
    IF h.ready > 0 THEN IF h.gaps = 0 THEN 100 ELSE 60
    ELSE IF h.rows > 0 THEN 30 ELSE 0

Score(a, c, h) ==
    (IF a.action = "flat" THEN 80 ELSE 350) + ConfidencePoints(a.confidence)
        + RegimePoints[a.regime] + AlignmentPoints(a, c) + HealthPoints(h)

evaluate_symbol_suitability(analysis, candle, health) ==
    Score(IF analysis = {} THEN NoAnalysis ELSE The(analysis),
          IF candle = {} THEN NoBar ELSE The(candle), health)

Grade(score) ==
    IF score >= 800 THEN "high" ELSE IF score >= 650 THEN "medium_high"
    ELSE IF score >= 500 THEN "moderate" ELSE "low"
=============================================================================
