------------------------------- MODULE RiskGate -------------------------------
(***************************************************************************)
(* What stands between a signal and an order: the risk caps, the kill      *)
(* switch and the market-safety gate (src/jarvise_risk).  Pure functions   *)
(* over the account, the book, the settings and the latest snapshots; the  *)
(* paper desk calls them when it enqueues, approves and marks.             *)
(*                                                                         *)
(* Money and prices are integers of some small unit.  Percentages, and the *)
(* equity an order takes, are in hundredths of a percent.  A value that    *)
(* may be absent is a set of at most one element.                          *)
(***************************************************************************)
EXTENDS Integers, FiniteSets, FiniteSetsExt

Whole == 10000                          \* hundredths of a percent in the whole
HARD_MAX_RISK_PER_TRADE_PCT == 100
CONFIDENCE_THRESHOLD == 55              \* of the analyses, in hundredths

Directions == {"long", "short"}
Distance(a, b) == IF a < b THEN b - a ELSE a - b
NotNegative(x) == IF x < 0 THEN 0 ELSE x
AtMost(x, most) == IF x > most THEN most ELSE x

-----------------------------------------------------------------------------
(* A setting lives in Redis, which all processes share, and in the         *)
(* environment of each process.                                            *)

\* A stored text: nothing, something that is no number, or a number.
Text == [kind : {"blank", "bad", "number"}, value : Int]
Number(x) == [kind |-> "number", value |-> x]

PctCaps == {"drawdown_lock_pct", "max_gross_notional_pct", "max_symbol_notional_pct",
            "max_correlated_bucket_pct"}

\* Redis is configured and answers.
Answers(redis) == redis.url /\ redis.up

_fenv(env, default) == IF env.kind = "number" THEN env.value ELSE default

\* What Redis does not tell, the environment does.
_read_cap_float(redis, env, default) ==
    IF Answers(redis) /\ redis.text.kind = "number" THEN redis.text.value ELSE _fenv(env, default)

max_risk_per_trade_pct(redis, env) ==
    LET raw == IF Answers(redis) /\ redis.text.kind # "blank" THEN redis.text ELSE env
    IN  AtMost(NotNegative(_fenv(raw, HARD_MAX_RISK_PER_TRADE_PCT)), HARD_MAX_RISK_PER_TRADE_PCT)

Clamped(name, x) ==
    IF name = "max_risk_per_trade_pct" THEN AtMost(NotNegative(x), HARD_MAX_RISK_PER_TRADE_PCT)
    ELSE IF name \in PctCaps THEN AtMost(NotNegative(x), Whole)
    ELSE NotNegative(x)

\* The environment of the caller always, Redis if it answers; a refusal is only logged.
set_risk_cap(redis, name, x) ==
    [env |-> Number(Clamped(name, x)),
     redis |-> IF Answers(redis) THEN [redis EXCEPT !.text = Number(Clamped(name, x))] ELSE redis]

\* Each process reads the caps for itself; a percentage that did not come through
\* set_risk_cap is taken as it is.
load_risk_caps(redis, env, default) ==
    [name \in DOMAIN default |->
        LET x == _read_cap_float(redis[name], env[name], default[name])
        IN  IF name = "max_open_positions" THEN NotNegative(x) ELSE x]

\* The switch of auto-decide is stored the same way.  Who turns it learns whether Redis took it.
Enabled(text) == text = Number(1)
get_paper_auto_decide_enabled(redis, env) ==
    Enabled(IF Answers(redis) /\ redis.text.kind # "blank" THEN redis.text ELSE env)
set_paper_auto_decide_enabled(redis, on) ==
    LET text == Number(IF on THEN 1 ELSE 0)
    IN  [env |-> text, redis |-> IF Answers(redis) THEN [redis EXCEPT !.text = text] ELSE redis,
         ok |-> redis.url => redis.up]

\* The form of the owner takes only these.
validate_risk_cap_updates(name, x) ==
    /\ x > 0
    /\ name = "max_risk_per_trade_pct" => x <= HARD_MAX_RISK_PER_TRADE_PCT
    /\ name \in PctCaps => x <= Whole

-----------------------------------------------------------------------------
(* The kill switch: a key in Redis.                                        *)

kill_switch_state(redis, strict) ==
    [engaged |-> IF redis.url THEN redis.up => redis.on ELSE strict, known |-> Answers(redis)]

\* Redis may be lost before the first SET, or between it and the SET of the reason.
engage_kill_switch(redis) ==
    LET on == [redis EXCEPT !.on = TRUE]
        told(r, ok) == [redis |-> r, ok |-> ok]
    IN  {told(redis, FALSE)}
            \cup (IF Answers(redis) THEN {told(on, FALSE), told(on, TRUE)} ELSE {})

-----------------------------------------------------------------------------
(* The caps.                                                               *)

estimated_notional(equity, size) == NotNegative(equity) * NotNegative(size)     \* in parts of Whole

\* The order has a price to judge its stop by, and would lose more than the ceiling there.
\* No caller passes a round-trip cost.
RisksTooMuch(order, ceiling) ==
    \E entry \in order.entry, stop \in order.stop :
        entry > 0 /\ NotNegative(order.size) * Distance(entry, stop) > ceiling * entry

Drawdown(account) == NotNegative(account.start - account.equity)    \* of the starting equity

\* The account as a whole.
AccountBreach(caps, account) ==
    \/ account.start > 0 /\ Drawdown(account) * Whole >= caps.drawdown_lock_pct * account.start
    \/ account.realised <= -caps.max_daily_loss_usd
    \/ \E marked \in account.marked : marked <= -caps.max_daily_loss_usd

\* An order that opens something, and names a size: the caps on an order look at no other.  It may
\* have an entry and a stop.
Sized(order) == order.action \in Directions /\ order.sized

check_caps(caps, ceiling, account, order) ==
    IF AccountBreach(caps, account) THEN "account"
    ELSE IF ~Sized(order) THEN "ok"
    ELSE IF estimated_notional(account.equity, order.size) > Whole * caps.max_notional_per_order
         THEN "max_notional"
    ELSE IF order.stop = {} THEN "missing_invalidation"
    ELSE IF RisksTooMuch(order, ceiling) THEN "risk_at_stop"
    ELSE "ok"

\* The positions are a function from the symbols held to their side and notional.
symbol_bucket(buckets, symbol) == {b \in buckets : symbol \in b}

HeldOnThatSide(positions, order) ==
    order.symbol \in DOMAIN positions /\ positions[order.symbol].side = order.action

\* The book as it would be: an order replaces what its symbol holds.
Projected(positions, order, equity) ==
    [s \in DOMAIN positions \cup {order.symbol} |->
        IF s = order.symbol THEN estimated_notional(equity, order.size)
        ELSE Whole * positions[s].notional]

Sum(worth, symbols) == MapThenSumSet(LAMBDA s : worth[s], symbols)

check_portfolio_caps(caps, buckets, equity, positions, order) ==
    LET book == Projected(positions, order, equity)
        Over(symbols, pct) == Sum(book, symbols) > pct * equity
    IN  IF ~Sized(order) THEN "ok"
        ELSE IF equity <= 0 THEN "equity"
        ELSE IF HeldOnThatSide(positions, order) THEN "ok"
        ELSE IF Cardinality(DOMAIN book) > caps.max_open_positions THEN "max_open_positions"
        ELSE IF Over(DOMAIN book, caps.max_gross_notional_pct) THEN "max_gross_notional_pct"
        ELSE IF Over({order.symbol}, caps.max_symbol_notional_pct) THEN "max_symbol_notional_pct"
        ELSE IF \E b \in symbol_bucket(buckets, order.symbol) :
                    Over(DOMAIN book \cap b, caps.max_correlated_bucket_pct)
             THEN "max_correlated_bucket_pct"
        ELSE "ok"

-----------------------------------------------------------------------------
(* The market-safety gate.                                                 *)

Streams == {"book", "derivatives", "macro"}

\* An equity has neither book nor derivatives; macro counts only when it is asked for.
load_market_safety_config(settings, skipped) ==
    [enabled |-> settings.enabled, max_spread |-> settings.max_spread,
     min_depth |-> settings.min_depth, max_age |-> settings.max_age,
     required |-> ({"book", "derivatives"} \cup (IF settings.macro THEN {"macro"} ELSE {})) \ skipped]

\* An error that names no stream counts always.
provider_error_is_required(error, cfg) == error \in Streams => error \in cfg.required

\* An order looks at the side it takes from, anything else at both.
Thin(b, cfg, side) ==
    \E bid \in b.bid, ask \in b.ask :
        CASE side = "long"  -> ask < cfg.min_depth
          [] side = "short" -> bid < cfg.min_depth
          [] OTHER          -> bid < cfg.min_depth /\ ask < cfg.min_depth

Reason(name, holds) == IF holds THEN {name} ELSE {}

BookReasons(b, cfg, side) ==
    Reason("book_stale", b.age > cfg.max_age)
        \cup Reason("book_spread_null", b.spread = {})
        \cup Reason("spread_bps", \E spread \in b.spread : spread > cfg.max_spread)
        \cup Reason("book_depth_null", b.bid = {} \/ b.ask = {})
        \cup Reason("illiquid_depth", Thin(b, cfg, side))

DerivativesReasons(d, cfg) ==
    Reason("derivatives_stale", d.age > cfg.max_age)
        \cup Reason("derivatives_metrics_null", d.funding = {} /\ d.liquidations = {})

MacroReasons(x, cfg) ==
    Reason("macro_stale", x.age > cfg.max_age)
        \cup Reason("macro_dominance_null", x.dominance = {})

\* The latest snapshot of a stream, if it is required.
Required(stream, latest, cfg) == IF stream \in cfg.required THEN latest[stream] ELSE {}

evaluate_market_safety(cfg, latest, errors, side) ==
    IF ~cfg.enabled THEN {}
    ELSE Reason("provider_error", \E e \in errors : provider_error_is_required(e, cfg))
            \cup Reason("missing", \E stream \in cfg.required : latest[stream] = {})
            \cup (UNION {BookReasons(b, cfg, side) : b \in Required("book", latest, cfg)})
            \cup (UNION {DerivativesReasons(d, cfg) : d \in Required("derivatives", latest, cfg)})
            \cup (UNION {MacroReasons(x, cfg) : x \in Required("macro", latest, cfg)})

force_flat(reasons) == reasons # {}
\* A wide spread alone does not engage the kill switch.
critical(reasons) == reasons \ {"spread_bps"} # {}

apply_safety_to_analysis(a, reasons) ==
    IF ~force_flat(reasons) THEN a
    ELSE [a EXCEPT !.action = "flat", !.size = 0, !.stop = {},
                   !.confidence = AtMost(a.confidence, CONFIDENCE_THRESHOLD - 1)]
=============================================================================
