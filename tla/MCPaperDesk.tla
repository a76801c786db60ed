----------------------------- MODULE MCPaperDesk -----------------------------
(***************************************************************************)
(* Small instances of the paper desk for TLC.                              *)
(***************************************************************************)
EXTENDS PaperDeskProps, TLC, FiniteSets, FiniteSetsExt, SequencesExt

Sig(s, action) == [symbol |-> s, timeframe |-> "4h", action |-> action]

\* One symbol, the three actions.
OneSymbol   == {"BTC"}
OneAnalyses == {Sig("BTC", a) : a \in {"long", "short", "flat"}}

\* One symbol, an entry and its exit.
ExitAnalyses == {Sig("BTC", a) : a \in {"long", "flat"}}

DeskSymmetry == Permutations(Id) \cup Permutations(Enqueuers)

-----------------------------------------------------------------------------
(* The caps and the safety gate over small inputs.                         *)
Gate == INSTANCE AnalysisRules

BookCaps == [max_open_positions : {1, 2}, max_gross_notional_pct : {600, 1000},
             max_symbol_notional_pct : {600}, max_correlated_bucket_pct : {500, 1000}]
Majors == {"BTC", "ETH"}
Holding == [side : {"long", "short"}, notional : {3, 6}]
Books == {<<>>} \cup [{"ETH"} -> Holding] \cup [{"BTC", "SPY"} -> Holding]
Entry == [symbol : {"BTC"}, action : {"long"}, sized : {TRUE}, size : {300, 500, 700}]

\* check_portfolio_caps stops at the first cap it finds broken; an order passes if and only if the
\* book it leads to breaks none, and each of the caps is the first one broken by some book.
ASSUME PassesWithinCaps ==
    \A caps \in BookCaps, held \in Books, o \in Entry :
        LET after == Gate!Projected(held, o, 100)
            Pct(symbols) == Gate!Sum(after, symbols) \div 100
        IN  (Gate!check_portfolio_caps(caps, {Majors}, 100, held, o) = "ok")
            <=> \/ Gate!HeldOnThatSide(held, o)
                \/ /\ Cardinality(DOMAIN after) <= caps.max_open_positions
                   /\ Pct(DOMAIN after) <= caps.max_gross_notional_pct
                   /\ Pct({o.symbol}) <= caps.max_symbol_notional_pct
                   /\ Pct(DOMAIN after \cap Majors) <= caps.max_correlated_bucket_pct

ASSUME EveryCapBites ==
    {Gate!check_portfolio_caps(caps, {Majors}, 100, held, o) : caps \in BookCaps, held \in Books, o \in Entry}
        = {"ok", "max_open_positions", "max_gross_notional_pct", "max_symbol_notional_pct",
           "max_correlated_bucket_pct"}

\* An exit asks for nothing, but a breach of the account refuses it like an entry: an approval of
\* a flat signal fails then (approval.py:356).
ASSUME BreachedExit ==
    Gate!check_caps([max_notional_per_order |-> 1, max_daily_loss_usd |-> 1, drawdown_lock_pct |-> 500],
                    100, [equity |-> 90, start |-> 100, realised |-> 0, marked |-> {}],
                    [action |-> "flat", sized |-> TRUE, size |-> 0, entry |-> {}, stop |-> {}]) = "account"

\* set_risk_cap during an outage of Redis: the caller reads its own tighter cap as long as the outage
\* lasts, another process reads its default, and after it both read what Redis had before.
ASSUME LooserAfterOutage ==
    LET redis == [url |-> TRUE, up |-> FALSE, text |-> Gate!Number(100), on |-> FALSE]
        after == Gate!set_risk_cap(redis, "max_daily_loss_usd", 20)
        back == [after.redis EXCEPT !.up = TRUE]
        blank == [kind |-> "blank", value |-> 0]
    IN  /\ Gate!_read_cap_float(after.redis, after.env, 100) = 20
        /\ Gate!_read_cap_float(after.redis, blank, 100) = 100
        /\ \A env \in {after.env, blank} : Gate!_read_cap_float(back, env, 100) = 100

\* A percentage that is stored by other means is not held to a hundred, the ceiling always is.
ASSUME ReadAsItIs ==
    LET redis == [url |-> FALSE, up |-> FALSE, text |-> Gate!Number(0), on |-> FALSE]
        caps == Gate!load_risk_caps([c \in Gate!PctCaps |-> redis],
                                    [c \in Gate!PctCaps |-> Gate!Number(2 * Gate!Whole)],
                                    [c \in Gate!PctCaps |-> 500])
    IN  /\ \A c \in Gate!PctCaps : caps[c] = 2 * Gate!Whole
        /\ Gate!max_risk_per_trade_pct(redis, Gate!Number(2 * Gate!Whole)) = 100

\* Auto-decide that is turned off while Redis is out of reach goes on afterwards.
ASSUME OnAfterOutage ==
    LET redis == [url |-> TRUE, up |-> FALSE, text |-> Gate!Number(1), on |-> FALSE]
        after == Gate!set_paper_auto_decide_enabled(redis, FALSE)
    IN  /\ ~after.ok /\ ~Gate!get_paper_auto_decide_enabled(after.redis, after.env)
        /\ Gate!get_paper_auto_decide_enabled([after.redis EXCEPT !.up = TRUE], after.env)

\* engage_kill_switch may report a failure for a switch it has engaged.
ASSUME EngagedUntold ==
    \E outcome \in Gate!engage_kill_switch([url |-> TRUE, up |-> TRUE, text |-> Gate!Number(0), on |-> FALSE]) :
        ~outcome.ok /\ Gate!kill_switch_state(outcome.redis, TRUE).engaged

\* A thin bid refuses shorts only: a long may be entered that has to be sold into that bid.
ThinBid == [age |-> 0, spread |-> {1}, bid |-> {1}, ask |-> {9}]
Snapshots == [book |-> {ThinBid}, derivatives |-> {}, macro |-> {}]
Settings == [enabled |-> TRUE, max_spread |-> 5, min_depth |-> 5, max_age |-> 90, macro |-> FALSE]
ASSUME ThinBidShortsOnly ==
    LET cfg == Gate!load_market_safety_config(Settings, {"derivatives"})
    IN  \A side \in {"long", "short", "flat"} :
            Gate!evaluate_market_safety(cfg, Snapshots, {"macro"}, side)
                = IF side = "short" THEN {"illiquid_depth"} ELSE {}

-----------------------------------------------------------------------------
(* What a bar is taken for.                                                *)

Bar(time, rsi, fast, slow) ==
    [bar |-> time, low |-> {90}, high |-> {110}, close |-> {100}, atr |-> {6}, rsi |-> rsi,
     ema20 |-> {fast}, ema200 |-> slow]
Bars == {Bar(0, rsi, fast, slow) : rsi \in {{}} \cup {{r} : r \in {20, 28, 40, 50, 72, 80}},
                                   fast \in {98, 102}, slow \in {{}, {90}, {99}, {110}}}
Found == {Gate!analyze_snapshot(b, 55) : b \in Bars}
    \cup {Gate!analyze_mtf(b, higher, 55) : b \in Bars, higher \in {{}} \cup {{b} : b \in Bars}}
Health == [rows : {0, 1}, ready : {0, 1}, gaps : {0, 1}]
Scores(found) == {Gate!evaluate_symbol_suitability({a}, c, h) :
                      a \in found, c \in {{}} \cup {{b} : b \in Bars}, h \in Health}
Acting == {a \in Found : a.action # "flat"}

\* The page ranks every symbol with a direction above every one without, whatever the health of its
\* data and whether or not its bar is the one that was analysed.
ASSUME DirectionFirst ==
    /\ \A high \in Scores(Acting), low \in Scores(Found \ Acting) : high > low
    /\ {Gate!Grade(x) : x \in Scores(Found)} = {"high", "medium_high", "moderate", "low"}

\* A signal that the higher timeframe has flattened keeps its confidence: its symbol may still be
\* graded as promising.
ASSUME VetoedIsPromising ==
    \E a \in Found : /\ a.forced # "no"
                     /\ \E x \in Scores({a}) : Gate!Grade(x) = "medium_high"

\* At the close of a day the live rule asks the day that has just closed, the replay of the same
\* bar the day before it (replay.py:37, a bar is named by its opening).
ASSUME ReplayLags ==
    LET days == <<Bar(0, {}, 98, {90}), Bar(24, {}, 98, {110})>>
    IN  /\ Gate!load_latest_candle(days) = {days[2]}
        /\ Gate!closed_htf_candle(days, 44, 24) = {days[1]}

-----------------------------------------------------------------------------
(* What is learnt from the trades.                                         *)
Learnt == INSTANCE Feedback

Order(k, kind, side) ==
    [id |-> <<k, kind>>, at |-> k, symbol |-> "BTC", kind |-> kind, side |-> side, qty |-> 2,
     price |-> k * k, fee |-> 1, source |-> "auto_claude"]

\* Signals applied by the engine, one an instant; the orders of a flip may be read in either order.
Trades(signals, swap) ==
    FoldLeftDomain(LAMBDA acc, k :
        LET pos    == acc.pos
            closes == Closes(pos, signals[k])
            opens  == Opens(pos, signals[k])
            close  == IF closes THEN <<Order(k, "close", pos.side)>> ELSE <<>>
            open   == IF opens THEN <<Order(k, "open", signals[k])>> ELSE <<>>
        IN  [pos    |-> After(pos, signals[k], k),
             since  |-> IF opens THEN k ELSE acc.since,
             orders |-> acc.orders \o (IF swap THEN open \o close ELSE close \o open),
             held   |-> IF closes THEN Append(acc.held, <<acc.since, k>>) ELSE acc.held],
        [pos |-> NoPosition, since |-> 0, orders |-> <<>>, held |-> <<>>], signals)

Cash(o) == (IF (o.kind = "open") = (o.side = "long") THEN -o.price ELSE o.price) * o.qty - o.fee

\* What is paired is what was held, and once nothing is held the results are the cash that came in.
ASSUME TripsWereHeld ==
    \A signals \in [1..4 -> Actions], swap \in BOOLEAN :
        LET t == Trades(signals, swap)
            paired == Learnt!reconstruct_closed_trades(t.orders)
        IN  /\ paired.unmatched = 0
            /\ [i \in DOMAIN paired.trips |-> <<paired.trips[i].open[1], paired.trips[i].close[1]>>] = t.held
            /\ ~IsOpen(t.pos) =>
                  Learnt!Total(ToSet(paired.trips)) = MapThenSumSet(Cash, ToSet(t.orders))

Pairs(orders) == {<<t.open[1], t.close[1]>> : t \in ToSet(Learnt!reconstruct_closed_trades(orders).trips)}
Opened(k) == Order(k, "open", "long")
Closed(k) == Order(k, "close", "long")

\* A position whose row was lost to a stale copy (engine.py:277) leaves its order behind, and every
\* later trip of the symbol is paired with the order before its own.
ASSUME LostRowShiftsTrips ==
    Pairs(<<Opened(1), Opened(2), Closed(3), Opened(4), Closed(5)>>) = {<<1, 3>>, <<2, 5>>}

\* A position that two writers have closed, the earlier one committing last, is an outcome twice.
ASSUME ClosedTwiceCountsTwice ==
    LET Synced(outcomes, orders) ==
            Learnt!sync_decision_outcomes(outcomes, Learnt!reconstruct_closed_trades(orders).trips)
    IN  Cardinality(Synced(Synced({}, <<Opened(1), Closed(3)>>), <<Opened(1), Closed(2), Closed(3)>>)) = 2

\* The gate latches on enough losing trips, holds when they have left its window, and the owner's
\* reset is undone by its own answer as long as they have not (feedback.py:250, app.py:811).
ASSUME ResetAnswersLatched ==
    LET gate == [min_ev |-> {0}, min_n |-> 2, window |-> 10]
        Lost(k) == [open |-> k, close |-> k, symbol |-> "BTC", source |-> "auto_rule", at |-> k, pnl |-> -1]
        At(latch, at) == Learnt!auto_ev_gate_status(latch, gate, {Lost(1), Lost(2)}, at)
        Reset(latch, at) == Learnt!api_paper_ev_gate_reset(latch, 10, gate, {Lost(1), Lost(2)}, at)
        latch == At(Learnt!NotLatched, 3).latch
    IN  /\ latch.latched /\ At(latch, 20).latch = latch
        /\ Reset(latch, 5).latched /\ ~Reset(latch, 12).latched
=============================================================================
