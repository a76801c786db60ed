----------------------------- MODULE PaperStops -----------------------------
(***************************************************************************)
(* The stop of one paper position, from the fill that sets it to the fill  *)
(* that ends it: the lock that moves it with the price                     *)
(* (src/jarvise_paper/profit_lock.py), the monitor that fills it           *)
(* (src/jarvise_paper/stops.py), both run by one tick of the risk monitor, *)
(* and the replay that walks the same rules over stored bars               *)
(* (src/jarvise_analyze/replay.py).  One symbol: paper_positions holds at  *)
(* most one row of it, and set_position_stop names the symbol, not the row.*)
(*                                                                         *)
(* Prices of a bar are positive integers, 0 stands for NULL.  The i-th 1h bar opens *)
(* at the even instant 2(i - 1); processes act at odd instants, while a bar*)
(* forms, and see the bars that have closed.                               *)
(***************************************************************************)
EXTENDS Integers, Sequences

CONSTANTS Shapes,     \* a bar, as offsets from the close before it
          Start,      \* the close before the first bar
          Risks,      \* distances of an analysis' invalidation from the price
          Buffer,     \* what 20 bps of an entry price come to
          Wide,       \* 1h bars in a 4h bar
          Modes,      \* how the ledger is driven: see Mode
          MaxBars,    \* how many 1h bars there are, by driver
          MaxRows,
          MaxCopies   \* how often a row is written back from a copy

Sides   == {"long", "short"}
Frames  == {"1h", "4h"}
Null    == 0

\* The live paper ledger, or a replay with its command-line choices.
Mode == [driver : {"paper", "replay"}, frame : Frames,
         policy : {"naive", "rules"}, exits : {"confidence", "regime"},
         stops : {"off", "fixed", "trail"}, breakeven : BOOLEAN]

ASSUME StopsAssumption ==
    /\ \A s \in Shapes : /\ s \in [open : Int, high : Int, low : Int, close : Int]
                         /\ s.low <= s.open /\ s.open <= s.high
                         /\ s.low <= s.close /\ s.close <= s.high
    /\ Start \in Nat \ {0}
    /\ Risks \subseteq Nat \ {0}
    /\ Buffer \in Nat
    /\ Wide \in Nat \ {0}
    /\ Modes \subseteq Mode
    /\ MaxBars \in [{"paper", "replay"} -> Nat] /\ MaxRows \in Nat /\ MaxCopies \in Nat

VARIABLES mode,    \* how this ledger is driven
          bars,    \* market_technicals: the rows of each timeframe, oldest first
          forming, \* the 4h bar that is not complete yet
          row,     \* the paper_positions row of the symbol
          rows,    \* how many rows there have been: the next one's number
          tick,    \* the risk monitor's tick and what it holds in memory
          copy,    \* the row as a writer of another row read it, until it writes it back
          exit,    \* the stop_hit fill since the last bar, if any
          walked   \* bars of its timeframe a replay has walked

vars == <<mode, bars, forming, row, rows, tick, copy, exit, walked>>

Now == 2 * Len(bars["1h"]) + 1

-----------------------------------------------------------------------------
(* Bars.                                                                   *)

NoBar == [n |-> 0, bar |-> [ts |-> 0, open |-> 0, high |-> 0, low |-> 0, close |-> 0]]

\* A 4h row covers Wide 1h rows and is stored when the last of them closed.
Formed(b) ==
    IF forming.n = 0 THEN [n |-> 1, bar |-> b]
    ELSE [n   |-> forming.n + 1,
          bar |-> [forming.bar EXCEPT !.high = IF b.high > @ THEN b.high ELSE @,
                                      !.low  = IF b.low < @ THEN b.low ELSE @,
                                      !.close = b.close]]

Stored(frame) == {bars[frame][i] : i \in DOMAIN bars[frame]}

\* Mutated form of Between: the window has no end.
BetweenOpen(frame, since, until) == {b \in Stored(frame) : since < b.ts}

\* load_candles_in_range, then the cut every caller makes: opened after since.
Between(frame, since, until) == {b \in Stored(frame) : since < b.ts /\ b.ts <= until}

Earliest(some) == CHOOSE b \in some : \A c \in some : b.ts <= c.ts

NewestClose == IF bars["1h"] = <<>> THEN Start ELSE bars["1h"][Len(bars["1h"])].close

Other(frame) == IF frame = "1h" THEN "4h" ELSE "1h"

-----------------------------------------------------------------------------
(* Rows and sides.                                                         *)

NoRow == [id |-> 0, side |-> "none", entry |-> Null, initial |-> Null, stop |-> Null,
          source |-> "none", entered |-> Null, moved |-> Null, frame |-> "1h",
          for |-> 0]

IsOpen(r) == r.side # "none"

Toward(side) == IF side = "long" THEN 1 ELSE -1

\* A price at or through a level, as a loss of this side sees it.
Through(side, price, level) ==
    IF side = "long" THEN price <= level ELSE price >= level

Tighter(side, new, old) == IF side = "long" THEN new > old ELSE new < old

Worst(side, b) == IF side = "long" THEN b.low ELSE b.high
Best(side, b)  == IF side = "long" THEN b.high ELSE b.low

-----------------------------------------------------------------------------
(* The lock: breakeven at half the risk, then a trail of one risk.         *)

NoMove == [stop |-> Null, source |-> "none"]

First(r)     == IF r.initial = Null THEN r.stop ELSE r.initial
Risk(r)      == IF r.entry > First(r) THEN r.entry - First(r) ELSE First(r) - r.entry
Travel(r, best) == Toward(r.side) * (best - r.entry)

\* Mutated form of Candidate: the buffer is added on the wrong side of the entry.
CandidateBelowEntry(r, best, breakeven) ==
    IF Travel(r, best) >= Risk(r)
      THEN [stop |-> best - Toward(r.side) * Risk(r), source |-> "trail"]
    ELSE IF breakeven /\ 2 * Travel(r, best) >= Risk(r)
      THEN [stop |-> r.entry - Toward(r.side) * Buffer, source |-> "breakeven"]
    ELSE NoMove

\* Where the two milestones would put the stop.
Candidate(r, best, breakeven) ==
    IF Travel(r, best) >= Risk(r)
      THEN [stop |-> best - Toward(r.side) * Risk(r), source |-> "trail"]
    ELSE IF breakeven /\ 2 * Travel(r, best) >= Risk(r)
      THEN [stop |-> r.entry + Toward(r.side) * Buffer, source |-> "breakeven"]
    ELSE NoMove

\* Mutated form of Tightened: the comparison with the stop in force is dropped.
TightenedAnyway(r, to) == to

\* The candidate, when it is tighter than the stop in force.
Tightened(r, to) ==
    IF to # NoMove /\ Tighter(r.side, to.stop, r.stop) THEN to ELSE NoMove

\* trail_stop_with_source, for the best of the prices seen (a set of one move).
Moves(r, seen, breakeven) ==
    IF r.stop = Null \/ Risk(r) = 0 \/ seen = {} THEN {NoMove}
    ELSE {Tightened(r, Candidate(r, best, breakeven)) :
            best \in {p \in seen : \A q \in seen : ~Tighter(r.side, q, p)}}

\* range_since_entry: every timeframe, bars opened at or after the entry.
SeenSinceEntry(r) ==
    UNION {{Best(r.side, bars[f][i]) : i \in {k \in DOMAIN bars[f] : bars[f][k].ts >= r.entered}} :
             f \in Frames}

\* bar_range_after: the replayed timeframe only, after the entry bar, up to now.
SeenInReplay(r, until) ==
    {Best(r.side, bars[mode.frame][i]) :
        i \in {k \in DOMAIN bars[mode.frame] : r.entered < bars[mode.frame][k].ts
                                               /\ bars[mode.frame][k].ts <= until}}

-----------------------------------------------------------------------------
(* The fill: a resting order over the bars since the stop was set.         *)

Since(r) == IF r.moved # Null THEN r.moved ELSE r.entered

\* The preferred timeframe when it has a bar in the window, else the other.
Scanned(r, until, frame) ==
    LET preferred == Between(frame, Since(r), until)
    IN  IF preferred # {} THEN preferred ELSE Between(Other(frame), Since(r), until)

Touches(r, b) == Through(r.side, Worst(r.side, b), r.stop)

Touched(r, until, frame) == {b \in Scanned(r, until, frame) : Touches(r, b)}

\* At the stop, or at the open of a bar that opened beyond it.
FillIn(r, b) == IF Through(r.side, b.open, r.stop) THEN b.open ELSE r.stop

\* Mutated form of StopFill: only the newest close is compared with the stop.
StopFillAtClose(r, until, mid, frame) ==
    IF IsOpen(r) /\ r.stop # Null /\ Through(r.side, mid, r.stop) THEN mid ELSE Null

\* resting_stop_fill: the first bar that touched the stop, else the newest
\* close when it is beyond the stop, else nothing.
StopFill(r, until, mid, frame) ==
    IF ~IsOpen(r) \/ r.stop = Null THEN Null
    ELSE LET touched == Touched(r, until, frame)
         IN  IF touched # {} THEN FillIn(r, Earliest(touched))
             ELSE IF Through(r.side, mid, r.stop) THEN mid
             ELSE Null

-----------------------------------------------------------------------------
(* The ledger: what apply_signal and set_position_stop do to the row.      *)

Opened(id, side, price, risk, at, frame) ==
    [id |-> id, side |-> side, entry |-> price, initial |-> price - Toward(side) * risk,
     stop |-> price - Toward(side) * risk, source |-> "analysis",
     entered |-> at, moved |-> Null, frame |-> frame, for |-> id]

\* set_position_stop names the symbol: it writes to whatever row is there.
\* "for" remembers the row the stop was computed for; the code does not.
WithStop(r, to, at, for) ==
    IF IsOpen(r)
      THEN [r EXCEPT !.stop = to.stop, !.source = to.source, !.moved = at, !.for = for]
      ELSE r

\* open_db gives a row that has a stop and no initial stop that stop.
Migrated(r) == IF r.initial = Null THEN [r EXCEPT !.initial = r.stop] ELSE r

\* Mutated form of Signalled: a flat signal is taken for a side.
SignalledFlatOpens(r, id, action, price, risk, at, frame) ==
    IF r.side = action THEN r ELSE Opened(id, action, price, risk, at, frame)

\* What a signal makes of the row: flat closes it, long and short close the
\* other side and open their own, the same side is a hold.
Signalled(r, id, action, price, risk, at, frame) ==
    IF action = "flat" THEN NoRow
    ELSE IF r.side = action THEN r
    ELSE Opened(id, action, price, risk, at, frame)

Opens(r, action) == action \in Sides /\ r.side # action

-----------------------------------------------------------------------------
NoExit == [of |-> 0, closed |-> 0, stop |-> Null, fill |-> Null]

NoCopy == [row |-> NoRow, wrote |-> 0]

Idle == [at |-> "idle", now |-> 0, row |-> NoRow, move |-> NoMove, fill |-> Null]

\* A row of before there were stops.
Legacy(side) ==
    [id |-> 1, side |-> side, entry |-> Start, initial |-> Null, stop |-> Null,
     source |-> "none", entered |-> 1, moved |-> Null, frame |-> "4h", for |-> 1]

Init ==
    /\ mode \in Modes
    /\ bars = [f \in Frames |-> <<>>] /\ forming = NoBar
    /\ \/ row = NoRow /\ rows = 0
       \/ mode.driver = "paper" /\ rows = 1 /\ \E side \in Sides : row = Legacy(side)
    /\ tick = Idle /\ copy = NoCopy /\ exit = NoExit /\ walked = 0

\* The price goes on, and stays one; the ingest stores the bars that have closed.
NewBar ==
    /\ Len(bars["1h"]) < MaxBars[mode.driver]
    /\ \E s \in Shapes :
          LET b == [ts    |-> Now - 1,
                    open  |-> NewestClose + s.open, high  |-> NewestClose + s.high,
                    low   |-> NewestClose + s.low,  close |-> NewestClose + s.close]
              f == Formed(b)
          IN  /\ b.low > 0
              /\ bars' = [bars EXCEPT !["1h"] = Append(@, b),
                                      !["4h"] = IF f.n = Wide THEN Append(@, f.bar) ELSE @]
              /\ forming' = IF f.n = Wide THEN NoBar ELSE f
    /\ exit' = NoExit
    /\ UNCHANGED <<mode, row, rows, tick, copy, walked>>

-----------------------------------------------------------------------------
(* The live paper ledger.                                                  *)

\* The owner, or the auto path, has a card filled at the newest close.
Trades ==
    /\ mode.driver = "paper"
    /\ \E action \in Sides \cup {"flat"}, risk \in Risks, frame \in Frames :
          /\ Opens(row, action) => rows < MaxRows
          /\ row' = Signalled(row, rows + 1, action, NewestClose, risk, Now, frame)
          /\ rows' = IF Opens(row, action) THEN rows + 1 ELSE rows
    /\ row' # row
    /\ UNCHANGED <<mode, bars, forming, tick, copy, exit, walked>>

\* backfill-stops --apply: a stop from the analysis or the ATR, for a row that
\* has none; stop_moved_ts and initial_stop_price stay as they are.
Backfills ==
    /\ mode.driver = "paper" /\ IsOpen(row) /\ row.stop = Null
    /\ \E risk \in Risks :
          row' = [row EXCEPT !.stop = row.entry - Toward(row.side) * risk,
                             !.source = "backfill"]
    /\ UNCHANGED <<mode, bars, forming, rows, tick, copy, exit, walked>>

\* mark_to_market, and apply_signal for another symbol outside a transaction (the
\* owner's close, the expiry, a stop exit), read every row ...
CopyReads ==
    /\ mode.driver = "paper" /\ copy.wrote < MaxCopies
    /\ copy.row = NoRow /\ IsOpen(row)
    /\ copy' = [copy EXCEPT !.row = row]
    /\ UNCHANGED <<mode, bars, forming, row, rows, tick, exit, walked>>

\* ... and upsert it with a new mark: every other column as it was read, the stop
\* and the time it was set too.  The timeframe is no column: it is that of the order
\* that opened what is open by the orders, and 4h if nothing is.
CopyWritesBack ==
    /\ copy.row # NoRow
    /\ row' = [copy.row EXCEPT !.frame = IF IsOpen(row) THEN row.frame ELSE "4h"]
    /\ copy' = [row |-> NoRow, wrote |-> copy.wrote + 1]
    /\ UNCHANGED <<mode, bars, forming, rows, tick, exit, walked>>

\* A tick opens the database, reads the row and the range since its entry, and
\* computes the move.
TickStarts ==
    /\ mode.driver = "paper" /\ tick.at \in {"idle", "died"}
    /\ row' = Migrated(row)
    /\ \E move \in Moves(row', SeenSinceEntry(row'), TRUE) :
          tick' = [at |-> "move", now |-> Now, row |-> row', fill |-> Null, move |-> move]
    /\ UNCHANGED <<mode, bars, forming, rows, copy, exit, walked>>

\* set_position_stop, by symbol and with the time the tick began.
LockWrites ==
    /\ tick.at = "move"
    /\ row' = IF tick.move # NoMove THEN WithStop(row, tick.move, tick.now, tick.row.id) ELSE row
    /\ tick' = [tick EXCEPT !.at = "check"]
    /\ UNCHANGED <<mode, bars, forming, rows, copy, exit, walked>>

\* The monitor reads the rows again and looks for the fill.
StopReads ==
    /\ tick.at = "check"
    /\ LET fill == StopFill(row, tick.now, NewestClose, row.frame)
       IN  tick' = IF fill = Null THEN Idle
                   ELSE [tick EXCEPT !.at = "close", !.row = row, !.fill = fill]
    /\ UNCHANGED <<mode, bars, forming, row, rows, copy, exit, walked>>

\* apply_signal with a flat reads the row once more: it closes what is there.
StopCloses ==
    /\ tick.at = "close"
    /\ exit' = IF IsOpen(row)
                 THEN [of |-> tick.row.id, closed |-> row.id, stop |-> tick.row.stop,
                       fill |-> tick.fill]
                 ELSE exit
    /\ row' = NoRow
    /\ tick' = Idle
    /\ UNCHANGED <<mode, bars, forming, rows, copy, walked>>

\* Every step commits on its own: a tick may die between any two.
TickDies ==
    /\ tick.at \in {"move", "check", "close"}
    /\ tick' = [Idle EXCEPT !.at = "died"]
    /\ UNCHANGED <<mode, bars, forming, row, rows, copy, exit, walked>>

-----------------------------------------------------------------------------
(* A replay over the stored range.                                         *)

Matches(side, regime) ==
    \/ side = "long"  /\ regime = "trend_up"
    \/ side = "short" /\ regime = "trend_down"

\* _rules_disposition.
Disposition(r, action, regime) ==
    IF IsOpen(r) /\ mode.exits = "regime" /\ ~Matches(r.side, regime) THEN "flat_exit"
    ELSE IF IsOpen(r) /\ r.side = action THEN "hold"
    ELSE IF IsOpen(r) /\ action # "flat" THEN "defer"
    ELSE IF IsOpen(r) /\ mode.exits = "confidence" THEN "flat_exit"
    ELSE IF action # "flat" THEN "fill_bars"
    ELSE "skip"

\* What reaches apply_signal: a regime exit never flips on its own bar.
ReplayAction(r, action, regime) ==
    LET to == Disposition(r, action, regime)
    IN  IF mode.policy = "naive" THEN action
        ELSE IF to = "flat_exit" /\ mode.exits = "regime" THEN "flat"
        ELSE IF to \in {"flat_exit", "fill_bars"} THEN action
        ELSE "none"

Trailed(r, move, at) ==
    IF move = NoMove THEN r ELSE WithStop(r, [move EXCEPT !.source = "trail"], at, r.id)

\* Mutated form of ReplayMoves: the stop moves before it is looked for, as in
\* the risk monitor.
ReplayMovesFirst(r, b) ==
    IF mode.stops # "trail" THEN {NoMove} ELSE Moves(r, SeenInReplay(r, b.ts), mode.breakeven)

\* apply_replay_stop looks for the stop the bar began with; it moves the stop
\* of a row that was not hit.
ReplayMoves(r, b) ==
    IF mode.stops # "trail" \/ StopFill(r, b.ts, b.close, mode.frame) # Null THEN {NoMove}
    ELSE Moves(r, SeenInReplay(r, b.ts), mode.breakeven)

\* The row after the signal of bar b, filled at the close of the bar.
SignalledAt(b, action, regime, risk) ==
    LET act == ReplayAction(row, action, regime)
    IN  IF act = "none" THEN row
        ELSE Signalled(row, rows + 1, act, b.close, risk, b.ts, mode.frame)

\* The stop of bar b for the row the signal left, moved, and then filled or not.
ReplayStop(first, move, b) ==
    LET last == Trailed(first, move, b.ts)
        fill == IF mode.stops = "off" THEN Null ELSE StopFill(last, b.ts, b.close, mode.frame)
    IN  /\ row'  = IF fill = Null THEN last ELSE NoRow
        /\ exit' = IF fill = Null THEN exit
                   ELSE [of |-> first.id, closed |-> first.id, stop |-> last.stop, fill |-> fill]

\* A bar whose signal left the row first, an old one or the next number.
ReplayFrom(first, b) ==
    /\ first.id > rows => rows < MaxRows
    /\ rows' = IF first.id > rows THEN rows + 1 ELSE rows
    /\ \E move \in ReplayMoves(first, b) : ReplayStop(first, move, b)

\* One bar of replay_range: the signal, the stop, the moved stop.
ReplayBar ==
    /\ mode.driver = "replay" /\ Len(bars["1h"]) = MaxBars[mode.driver]
    /\ walked < Len(bars[mode.frame])
    /\ \E action \in Sides \cup {"flat"}, regime \in {"trend_up", "trend_down", "range"},
          risk \in Risks :
          ReplayFrom(SignalledAt(bars[mode.frame][walked + 1], action, regime, risk),
                     bars[mode.frame][walked + 1])
    /\ walked' = walked + 1
    /\ UNCHANGED <<mode, bars, forming, tick, copy>>

Next ==
    \/ NewBar
    \/ Trades \/ Backfills \/ CopyReads \/ CopyWritesBack
    \/ TickStarts \/ LockWrites \/ StopReads \/ StopCloses \/ TickDies
    \/ ReplayBar

Spec == Init /\ [][Next]_vars

-----------------------------------------------------------------------------
(* Properties.                                                             *)

Price == Int
Bar == [ts : Nat, open : Price, high : Price, low : Price, close : Price]
Row == [id : Nat, side : Sides \cup {"none"}, entry : Price, initial : Price, stop : Price,
        source : {"none", "analysis", "backfill", "breakeven", "trail"},
        entered : Nat, moved : Nat, frame : Frames, for : Nat]

\* Every variable has its type.
TypeOK ==
    /\ mode \in Modes
    /\ bars \in [Frames -> Seq(Bar)] /\ forming \in [n : Nat, bar : Bar]
    /\ row \in Row /\ rows \in Nat /\ walked \in Nat
    /\ tick \in [at : {"idle", "died", "move", "check", "close"}, now : Nat, row : Row,
                 move : [stop : Price, source : {"none", "breakeven", "trail"}], fill : Price]
    /\ copy \in [row : Row, wrote : Nat]
    /\ exit \in [of : Nat, closed : Nat, stop : Price, fill : Price]

\* A stop that was computed for its row protects the entry once it was locked:
\* breakeven and trail never put it on the losing side (profit_lock.py:1).
LockedIn ==
    row.source \in {"breakeven", "trail"} /\ row.for = row.id
        => ~Tighter(row.side, row.entry, row.stop)

\* The stop of a row only tightens (profit_lock.py:6), with two exceptions that the
\* code has: the lock computed it for a row that was replaced before the write
\* (db.py:2604), or another writer put an old copy of the row back (marking.py:57).
StopTightens ==
    [][ (IsOpen(row) /\ row'.id = row.id /\ row.stop # Null /\ row'.stop # row.stop
            /\ row'.for = row.id /\ copy'.wrote = 0)
          => Tighter(row.side, row'.stop, row.stop) ]_vars

\* A tick that comes to its end closes a row whose stop was reached by a bar of
\* its timeframe since it was set; only a move of the stop in the same tick,
\* which forgets the bars before it, lets the row go on (profit_lock.py:123,
\* stops.py:144).
TouchedStopFills ==
    [][ (tick.at = "check" /\ tick'.at = "idle" /\ tick.row = row
            /\ IsOpen(row) /\ tick.row.stop # Null /\ tick.move = NoMove)
          => \A b \in Between(row.frame, Since(tick.row), tick.now) : ~Touches(tick.row, b) ]_vars

\* A replay is stricter: a row whose stop a bar reached does not survive the
\* bar, whatever the bar also did for the trail (replay.py:348).
ReplayClosesTouched ==
    [][ (walked' # walked /\ IsOpen(row) /\ row.stop # Null /\ mode.stops # "off"
            /\ row.id = row'.id)
          => ~Touches(row, bars[mode.frame][walked + 1]) ]_vars

\* A replay fills at a price of the bar it walks, and at its close when the bar
\* itself had moved the stop: nothing later is known (replay.py:349).
ReplayFillsInBar ==
    [][ (walked' # walked /\ exit' # exit)
          => LET b == bars[mode.frame][walked + 1]
             IN  /\ b.low <= exit'.fill /\ exit'.fill <= b.high
                 /\ exit'.stop # row.stop => exit'.fill = b.close ]_vars
=============================================================================
