-------------------------- MODULE PaperStopsProofs --------------------------
(***************************************************************************)
(* What the stop of a paper position promises for any price path, any      *)
(* sizes of risk and buffer and any number of bars and rows: once it was   *)
(* moved it protects the entry, it only tightens, and a bar that reaches   *)
(* it fills it, within that bar in a replay.  The exceptions the           *)
(* statements make are real ones: set_position_stop names the symbol only, *)
(* so a stop computed for one row may land on the next, and a writer of    *)
(* another symbol may put an older copy of the row back.                   *)
(***************************************************************************)
EXTENDS PaperStops, SequenceTheorems, FiniteSetTheorems, TLAPS

Moved == [stop : Int, source : {"none", "breakeven", "trail"}]

\* What the tick holds; what it found as a fill does not matter here.
TickTyped ==
    /\ tick = [at |-> tick.at, now |-> tick.now, row |-> tick.row, move |-> tick.move,
               fill |-> tick.fill]
    /\ tick.now \in Nat /\ tick.row \in Row /\ tick.move \in Moved

BarsTyped == bars \in [Frames -> Seq(Bar)] /\ forming \in [n : Nat, bar : Bar]

\* Rows are numbered: a new one is told from every row a tick may remember.
Numbered == /\ rows \in Nat /\ row \in Row
            /\ row.id <= rows /\ tick.row.id <= rows /\ copy.row.id <= rows
            /\ IsOpen(row) => row.id > 0
            /\ IsOpen(tick.row) => tick.row.id > 0
            /\ IsOpen(copy.row) => copy.row.id > 0

\* Copies of one row, however old, agree on its side and its entry.
OneRow(r, s) == r.id = s.id /\ r.id > 0 => r.side = s.side /\ r.entry = s.entry

SameRow == OneRow(row, tick.row) /\ OneRow(row, copy.row) /\ OneRow(tick.row, copy.row)

\* What another writer holds was once a row that was safe.
CopyHeld ==
    /\ copy = [row |-> copy.row, wrote |-> copy.wrote]
    /\ copy.row \in Row /\ copy.wrote \in Nat
    /\ copy.row.stop # Null => copy.row.side \in Sides
    /\ copy.row.source \in {"breakeven", "trail"} /\ copy.row.for = copy.row.id
         => ~Tighter(copy.row.side, copy.row.entry, copy.row.stop)

\* Only an open row has a stop.
StopHeld == row.stop # Null => row.side \in Sides

WalkTyped == walked \in Nat

\* A move that suits a row: there is one to move, it tightens the stop in force
\* and protects the entry.
Suits(to, r) == /\ r.stop # Null /\ r.side \in Sides
                /\ to.source # "none"
                /\ Tighter(r.side, to.stop, r.stop)
                /\ ~Tighter(r.side, r.entry, to.stop)

\* A move waits to be written: it suits the row the tick read, and that row, if
\* it is still there and no old copy was put in its place, is as it was read.
MovePending ==
    tick.at = "move" /\ tick.move # NoMove =>
        /\ Suits(tick.move, tick.row)
        /\ tick.row.id = row.id /\ copy.wrote = 0 => row = tick.row

\* A replay runs no tick.
ReplayAlone == mode.driver = "replay" => tick.at = "idle"

Held == /\ mode \in Mode /\ BarsTyped /\ TickTyped /\ CopyHeld /\ Numbered /\ SameRow
        /\ StopHeld /\ MovePending /\ ReplayAlone /\ LockedIn

-----------------------------------------------------------------------------
\* Whatever prices were seen, a move tightens the stop it was computed from and
\* never gives the entry away (profit_lock.py:22).
LEMMA MoveSuits ==
    ASSUME NEW r \in Row, NEW seen, seen \subseteq Int, NEW breakeven \in BOOLEAN,
           NEW to \in Moves(r, seen, breakeven), r.stop # Null => r.side \in Sides
    PROVE  to \in Moved /\ (to # NoMove => Suits(to, r))
<1> USE DEF Row, Price, Sides, Null
<1>1. CASE r.stop = Null \/ Risk(r) = 0 \/ seen = {}
  BY <1>1 DEF Moves, NoMove, Moved
<1>2. CASE ~(r.stop = Null \/ Risk(r) = 0 \/ seen = {})
  <2>1. PICK best \in Int : to = Tightened(r, Candidate(r, best, breakeven))
    BY <1>2 DEF Moves
  <2>2. r.side \in Sides /\ r.stop \in Int /\ r.entry \in Int /\ r.initial \in Int
    BY <1>2
  <2>3. Risk(r) \in Nat
    BY <2>2 DEF Risk, First
  <2>4. Toward(r.side) \in {1, -1}
    BY DEF Toward
  <2>5. CASE r.side = "long"
    <3>1. Candidate(r, best, breakeven) \in Moved
      BY <2>2, <2>3, <2>5, StopsAssumption DEF Candidate, Moved, NoMove, Travel, Toward
    <3>2. Candidate(r, best, breakeven) # NoMove =>
             /\ Candidate(r, best, breakeven).source # "none"
             /\ Candidate(r, best, breakeven).stop >= r.entry
      BY <2>2, <2>3, <2>5, StopsAssumption DEF Candidate, NoMove, Travel, Toward
    <3> QED BY <1>2, <2>1, <2>2, <2>5, <3>1, <3>2 DEF Tightened, Tighter, Suits, Moved, NoMove
  <2>6. CASE r.side = "short"
    <3>1. Candidate(r, best, breakeven) \in Moved
      BY <2>2, <2>3, <2>6, StopsAssumption DEF Candidate, Moved, NoMove, Travel, Toward
    <3>2. Candidate(r, best, breakeven) # NoMove =>
             /\ Candidate(r, best, breakeven).source # "none"
             /\ Candidate(r, best, breakeven).stop <= r.entry
      BY <2>2, <2>3, <2>6, StopsAssumption DEF Candidate, NoMove, Travel, Toward
    <3> QED BY <1>2, <2>1, <2>2, <2>6, <3>1, <3>2 DEF Tightened, Tighter, Suits, Moved, NoMove
  <2> QED BY <2>2, <2>5, <2>6
<1> QED BY <1>1, <1>2

\* The prices a range query returns are prices.
LEMMA SeenArePrices ==
    ASSUME BarsTyped, mode \in Mode, NEW r \in Row, NEW until
    PROVE  SeenSinceEntry(r) \subseteq Int /\ SeenInReplay(r, until) \subseteq Int
<1>1. \A f \in Frames : \A i \in DOMAIN bars[f] : bars[f][i] \in Bar
  BY LenProperties, ElementOfSeq DEF BarsTyped
<1>2. \A b \in Bar : Best(r.side, b) \in Int
  BY DEF Best, Bar, Price
<1>3. mode.frame \in Frames
  BY DEF Mode
<1> QED BY <1>1, <1>2, <1>3 DEF SeenSinceEntry, SeenInReplay

\* The clock and the newest close have their types.
LEMMA NowTyped == ASSUME BarsTyped PROVE Now \in Nat
BY LenProperties DEF BarsTyped, Now, Frames

LEMMA CloseTyped == ASSUME BarsTyped PROVE NewestClose \in Int
<1>1. bars["1h"] \in Seq(Bar)
  BY DEF BarsTyped, Frames
<1>2. CASE bars["1h"] = <<>>
  BY <1>2, StopsAssumption DEF NewestClose
<1>3. CASE bars["1h"] # <<>>
  <2>1. bars["1h"][Len(bars["1h"])] \in Bar
    BY <1>1, <1>3, LenProperties, EmptySeq, ElementOfSeq
  <2> QED BY <1>3, <2>1 DEF NewestClose, Bar, Price
<1> QED BY <1>2, <1>3

\* A new row and no row are rows.
LEMMA OpenedTyped ==
    ASSUME NEW id \in Nat, NEW side \in Sides, NEW price \in Int, NEW risk \in Risks,
           NEW at \in Nat, NEW frame \in Frames
    PROVE  Opened(id, side, price, risk, at, frame) \in Row
BY StopsAssumption DEF Opened, Row, Price, Toward, Sides, Null

LEMMA NoRowTyped == NoRow \in Row
BY DEF NoRow, Row, Price, Null, Frames

-----------------------------------------------------------------------------
\* The invariant holds at the start, with a row of before there were stops too.
LEMMA InitHeld == Init => Held
<1> SUFFICES ASSUME Init PROVE Held
  OBVIOUS
<1>1. mode \in Mode
  BY StopsAssumption DEF Init
<1>2. BarsTyped
  BY EmptySeq DEF Init, BarsTyped, NoBar, Bar, Price
<1>3. TickTyped
  BY NoRowTyped DEF Init, TickTyped, Idle, Moved, NoMove, Null
<1>4. ASSUME NEW side \in Sides, row = Legacy(side)
      PROVE  row \in Row /\ row.id = 1 /\ row.source = "none" /\ row.stop = Null
  BY <1>4, StopsAssumption DEF Legacy, Row, Price, Null, Sides, Frames, Toward
<1>5. Numbered /\ LockedIn /\ StopHeld
  BY <1>4, NoRowTyped DEF Init, Numbered, LockedIn, StopHeld, Idle, NoCopy, NoRow, IsOpen, Row
<1>a. CopyHeld /\ SameRow
  BY NoRowTyped DEF Init, CopyHeld, SameRow, OneRow, NoCopy, Idle, NoRow
<1>6. MovePending /\ ReplayAlone
  BY DEF Init, MovePending, ReplayAlone, Idle
<1> QED BY <1>1, <1>2, <1>3, <1>a, <1>5, <1>6 DEF Held

\* The ingest leaves rows and ticks alone.
LEMMA NewBarHeld == Held /\ NewBar => Held'
<1> SUFFICES ASSUME Held, NewBar PROVE Held'
  OBVIOUS
<1>1. PICK s \in Shapes :
         LET b == [ts |-> Now - 1, open |-> NewestClose + s.open, high |-> NewestClose + s.high,
                   low |-> NewestClose + s.low, close |-> NewestClose + s.close]
             f == Formed(b)
         IN  /\ bars' = [bars EXCEPT !["1h"] = Append(@, b),
                                     !["4h"] = IF f.n = Wide THEN Append(@, f.bar) ELSE @]
             /\ forming' = IF f.n = Wide THEN NoBar ELSE f
  BY DEF NewBar
<1> DEFINE b == [ts |-> Now - 1, open |-> NewestClose + s.open, high |-> NewestClose + s.high,
                 low |-> NewestClose + s.low, close |-> NewestClose + s.close]
<1>2. b \in Bar
  <2>1. s \in [open : Int, high : Int, low : Int, close : Int]
    BY StopsAssumption
  <2>2. Now - 1 \in Nat
    BY LenProperties DEF Held, BarsTyped, Now, Frames
  <2> QED BY <2>1, <2>2, CloseTyped DEF Bar, Price, Held
<1> HIDE DEF b
<1>3. Formed(b) \in [n : Nat, bar : Bar]
  <2>1. forming.n \in Nat /\ forming.bar \in Bar
    BY DEF Held, BarsTyped
  <2>2. CASE forming.n = 0
    BY <1>2, <2>2 DEF Formed
  <2>3. CASE forming.n # 0
    <3>1. [forming.bar EXCEPT !.high = IF b.high > @ THEN b.high ELSE @,
                              !.low  = IF b.low < @ THEN b.low ELSE @,
                              !.close = b.close] \in Bar
      BY <1>2, <2>1 DEF Bar, Price
    <3> QED BY <2>1, <2>3, <3>1 DEF Formed
  <2> QED BY <2>2, <2>3
<1>4. NoBar \in [n : Nat, bar : Bar]
  BY DEF NoBar, Bar, Price
<1>5. \A q \in Seq(Bar), x \in Bar : Append(q, x) \in Seq(Bar)
  BY AppendProperties
<1>6. BarsTyped'
  BY <1>1, <1>2, <1>3, <1>4, <1>5 DEF BarsTyped, Held, Frames, b
<1>7. UNCHANGED <<mode, row, rows, tick, copy>>
  BY DEF NewBar
<1>8. (TickTyped /\ CopyHeld /\ Numbered /\ SameRow)'
  BY <1>7 DEF Held, TickTyped, CopyHeld, Numbered, SameRow
<1>9. (MovePending /\ ReplayAlone /\ LockedIn /\ StopHeld)'
  BY <1>7 DEF Held, MovePending, ReplayAlone, LockedIn, StopHeld
<1> QED BY <1>6, <1>7, <1>8, <1>9 DEF Held

\* A signal keeps the row, removes it, or puts one with a new number there, whose
\* stop is the analysis' own.
LEMMA SignalledShape ==
    ASSUME BarsTyped, rows \in Nat, row \in Row, NEW action \in Sides \cup {"flat"},
           NEW price \in Int, NEW risk \in Risks, NEW at \in Nat, NEW frame \in Frames,
           NEW next, next = Signalled(row, rows + 1, action, price, risk, at, frame)
    PROVE  \/ next = NoRow /\ ~Opens(row, action)
           \/ next = row /\ ~Opens(row, action)
           \/ /\ next \in Row /\ next.id = rows + 1 /\ next.source = "analysis"
              /\ next.side \in Sides /\ Opens(row, action)
<1>1. CASE action = "flat"
  BY <1>1 DEF Signalled, Opens, Sides
<1>2. CASE action \in Sides /\ row.side = action
  BY <1>2 DEF Signalled, Opens, Sides
<1>3. CASE action \in Sides /\ row.side # action
  <2>1. next = Opened(rows + 1, action, price, risk, at, frame)
    BY <1>3 DEF Signalled, Sides
  <2>2. next \in Row
    BY <1>3, <2>1, OpenedTyped
  <2> QED BY <1>3, <2>1, <2>2 DEF Opens, Opened
<1> QED BY <1>1, <1>2, <1>3

\* While a tick waits to write, a row that took the place of the one it read has
\* another number.
LEMMA Replaced ==
    ASSUME Held, UNCHANGED <<mode, bars, forming, tick, copy>>,
           \/ row' = NoRow /\ rows' = rows
           \/ row' = row /\ rows' = rows
           \/ /\ row' \in Row /\ row'.id = rows + 1 /\ row'.source = "analysis"
              /\ row'.side \in Sides /\ rows' = rows + 1
    PROVE  Held'
<1>1. /\ rows \in Nat /\ tick.row \in Row /\ tick.row.id \in Nat /\ row.id \in Nat
      /\ copy.row.id \in Nat
  BY DEF Held, Numbered, TickTyped, CopyHeld, Row
<1>2. (mode \in Mode /\ BarsTyped /\ TickTyped /\ CopyHeld /\ ReplayAlone)'
  BY DEF Held, BarsTyped, TickTyped, CopyHeld, ReplayAlone
<1>a. SameRow'
  BY <1>1 DEF Held, Numbered, SameRow, OneRow, NoRow
<1>3. CASE row' = NoRow /\ rows' = rows
  <2>1. Numbered' /\ StopHeld'
    BY <1>1, <1>3, NoRowTyped DEF Held, Numbered, NoRow, IsOpen, StopHeld
  <2>2. tick.at = "move" /\ tick.move # NoMove => tick.row.id # 0
    BY <1>1 DEF Held, MovePending, Suits, Numbered, IsOpen, Sides
  <2>3. MovePending'
    BY <1>3, <2>2 DEF Held, MovePending, NoRow
  <2>4. LockedIn'
    BY <1>3 DEF LockedIn, NoRow
  <2> QED BY <1>2, <1>a, <2>1, <2>3, <2>4 DEF Held
<1>4. CASE row' = row /\ rows' = rows
  BY <1>2, <1>a, <1>4 DEF Held, Numbered, MovePending, LockedIn, StopHeld
<1>5. CASE /\ row' \in Row /\ row'.id = rows + 1 /\ row'.source = "analysis"
           /\ row'.side \in Sides /\ rows' = rows + 1
  <2>1. Numbered' /\ StopHeld'
    BY <1>1, <1>5 DEF Held, Numbered, IsOpen, StopHeld
  <2>2. tick.row.id # row'.id
    BY <1>1, <1>5 DEF Held, Numbered
  <2>3. MovePending'
    BY <2>2 DEF Held, MovePending
  <2>4. LockedIn'
    BY <1>5 DEF LockedIn
  <2> QED BY <1>2, <1>a, <2>1, <2>3, <2>4 DEF Held
<1> QED BY <1>3, <1>4, <1>5

\* A fill of a card keeps, closes or replaces the row.
LEMMA TradesHeld == Held /\ Trades => Held'
<1> SUFFICES ASSUME Held, Trades PROVE Held'
  OBVIOUS
<1>1. PICK action \in Sides \cup {"flat"}, risk \in Risks, frame \in Frames :
         /\ row' = Signalled(row, rows + 1, action, NewestClose, risk, Now, frame)
         /\ rows' = IF Opens(row, action) THEN rows + 1 ELSE rows
  BY DEF Trades
<1>2. BarsTyped /\ rows \in Nat /\ row \in Row
  BY DEF Held, Numbered
<1>3. \/ row' = NoRow /\ ~Opens(row, action)
      \/ row' = row /\ ~Opens(row, action)
      \/ /\ row' \in Row /\ row'.id = rows + 1 /\ row'.source = "analysis"
         /\ row'.side \in Sides /\ Opens(row, action)
  BY <1>1, <1>2, NowTyped, CloseTyped, SignalledShape
<1>4. UNCHANGED <<mode, bars, forming, tick, copy>>
  BY DEF Trades
<1> QED BY <1>1, <1>3, <1>4, Replaced

\* A backfill gives a stop to a row that had none: no move can wait for it.
LEMMA BackfillsHeld == Held /\ Backfills => Held'
<1> SUFFICES ASSUME Held, Backfills PROVE Held'
  OBVIOUS
<1>1. PICK risk \in Risks :
         row' = [row EXCEPT !.stop = row.entry - Toward(row.side) * risk, !.source = "backfill"]
  BY DEF Backfills
<1>2. row \in Row /\ row.stop = Null /\ risk \in Int
  BY StopsAssumption DEF Backfills, Held, Numbered
<1>3. row.entry - Toward(row.side) * risk \in Int
  BY <1>2 DEF Toward, Row, Price
<1>4. /\ row' \in Row /\ row'.id = row.id /\ row'.side = row.side /\ row'.entry = row.entry
      /\ row'.source = "backfill"
  BY <1>1, <1>2, <1>3 DEF Row, Price
<1>5. UNCHANGED <<mode, bars, forming, rows, tick, copy>>
  BY DEF Backfills
<1>a. CopyHeld' /\ SameRow'
  BY <1>4, <1>5 DEF Held, CopyHeld, SameRow, OneRow
<1>6. Numbered' /\ LockedIn' /\ StopHeld'
  BY <1>4, <1>5 DEF Held, Numbered, IsOpen, LockedIn, StopHeld, Backfills, Row, Sides
<1>7. MovePending'
  BY <1>2, <1>4, <1>5 DEF Held, MovePending, Suits
<1> QED BY <1>5, <1>a, <1>6, <1>7 DEF Held, BarsTyped, TickTyped, ReplayAlone

\* Another writer takes a copy of the row, and puts it back later.
LEMMA CopiesHeld == Held /\ (CopyReads \/ CopyWritesBack) => Held'
<1> SUFFICES ASSUME Held, CopyReads \/ CopyWritesBack PROVE Held'
  OBVIOUS
<1>1. UNCHANGED <<mode, bars, forming, rows, tick>>
  BY DEF CopyReads, CopyWritesBack
<1>2. copy = [row |-> copy.row, wrote |-> copy.wrote] /\ copy.wrote \in Nat /\ copy.row \in Row
      /\ row \in Row
  BY DEF Held, CopyHeld, Numbered
<1>3. (mode \in Mode /\ BarsTyped /\ TickTyped /\ ReplayAlone)'
  BY <1>1 DEF Held, BarsTyped, TickTyped, ReplayAlone
<1>4. CASE CopyReads
  <2>1. row' = row /\ copy' = [row |-> row, wrote |-> copy.wrote]
    BY <1>2, <1>4 DEF CopyReads
  <2>2. CopyHeld'
    BY <1>2, <2>1 DEF Held, CopyHeld, StopHeld, LockedIn
  <2>3. Numbered' /\ SameRow'
    BY <1>1, <1>2, <2>1 DEF Held, Numbered, SameRow, OneRow
  <2>4. StopHeld' /\ LockedIn' /\ MovePending'
    BY <1>1, <1>2, <2>1 DEF Held, StopHeld, LockedIn, MovePending
  <2> QED BY <1>3, <2>2, <2>3, <2>4 DEF Held
<1>5. CASE CopyWritesBack
  <2> DEFINE of == IF IsOpen(row) THEN row.frame ELSE "4h"
  <2>0. row' = [copy.row EXCEPT !.frame = of] /\ copy' = [row |-> NoRow, wrote |-> copy.wrote + 1]
    BY <1>5 DEF CopyWritesBack
  <2>7. of \in Frames
    BY <1>2 DEF Row, Frames
  <2> HIDE DEF of
  <2>1. /\ row' \in Row /\ row'.id = copy.row.id /\ row'.side = copy.row.side
        /\ row'.entry = copy.row.entry /\ row'.stop = copy.row.stop
        /\ row'.source = copy.row.source /\ row'.for = copy.row.for
        /\ copy' = [row |-> NoRow, wrote |-> copy.wrote + 1]
    BY <1>2, <2>0, <2>7 DEF Row
  <2>2. CopyHeld'
    BY <1>2, <2>1, NoRowTyped DEF CopyHeld, NoRow
  <2>3. Numbered'
    BY <1>1, <1>2, <2>1, NoRowTyped DEF Held, Numbered, NoRow, IsOpen
  <2>4. SameRow'
    BY <1>1, <2>1 DEF Held, SameRow, OneRow, NoRow
  <2>5. StopHeld' /\ LockedIn'
    BY <2>1 DEF Held, CopyHeld, StopHeld, LockedIn
  <2>6. MovePending'
    BY <1>1, <1>2, <2>1 DEF Held, MovePending
  <2> QED BY <1>3, <2>2, <2>3, <2>4, <2>5, <2>6 DEF Held
<1> QED BY <1>4, <1>5

\* A tick that starts remembers the row as it stands, and a move that suits it.
LEMMA TickStartsHeld == Held /\ TickStarts => Held'
<1> SUFFICES ASSUME Held, TickStarts PROVE Held'
  OBVIOUS
<1>1. row' = Migrated(row) /\ UNCHANGED <<mode, bars, forming, rows, copy>>
      /\ mode.driver = "paper"
  BY DEF TickStarts
<1>2. PICK move \in Moves(row', SeenSinceEntry(row'), TRUE) :
         tick' = [at |-> "move", now |-> Now, row |-> row', fill |-> Null, move |-> move]
  BY DEF TickStarts
<1>3. row' \in Row /\ row'.id = row.id /\ row'.side = row.side /\ row'.stop = row.stop
      /\ row'.source = row.source /\ row'.for = row.for /\ row'.entry = row.entry
  BY <1>1 DEF Held, Numbered, Migrated, Row, Price
<1>4. row'.stop # Null => row'.side \in Sides
  BY <1>3 DEF Held, StopHeld
<1>5. SeenSinceEntry(row') \subseteq Int
  BY <1>3, SeenArePrices DEF Held
<1>6. move \in Moved /\ (move # NoMove => Suits(move, row'))
  BY <1>3, <1>4, <1>5, MoveSuits
<1>7. TickTyped'
  BY <1>1, <1>2, <1>3, <1>6, NowTyped DEF TickTyped, Held
<1>8. Numbered' /\ LockedIn' /\ StopHeld'
  BY <1>1, <1>2, <1>3 DEF Held, Numbered, IsOpen, LockedIn, StopHeld
<1>9. MovePending' /\ ReplayAlone'
  BY <1>1, <1>2, <1>6 DEF MovePending, ReplayAlone
<1>a. CopyHeld' /\ SameRow'
  BY <1>1, <1>2, <1>3 DEF Held, CopyHeld, SameRow, OneRow
<1> QED BY <1>1, <1>7, <1>8, <1>9, <1>a DEF Held, BarsTyped

\* Writing the move on the row it was computed for keeps the entry safe.
LEMMA LockWritesHeld == Held /\ LockWrites => Held'
<1> SUFFICES ASSUME Held, LockWrites PROVE Held'
  OBVIOUS
<1>1. UNCHANGED <<mode, bars, forming, rows, copy>> /\ tick.at = "move"
      /\ tick' = [tick EXCEPT !.at = "check"]
  BY DEF LockWrites
<1>2. TickTyped' /\ tick'.at = "check" /\ tick'.row = tick.row
  BY <1>1 DEF Held, TickTyped
<1>3. MovePending' /\ ReplayAlone'
  BY <1>1, <1>2 DEF Held, MovePending, ReplayAlone
<1>4. CASE row' = row
  <2>1. CopyHeld' /\ SameRow' /\ Numbered' /\ LockedIn' /\ StopHeld'
    BY <1>1, <1>2, <1>4 DEF Held, CopyHeld, SameRow, Numbered, LockedIn, StopHeld
  <2> QED BY <1>1, <1>2, <1>3, <2>1 DEF Held, BarsTyped
<1>5. CASE tick.move # NoMove /\ IsOpen(row) /\ row' = WithStop(row, tick.move, tick.now, tick.row.id)
  <2>1. row' = [row EXCEPT !.stop = tick.move.stop, !.source = tick.move.source,
                           !.moved = tick.now, !.for = tick.row.id]
    BY <1>5 DEF WithStop
  <2>2. row \in Row /\ tick.move \in Moved /\ tick.now \in Nat /\ tick.row.id \in Nat
    BY DEF Held, Numbered, TickTyped, Row
  <2>3. row' \in Row /\ row'.id = row.id /\ row'.side = row.side /\ row'.entry = row.entry
        /\ row'.stop = tick.move.stop /\ row'.for = tick.row.id
    BY <2>1, <2>2 DEF Row, Moved, Price
  <2>4. Numbered' /\ StopHeld'
    BY <1>1, <1>2, <1>5, <2>3 DEF Held, Numbered, IsOpen, StopHeld, Sides, Row
  <2>5. CopyHeld' /\ SameRow'
    BY <1>1, <1>2, <2>3 DEF Held, CopyHeld, SameRow, OneRow
  <2>6. LockedIn'
    <3>1. Suits(tick.move, tick.row) /\ row.id > 0
      BY <1>1, <1>5 DEF Held, MovePending, Numbered
    <3>2. row'.for = row'.id => row'.side = tick.row.side /\ row'.entry = tick.row.entry
      BY <2>3, <3>1 DEF Held, SameRow, OneRow
    <3> QED BY <2>3, <3>1, <3>2 DEF Suits, LockedIn
  <2> QED BY <1>1, <1>2, <1>3, <2>4, <2>5, <2>6 DEF Held, BarsTyped
<1> QED BY <1>4, <1>5 DEF LockWrites, WithStop

\* Looking for the fill, filling it and dying leave no move to write.
LEMMA TickEndsHeld == Held /\ (StopReads \/ StopCloses \/ TickDies) => Held'
<1> SUFFICES ASSUME Held, StopReads \/ StopCloses \/ TickDies PROVE Held'
  OBVIOUS
<1>1. UNCHANGED <<mode, bars, forming, rows, copy>>
  BY DEF StopReads, StopCloses, TickDies
<1>2. mode.driver = "paper"
  BY DEF Held, ReplayAlone, StopReads, StopCloses, TickDies, Mode
<1>3. TickTyped' /\ tick'.at # "move" /\ (tick'.row = NoRow \/ tick'.row = row)
  <2>1. TickTyped /\ row \in Row
    BY DEF Held, Numbered
  <2>2. CASE StopReads
    <3>1. PICK fill : tick' = IF fill = Null THEN Idle
                             ELSE [tick EXCEPT !.at = "close", !.row = row, !.fill = fill]
      BY <2>2 DEF StopReads
    <3>2. CASE tick' = Idle
      BY <3>2, NoRowTyped DEF TickTyped, Idle, Moved, NoMove, Null
    <3>3. CASE tick' = [tick EXCEPT !.at = "close", !.row = row, !.fill = fill]
      <4>1. tick' = [at |-> "close", now |-> tick.now, row |-> row, move |-> tick.move,
                     fill |-> fill]
        BY <2>1, <3>3 DEF TickTyped
      <4> QED BY <2>1, <4>1 DEF TickTyped
    <3> QED BY <3>1, <3>2, <3>3
  <2>3. CASE StopCloses \/ TickDies
    BY <2>1, <2>3, NoRowTyped DEF StopCloses, TickDies, TickTyped, Idle, Moved, NoMove, Null
  <2> QED BY <2>2, <2>3
<1>4. row' = row \/ row' = NoRow
  BY DEF StopReads, StopCloses, TickDies
<1>5. Numbered' /\ StopHeld' /\ LockedIn'
  BY <1>1, <1>3, <1>4, NoRowTyped DEF Held, Numbered, StopHeld, LockedIn, NoRow, IsOpen, Row
<1>6. MovePending' /\ ReplayAlone'
  BY <1>1, <1>2, <1>3 DEF MovePending, ReplayAlone
<1>7. CopyHeld' /\ SameRow'
  BY <1>1, <1>3, <1>4 DEF Held, CopyHeld, SameRow, OneRow, NoRow
<1> QED BY <1>1, <1>3, <1>5, <1>6, <1>7 DEF Held, BarsTyped

\* What one bar of a replay leaves: the row before it, none, or a new one, with a
\* move that suits it; or nothing, when it was filled.
ReplayLeaves(first, move, at) ==
    /\ \/ first = NoRow /\ rows' = rows
       \/ first = row /\ rows' = rows
       \/ /\ first \in Row /\ first.id = rows + 1 /\ first.source = "analysis"
          /\ first.side \in Sides /\ rows' = rows + 1
    /\ move \in Moved /\ (move # NoMove => Suits(move, first))
    /\ row' = Trailed(first, move, at) \/ row' = NoRow

\* A bar of a replay takes the signal, then the stop.
LEMMA ReplayShape ==
    ASSUME Held, WalkTyped, ReplayBar
    PROVE  \E first, move : \E at \in Nat : ReplayLeaves(first, move, at)
<1> DEFINE b == bars[mode.frame][walked + 1]
<1>1. PICK action \in Sides \cup {"flat"}, regime \in {"trend_up", "trend_down", "range"},
           risk \in Risks : ReplayFrom(SignalledAt(b, action, regime, risk), b)
  BY DEF ReplayBar
<1> DEFINE act   == ReplayAction(row, action, regime)
           first == SignalledAt(b, action, regime, risk)
<1>2. b \in Bar
  <2>1. mode.frame \in Frames /\ bars[mode.frame] \in Seq(Bar)
    BY DEF Held, BarsTyped, Mode
  <2>2. walked + 1 \in 1..Len(bars[mode.frame])
    BY <2>1, LenProperties DEF ReplayBar, WalkTyped
  <2> QED BY <2>1, <2>2, ElementOfSeq
<1>3. b.close \in Int /\ b.ts \in Nat /\ mode.frame \in Frames
  BY <1>2 DEF Bar, Price, Held, Mode
<1>4. act \in Sides \cup {"flat", "none"}
  BY DEF ReplayAction
<1>5. rows \in Nat /\ row \in Row /\ row.id \in Nat /\ row.id <= rows
  BY DEF Held, Numbered, Row
<1>6. \/ first = NoRow \/ first = row
      \/ first \in Row /\ first.id = rows + 1 /\ first.source = "analysis" /\ first.side \in Sides
  <2>1. CASE act = "none"
    BY <2>1 DEF SignalledAt
  <2>2. CASE act # "none"
    <3>1. act \in Sides \cup {"flat"} /\ BarsTyped
      BY <1>4, <2>2 DEF Held
    <3>2. first = Signalled(row, rows + 1, act, b.close, risk, b.ts, mode.frame)
      BY <2>2 DEF SignalledAt
    <3> HIDE DEF act, b, first
    <3> QED BY <1>3, <1>5, <3>1, <3>2, SignalledShape
  <2> QED BY <2>1, <2>2
<1>7. first \in Row /\ (first.stop # Null => first.side \in Sides)
  BY <1>5, <1>6, NoRowTyped DEF Held, StopHeld, NoRow
<1>a. ReplayFrom(first, b)
  BY <1>1
<1> HIDE DEF first, act, b
<1>8. PICK move \in ReplayMoves(first, b) : row' = Trailed(first, move, b.ts) \/ row' = NoRow
  <2>1. PICK move \in ReplayMoves(first, b) : ReplayStop(first, move, b)
    BY <1>a DEF ReplayFrom
  <2>2. row' = Trailed(first, move, b.ts) \/ row' = NoRow
    BY <2>1 DEF ReplayStop
  <2> QED BY <2>2
<1>9. rows' = IF first.id > rows THEN rows + 1 ELSE rows
  BY <1>a DEF ReplayFrom
<1>10. move \in Moved /\ (move # NoMove => Suits(move, first))
  <2>1. SeenInReplay(first, b.ts) \subseteq Int /\ mode.breakeven \in BOOLEAN
    BY <1>7, SeenArePrices DEF Held, Mode
  <2>2. move = NoMove \/ move \in Moves(first, SeenInReplay(first, b.ts), mode.breakeven)
    BY <1>8 DEF ReplayMoves
  <2>3. NoMove \in Moved
    BY DEF NoMove, Moved, Null
  <2> QED BY <1>7, <2>1, <2>2, <2>3, MoveSuits
<1>11. ReplayLeaves(first, move, b.ts)
  BY <1>5, <1>6, <1>8, <1>9, <1>10 DEF ReplayLeaves, NoRow
<1> QED BY <1>3, <1>11

\* A bar of a replay moves the stop of the row it holds, or fills it.
LEMMA ReplayBarHeld == Held /\ WalkTyped /\ ReplayBar => Held'
<1> SUFFICES ASSUME Held, WalkTyped, ReplayBar PROVE Held'
  OBVIOUS
<1>0. PICK first, move : \E at \in Nat : ReplayLeaves(first, move, at)
  BY ReplayShape
<1>1. PICK at \in Nat : ReplayLeaves(first, move, at)
  BY <1>0
<1>2. UNCHANGED <<mode, bars, forming, tick, copy>> /\ tick.at = "idle"
  BY DEF ReplayBar, Held, ReplayAlone
<1>3. rows \in Nat /\ row \in Row /\ row.id \in Nat /\ tick.row.id \in Nat
      /\ copy.row.id \in Nat /\ copy.row.id <= rows
      /\ tick.row.id <= rows /\ row.id <= rows
  BY DEF Held, Numbered, TickTyped, CopyHeld, Row
<1>4. first \in Row /\ first.id <= rows' /\ (IsOpen(first) => first.id > 0) /\ rows' \in Nat
      /\ tick.row.id <= rows' /\ copy.row.id <= rows'
  BY <1>1, <1>3, NoRowTyped DEF Held, Numbered, NoRow, IsOpen, ReplayLeaves
<1>5. (first.stop # Null => first.side \in Sides)
      /\ (first.source \in {"breakeven", "trail"} /\ first.for = first.id
            => ~Tighter(first.side, first.entry, first.stop))
  BY <1>1 DEF Held, StopHeld, LockedIn, NoRow, ReplayLeaves
<1>6. /\ row' \in Row /\ row'.id <= rows' /\ (IsOpen(row') => row'.id > 0)
      /\ row' = NoRow \/ (row'.id = first.id /\ row'.side = first.side
                          /\ row'.entry = first.entry)
      /\ (row'.stop # Null => row'.side \in Sides)
      /\ (row'.source \in {"breakeven", "trail"} /\ row'.for = row'.id
            => ~Tighter(row'.side, row'.entry, row'.stop))
  <2>1. CASE row' = NoRow
    BY <1>4, <2>1, NoRowTyped, <1>3, <1>1 DEF NoRow, IsOpen, ReplayLeaves
  <2>2. CASE row' = first
    BY <1>4, <1>5, <2>2
  <2>3. CASE row' = Trailed(first, move, at) /\ move # NoMove /\ IsOpen(first)
    <3>1. row' = [first EXCEPT !.stop = [move EXCEPT !.source = "trail"].stop,
                               !.source = [move EXCEPT !.source = "trail"].source,
                               !.moved = at, !.for = first.id]
      BY <2>3 DEF Trailed, WithStop
    <3>2. [move EXCEPT !.source = "trail"].stop = move.stop
          /\ [move EXCEPT !.source = "trail"].source = "trail" /\ move.stop \in Int
      BY <1>1 DEF Moved, ReplayLeaves
    <3>3. first.id \in Nat /\ at \in Nat
      BY <1>4 DEF Row
    <3>4. /\ row' \in Row /\ row'.id = first.id /\ row'.side = first.side
          /\ row'.entry = first.entry /\ row'.stop = move.stop
      BY <1>4, <3>1, <3>2, <3>3 DEF Row, Price
    <3> QED BY <1>1, <1>4, <2>3, <3>4 DEF Suits, IsOpen, ReplayLeaves
  <2>4. row' = first \/ row' = NoRow
        \/ (row' = Trailed(first, move, at) /\ move # NoMove /\ IsOpen(first))
    BY <1>1 DEF Trailed, WithStop, ReplayLeaves
  <2> QED BY <2>1, <2>2, <2>3, <2>4
<1>7. Numbered' /\ StopHeld' /\ LockedIn'
  BY <1>2, <1>4, <1>6 DEF Held, Numbered, StopHeld, LockedIn
<1>8. MovePending' /\ ReplayAlone'
  BY <1>2 DEF MovePending, ReplayAlone
<1>9. OneRow(first, tick.row) /\ OneRow(first, copy.row)
  BY <1>1, <1>3 DEF Held, SameRow, OneRow, NoRow, ReplayLeaves
<1>10. CopyHeld' /\ SameRow'
  BY <1>2, <1>6, <1>9 DEF Held, CopyHeld, SameRow, OneRow, NoRow
<1> QED BY <1>2, <1>7, <1>8, <1>10 DEF Held, BarsTyped, TickTyped

\* Every step keeps what the two theorems rest on.
LEMMA StepHeld == Held /\ WalkTyped /\ [Next]_vars => (Held /\ WalkTyped)'
<1> SUFFICES ASSUME Held, WalkTyped, [Next]_vars PROVE (Held /\ WalkTyped)'
  OBVIOUS
<1>1. CASE NewBar
  BY <1>1, NewBarHeld DEF NewBar, WalkTyped
<1>2. CASE Trades
  BY <1>2, TradesHeld DEF Trades, WalkTyped
<1>3. CASE Backfills
  BY <1>3, BackfillsHeld DEF Backfills, WalkTyped
<1>4. CASE TickStarts
  BY <1>4, TickStartsHeld DEF TickStarts, WalkTyped
<1>5. CASE LockWrites
  BY <1>5, LockWritesHeld DEF LockWrites, WalkTyped
<1>6. CASE StopReads \/ StopCloses \/ TickDies
  BY <1>6, TickEndsHeld DEF StopReads, StopCloses, TickDies, WalkTyped
<1>7. CASE ReplayBar
  <2>1. walked' = walked + 1
    BY <1>7 DEF ReplayBar
  <2> QED BY <1>7, <2>1, ReplayBarHeld DEF WalkTyped
<1>9. CASE CopyReads \/ CopyWritesBack
  BY <1>9, CopiesHeld DEF CopyReads, CopyWritesBack, WalkTyped
<1>8. CASE UNCHANGED vars
  <2>1. UNCHANGED <<mode, bars, forming, row, rows, tick, copy, walked>>
    BY <1>8 DEF vars
  <2>2. (BarsTyped /\ TickTyped /\ CopyHeld /\ Numbered /\ SameRow /\ WalkTyped)'
    BY <2>1 DEF Held, BarsTyped, TickTyped, CopyHeld, Numbered, SameRow, WalkTyped
  <2>3. (StopHeld /\ MovePending /\ ReplayAlone /\ LockedIn)'
    BY <2>1 DEF Held, StopHeld, MovePending, ReplayAlone, LockedIn
  <2> QED BY <2>1, <2>2, <2>3 DEF Held
<1> QED BY <1>1, <1>2, <1>3, <1>4, <1>5, <1>6, <1>7, <1>8, <1>9 DEF Next

\* The invariant of every run of the ledger and of a replay.
LEMMA AlwaysHeld == Spec => [](Held /\ WalkTyped)
<1>1. Init => Held /\ WalkTyped
  BY InitHeld DEF Init, WalkTyped
<1> QED BY <1>1, StepHeld, PTL DEF Spec

\* A stop that was moved, for the row it was computed for, protects the entry:
\* breakeven and trail leave no loss but that of a gap or of the fees
\* (profit_lock.py:1), whatever the price does and whoever dies in between.
THEOREM MovedStopProtects == Spec => []LockedIn
<1>1. Held /\ WalkTyped => LockedIn
  BY DEF Held
<1> QED BY <1>1, AlwaysHeld, PTL

-----------------------------------------------------------------------------
\* The stop of a row only tightens, in the paper ledger as in a replay
\* (profit_lock.py:6), but for a stop computed for a row that was replaced, and as
\* long as nobody put an old copy of the row back.
THEOREM StopOnlyTightens == Spec => StopTightens
<1> DEFINE Step == (IsOpen(row) /\ row'.id = row.id /\ row.stop # Null /\ row'.stop # row.stop
                      /\ row'.for = row.id /\ copy'.wrote = 0)
                   => Tighter(row.side, row'.stop, row.stop)
<1>1. Held /\ WalkTyped /\ [Next]_vars => [Step]_vars
  <2> SUFFICES ASSUME Held, WalkTyped, Next, IsOpen(row), row'.id = row.id, row.stop # Null,
                      row'.stop # row.stop, row'.for = row.id, copy'.wrote = 0
               PROVE  Tighter(row.side, row'.stop, row.stop)
    BY DEF vars
  <2>1. rows \in Nat /\ row \in Row /\ row.id \in Nat /\ row.id <= rows /\ row.id > 0
    BY DEF Held, Numbered, Row
  <2>2. CASE NewBar \/ StopReads \/ TickDies
    BY <2>2 DEF NewBar, StopReads, TickDies
  <2>3. CASE Trades
    <3>1. PICK action \in Sides \cup {"flat"}, risk \in Risks, frame \in Frames :
             row' = Signalled(row, rows + 1, action, NewestClose, risk, Now, frame)
      BY <2>3 DEF Trades
    <3>2. row' = NoRow \/ row' = row \/ row'.id = rows + 1
      BY <2>1, <3>1, NowTyped, CloseTyped, SignalledShape DEF Held
    <3> QED BY <2>1, <3>2 DEF NoRow
  <2>4. CASE Backfills
    BY <2>4 DEF Backfills
  <2>5. CASE TickStarts
    <3>1. row' = Migrated(row)
      BY <2>5 DEF TickStarts
    <3>2. row'.stop = row.stop
      BY <2>1, <3>1 DEF Migrated, Row
    <3> QED BY <3>2
  <2>6. CASE LockWrites
    <3>1. row' = WithStop(row, tick.move, tick.now, tick.row.id) /\ tick.move # NoMove
          /\ tick.at = "move" /\ copy.wrote = 0
      BY <2>6 DEF LockWrites
    <3>2. row'.stop = tick.move.stop /\ row'.for = tick.row.id
      BY <2>1, <3>1 DEF WithStop, Row
    <3> QED BY <3>1, <3>2 DEF Held, MovePending, Suits
  <2>9. CASE CopyReads \/ CopyWritesBack
    BY <2>9 DEF CopyReads, CopyWritesBack, Held, CopyHeld
  <2>7. CASE StopCloses
    BY <2>1, <2>7 DEF StopCloses, NoRow
  <2>8. CASE ReplayBar
    <3>0. PICK first, move : \E at \in Nat : ReplayLeaves(first, move, at)
      BY <2>8, ReplayShape
    <3>9. PICK at \in Nat : ReplayLeaves(first, move, at)
      BY <3>0
    <3>1. /\ first = NoRow \/ first = row \/ first.id = rows + 1
          /\ first \in Row
          /\ move \in Moved /\ (move # NoMove => Suits(move, first))
          /\ row' = Trailed(first, move, at) \/ row' = NoRow
      BY <2>1, <3>9, NoRowTyped DEF ReplayLeaves
    <3>2. CASE row' = NoRow
      BY <2>1, <3>2 DEF NoRow
    <3>3. CASE row' = first
      BY <2>1, <3>1, <3>3 DEF NoRow
    <3>4. CASE row' = Trailed(first, move, at) /\ move # NoMove /\ IsOpen(first)
      <4>1. row' = [first EXCEPT !.stop = [move EXCEPT !.source = "trail"].stop,
                                 !.source = [move EXCEPT !.source = "trail"].source,
                                 !.moved = at, !.for = first.id]
        BY <3>4 DEF Trailed, WithStop
      <4>2. [move EXCEPT !.source = "trail"].stop = move.stop
        BY <3>1 DEF Moved
      <4>3. row'.stop = move.stop /\ row'.id = first.id
        BY <3>1, <4>1, <4>2 DEF Row
      <4>4. first = row
        BY <2>1, <3>1, <3>4, <4>3 DEF NoRow
      <4> QED BY <3>1, <3>4, <4>3, <4>4 DEF Suits
    <3> QED BY <3>1, <3>2, <3>3, <3>4 DEF Trailed, WithStop
  <2> QED BY <2>2, <2>3, <2>4, <2>5, <2>6, <2>7, <2>8, <2>9 DEF Next
<1>2. Spec => [][Step]_vars
  BY <1>1, AlwaysHeld, PTL DEF Spec
<1> QED BY <1>2 DEF StopTightens
-----------------------------------------------------------------------------
(* The fills.  A stop is looked for in the bars since it was set, so what  *)
(* a fill or its absence says rests on what a bar is and on their order.   *)

\* A bar of prices lies between its low and its high.
Whole(b) == /\ 0 < b.low
            /\ b.low <= b.open /\ b.open <= b.high
            /\ b.low <= b.close /\ b.close <= b.high

Wholes(q) == \A i \in DOMAIN q : Whole(q[i])

BarsWhole == /\ \A f \in Frames : Wholes(bars[f])
             /\ forming.n # 0 => Whole(forming.bar)

Ascending(q) == \A i, j \in DOMAIN q : i < j => q[i].ts < q[j].ts

Before(q, at) == \A i \in DOMAIN q : q[i].ts < at

InOrder ==
    /\ \A f \in Frames : Ascending(bars[f]) /\ Before(bars[f], Now - 1)
    /\ forming.n # 0 => forming.bar.ts < Now - 1 /\ Before(bars["4h"], forming.bar.ts)

\* What a tick and a fill are, beyond what Held says of them.
FillsTyped ==
    /\ mode \in Modes
    /\ tick.at \in {"idle", "died", "move", "check", "close"} /\ tick.fill \in Int
    /\ exit \in [of : Nat, closed : Nat, stop : Int, fill : Int]

\* No bar in this range reached the stop.
Untouched(r, until) == \A b \in Between(mode.frame, Since(r), until) : ~Touches(r, b)

\* A replay walks once the bars are stored; no bar it has walked reached the stop of
\* the row it holds since that stop was set.
Replaying ==
    mode.driver = "replay" =>
        /\ copy.row = NoRow
        /\ walked <= Len(bars[mode.frame])
        /\ walked > 0 => Len(bars["1h"]) = MaxBars[mode.driver]
        /\ IsOpen(row) => walked > 0 /\ Since(row) <= bars[mode.frame][walked].ts
        /\ IsOpen(row) /\ row.stop # Null /\ mode.stops # "off"
              => Untouched(row, bars[mode.frame][walked].ts)

Walked == Held /\ WalkTyped /\ BarsWhole /\ InOrder /\ FillsTyped /\ Replaying

-----------------------------------------------------------------------------
\* Every set of numbers that is not empty has a least one.
LEMMA LeastIn ==
    ASSUME NEW S \in SUBSET Nat, S # {}
    PROVE  \E m \in S : \A n \in S : m <= n
<1> DEFINE Below == {0..n : n \in S}
<1>1. \A n \in S : IsFiniteSet(0..n) /\ 0..n \in SUBSET Nat
  BY FS_Interval
<1>2. Below \subseteq FiniteSubsetsOf(Nat) /\ Below # {}
  BY <1>1 DEF FiniteSubsetsOf
<1> HIDE DEF Below
<1>3. PICK x \in Below : \A y \in Below : <<y, x>> \notin StrictSubsetOrdering(Nat)
  BY <1>2, FS_StrictSubsetOrderingWellFounded, WFMin
<1>4. PICK m \in S : x = 0..m
  BY DEF Below
<1>5. ASSUME NEW n \in S, n < m PROVE FALSE
  <2>1. 0..n \in Below
    BY DEF Below
  <2>2. 0..n \subseteq 0..m /\ m \in 0..m /\ m \notin 0..n
    BY <1>5
  <2>3. <<0..n, 0..m>> \in StrictSubsetOrdering(Nat)
    BY <1>1, <2>2 DEF StrictSubsetOrdering
  <2> QED BY <1>3, <1>4, <2>1, <2>3
<1> QED BY <1>5

\* The earliest of some bars is one of them.
LEMMA EarliestIn ==
    ASSUME NEW some \in SUBSET Bar, some # {}
    PROVE  Earliest(some) \in some
<1> DEFINE at == {b.ts : b \in some}
<1>1. at \in SUBSET Nat /\ at # {}
  BY DEF Bar
<1>2. PICK m \in at : \A n \in at : m <= n
  BY <1>1, LeastIn
<1>3. PICK b \in some : b.ts = m
  BY <1>2
<1>4. \A c \in some : b.ts <= c.ts
  BY <1>2, <1>3
<1> QED BY <1>4 DEF Earliest

LEMMA StoredTyped ==
    ASSUME BarsTyped, NEW f \in Frames
    PROVE  /\ bars[f] \in Seq(Bar) /\ DOMAIN bars[f] = 1..Len(bars[f]) /\ Len(bars[f]) \in Nat
           /\ \A i \in DOMAIN bars[f] : bars[f][i] \in Bar
           /\ Stored(f) \subseteq Bar
<1>1. bars[f] \in Seq(Bar)
  BY DEF BarsTyped
<1>2. DOMAIN bars[f] = 1..Len(bars[f]) /\ Len(bars[f]) \in Nat
  BY <1>1, LenProperties
<1>3. \A i \in DOMAIN bars[f] : bars[f][i] \in Bar
  BY <1>1, <1>2, ElementOfSeq
<1> QED BY <1>1, <1>2, <1>3 DEF Stored

\* The newest close is a price that is not NULL.
LEMMA ClosePositive == ASSUME BarsTyped, BarsWhole PROVE NewestClose \in Nat \ {0}
<1>1. CASE bars["1h"] = <<>>
  BY <1>1, StopsAssumption DEF NewestClose
<1>2. CASE bars["1h"] # <<>>
  <2>1. bars["1h"] \in Seq(Bar) /\ DOMAIN bars["1h"] = 1..Len(bars["1h"])
        /\ Len(bars["1h"]) \in Nat
    BY StoredTyped DEF Frames
  <2>2. Len(bars["1h"]) # 0
    BY <1>2, <2>1, EmptySeq
  <2>3. Len(bars["1h"]) \in DOMAIN bars["1h"]
    BY <2>1, <2>2
  <2>4. bars["1h"][Len(bars["1h"])] \in Bar /\ Whole(bars["1h"][Len(bars["1h"])])
    BY <2>3, StoredTyped DEF Frames, BarsWhole, Wholes
  <2> QED BY <1>2, <2>4 DEF NewestClose, Bar, Price, Whole
<1> QED BY <1>1, <1>2

\* What was found touched was stored.
LEMMA TouchedIn ==
    ASSUME BarsTyped, NEW r, NEW until, NEW frame \in Frames
    PROVE  Touched(r, until, frame) \subseteq {b \in Stored("1h") \cup Stored("4h") : Touches(r, b)}
BY DEF Touched, Scanned, Between, Other, Frames

\* A fill is a number, and no fill means that no bar of the timeframe reached the
\* stop since it was set.
LEMMA FillOrUntouched ==
    ASSUME BarsTyped, BarsWhole, NEW r \in Row, NEW until, NEW frame \in Frames,
           NEW mid \in Nat \ {0}
    PROVE  /\ StopFill(r, until, mid, frame) \in Int
           /\ StopFill(r, until, mid, frame) = Null /\ IsOpen(r) /\ r.stop # Null
                => \A b \in Between(frame, Since(r), until) : ~Touches(r, b)
<1> DEFINE touched == Touched(r, until, frame)
<1>1. touched \in SUBSET Bar
  BY TouchedIn, StoredTyped DEF Frames
<1>2. \A b \in touched : Whole(b)
  <2>1. \A f \in Frames : \A b \in Stored(f) : Whole(b)
    BY DEF Stored, BarsWhole, Wholes
  <2> QED BY <2>1, TouchedIn DEF Frames
<1>3. r.stop \in Int
  BY DEF Row, Price
<1>4. ASSUME touched # {}, r.stop # Null
      PROVE  FillIn(r, Earliest(touched)) \in Int /\ FillIn(r, Earliest(touched)) # Null
  <2>1. Earliest(touched) \in Bar /\ Whole(Earliest(touched))
    BY <1>1, <1>2, <1>4, EarliestIn
  <2> QED BY <1>3, <1>4, <2>1 DEF FillIn, Whole, Bar, Price, Null
<1>5. ASSUME NEW b \in Between(frame, Since(r), until), Touches(r, b) PROVE touched # {}
  <2>1. b \in Scanned(r, until, frame)
    BY DEF Scanned
  <2> QED BY <1>5, <2>1 DEF Touched
<1> HIDE DEF touched
<1>6. StopFill(r, until, mid, frame) =
        IF ~IsOpen(r) \/ r.stop = Null THEN Null
        ELSE IF touched # {} THEN FillIn(r, Earliest(touched))
        ELSE IF Through(r.side, mid, r.stop) THEN mid ELSE Null
  BY DEF StopFill, touched
<1>7. StopFill(r, until, mid, frame) \in Int
  BY <1>4, <1>6 DEF Null
<1>8. ASSUME StopFill(r, until, mid, frame) = Null, IsOpen(r), r.stop # Null
      PROVE  touched = {}
  BY <1>4, <1>6, <1>8
<1> QED BY <1>5, <1>7, <1>8

\* A later bar at the end keeps bars whole and in order.
LEMMA Appended ==
    ASSUME NEW q \in Seq(Bar), NEW b \in Bar, NEW at \in Nat,
           Wholes(q), Whole(b), Ascending(q), Before(q, b.ts), b.ts < at
    PROVE  Wholes(Append(q, b)) /\ Ascending(Append(q, b)) /\ Before(Append(q, b), at)
<1>1. /\ DOMAIN q = 1..Len(q) /\ Len(q) \in Nat
      /\ \A i \in DOMAIN q : q[i] \in Bar
  BY LenProperties, ElementOfSeq
<1>2. /\ DOMAIN Append(q, b) = 1..Len(q) + 1
      /\ \A i \in 1..Len(q) : Append(q, b)[i] = q[i]
      /\ Append(q, b)[Len(q) + 1] = b
  BY AppendProperties, LenProperties
<1>3. \A i \in DOMAIN Append(q, b) : i \in DOMAIN q \/ i = Len(q) + 1
  BY <1>1, <1>2
<1>4. Wholes(Append(q, b))
  BY <1>1, <1>2, <1>3 DEF Wholes
<1>5. \A i \in 1..Len(q) : q[i].ts \in Nat /\ q[i].ts < b.ts /\ b.ts \in Nat
  BY <1>1 DEF Before, Bar
<1>6. Before(Append(q, b), at)
  BY <1>1, <1>2, <1>3, <1>5 DEF Before, Bar
<1>7. ASSUME NEW i \in DOMAIN Append(q, b), NEW j \in DOMAIN Append(q, b), i < j
      PROVE  Append(q, b)[i].ts < Append(q, b)[j].ts
  <2>1. i \in 1..Len(q)
    BY <1>1, <1>2, <1>7
  <2>2. CASE j \in 1..Len(q)
    BY <1>1, <1>2, <1>7, <2>1, <2>2 DEF Ascending
  <2>3. CASE j = Len(q) + 1
    BY <1>2, <1>5, <2>1, <2>3
  <2> QED BY <1>1, <1>2, <2>2, <2>3
<1> QED BY <1>4, <1>6, <1>7 DEF Ascending

\* What is earlier than an instant is earlier than a later one.
LEMMA StillBefore ==
    ASSUME NEW q \in Seq(Bar), NEW t \in Int, NEW u \in Int, Before(q, t), t <= u
    PROVE  Before(q, u)
<1>1. \A i \in DOMAIN q : q[i] \in Bar
  BY LenProperties, ElementOfSeq
<1>2. \A b \in Bar : b.ts \in Nat
  BY DEF Bar
<1> QED BY <1>1, <1>2 DEF Before

\* The bar that forms keeps its first instant and widens its range.
LEMMA FormedWhole ==
    ASSUME NEW b \in Bar, Whole(b), forming \in [n : Nat, bar : Bar],
           forming.n # 0 => Whole(forming.bar)
    PROVE  /\ Formed(b).bar \in Bar /\ Formed(b).n \in Nat \ {0} /\ Whole(Formed(b).bar)
           /\ Formed(b).bar.ts = IF forming.n = 0 THEN b.ts ELSE forming.bar.ts
<1>1. CASE forming.n = 0
  BY <1>1 DEF Formed
<1>2. CASE forming.n # 0
  <2> DEFINE wide == [forming.bar EXCEPT !.high = IF b.high > @ THEN b.high ELSE @,
                                         !.low  = IF b.low < @ THEN b.low ELSE @,
                                         !.close = b.close]
  <2>0. forming.bar \in Bar
    OBVIOUS
  <2>1. /\ wide \in Bar
        /\ wide.ts = forming.bar.ts /\ wide.open = forming.bar.open /\ wide.close = b.close
        /\ wide.high = IF b.high > forming.bar.high THEN b.high ELSE forming.bar.high
        /\ wide.low = IF b.low < forming.bar.low THEN b.low ELSE forming.bar.low
    BY <2>0 DEF Bar, Price
  <2>2. Formed(b) = [n |-> forming.n + 1, bar |-> wide]
    BY <1>2 DEF Formed
  <2> HIDE DEF wide
  <2>3. wide \in Bar /\ Whole(wide) /\ wide.ts = forming.bar.ts
    BY <1>2, <2>1 DEF Bar, Price, Whole
  <2> QED BY <1>2, <2>2, <2>3
<1> QED BY <1>1, <1>2

\* The ingest stores bars that are whole, one after the other.
LEMMA NewBarOrdered == Held /\ BarsWhole /\ InOrder /\ NewBar => BarsWhole' /\ InOrder'
<1> SUFFICES ASSUME Held, BarsWhole, InOrder, NewBar PROVE BarsWhole' /\ InOrder'
  OBVIOUS
<1>1. PICK s \in Shapes :
         LET b == [ts |-> Now - 1, open |-> NewestClose + s.open, high |-> NewestClose + s.high,
                   low |-> NewestClose + s.low, close |-> NewestClose + s.close]
             f == Formed(b)
         IN  /\ b.low > 0
             /\ bars' = [bars EXCEPT !["1h"] = Append(@, b),
                                     !["4h"] = IF f.n = Wide THEN Append(@, f.bar) ELSE @]
             /\ forming' = IF f.n = Wide THEN NoBar ELSE f
  BY DEF NewBar
<1> DEFINE b == [ts |-> Now - 1, open |-> NewestClose + s.open, high |-> NewestClose + s.high,
                 low |-> NewestClose + s.low, close |-> NewestClose + s.close]
           f == Formed(b)
<1>0. BarsTyped /\ bars \in [Frames -> Seq(Bar)] /\ forming \in [n : Nat, bar : Bar]
  BY DEF Held, BarsTyped
<1>2. b \in Bar /\ Whole(b) /\ b.ts = Now - 1
  <2>1. /\ s \in [open : Int, high : Int, low : Int, close : Int]
        /\ s.low <= s.open /\ s.open <= s.high /\ s.low <= s.close /\ s.close <= s.high
    BY StopsAssumption
  <2>2. Now - 1 \in Nat
    BY <1>0, LenProperties DEF Now, Frames
  <2>3. NewestClose \in Int /\ NewestClose + s.low > 0
    BY <1>0, <1>1, CloseTyped
  <2> QED BY <2>1, <2>2, <2>3 DEF Bar, Price, Whole
<1>3. /\ bars' = [bars EXCEPT !["1h"] = Append(@, b),
                              !["4h"] = IF f.n = Wide THEN Append(@, f.bar) ELSE @]
      /\ forming' = IF f.n = Wide THEN NoBar ELSE f
  BY <1>1
<1> HIDE DEF b, f
<1>4. /\ bars'["1h"] = Append(bars["1h"], b)
      /\ bars'["4h"] = IF f.n = Wide THEN Append(bars["4h"], f.bar) ELSE bars["4h"]
  BY <1>0, <1>3 DEF Frames
<1>5. bars["1h"] \in Seq(Bar) /\ bars["4h"] \in Seq(Bar)
  BY <1>0 DEF Frames
<1>6. Now' - 1 = Now + 1 /\ Now \in Nat /\ Now - 1 \in Nat
  <2>1. Len(bars'["1h"]) = Len(bars["1h"]) + 1 /\ Len(bars["1h"]) \in Nat
    BY <1>2, <1>4, <1>5, AppendProperties, LenProperties
  <2> QED BY <2>1 DEF Now
<1>7. /\ f.bar \in Bar /\ f.n \in Nat \ {0} /\ Whole(f.bar)
      /\ f.bar.ts = IF forming.n = 0 THEN b.ts ELSE forming.bar.ts
  BY <1>0, <1>2, FormedWhole DEF f, BarsWhole
<1>8. Before(bars["4h"], f.bar.ts) /\ f.bar.ts < Now' - 1
  BY <1>2, <1>6, <1>7 DEF InOrder, Frames, Bar
<1>9. Wholes(bars'["1h"]) /\ Ascending(bars'["1h"]) /\ Before(bars'["1h"], Now' - 1)
  <2>1. Wholes(bars["1h"]) /\ Ascending(bars["1h"]) /\ Before(bars["1h"], Now - 1)
    BY DEF BarsWhole, InOrder, Frames
  <2>2. b.ts < Now' - 1 /\ Now' - 1 \in Nat
    BY <1>2, <1>6
  <2> QED BY <1>2, <1>4, <1>5, <2>1, <2>2, Appended
<1>10. Wholes(bars'["4h"]) /\ Ascending(bars'["4h"]) /\ Before(bars'["4h"], Now' - 1)
  <2>1. Wholes(bars["4h"]) /\ Ascending(bars["4h"]) /\ Before(bars["4h"], Now - 1)
    BY DEF BarsWhole, InOrder, Frames
  <2>2. Now' - 1 \in Nat /\ Now' - 1 \in Int /\ Now - 1 \in Int /\ Now - 1 <= Now' - 1
    BY <1>6
  <2>3. CASE f.n = Wide
    <3>1. bars'["4h"] = Append(bars["4h"], f.bar)
      BY <1>4, <2>3
    <3> QED BY <1>5, <1>7, <1>8, <2>1, <2>2, <3>1, Appended
  <2>4. CASE f.n # Wide
    <3>1. bars'["4h"] = bars["4h"]
      BY <1>4, <2>4
    <3> QED BY <1>5, <2>1, <2>2, <3>1, StillBefore
  <2> QED BY <2>3, <2>4
<1>11. forming'.n # 0 => /\ Whole(forming'.bar) /\ forming'.bar.ts < Now' - 1
                         /\ Before(bars'["4h"], forming'.bar.ts)
  BY <1>3, <1>4, <1>7, <1>8 DEF NoBar
<1>12. BarsWhole'
  BY <1>9, <1>10, <1>11 DEF BarsWhole, Frames
<1> QED BY <1>9, <1>10, <1>11, <1>12 DEF InOrder, Frames

\* The signal of bar b left the row it found, none, or a new one filled at its close.
SignalLeaves(first, b) ==
    \/ first = NoRow
    \/ first = row
    \/ /\ first \in Row /\ first.id = rows + 1 /\ first.side \in Sides
       /\ first.entered = b.ts /\ first.moved = Null

\* The row as the stop of bar b found it: as the signal left it, or with a stop that
\* was set at this very bar.
StopFinds(first, last, move, b) ==
    /\ last \in Row /\ last.id = first.id /\ last.side = first.side
    /\ \/ last = first
       \/ /\ move # NoMove /\ IsOpen(first) /\ last.moved = b.ts /\ b.ts > 0

\* What one bar of a replay does, from the signal to the fill.
BarReplays(first, last, move, b) ==
    /\ SignalLeaves(first, b) /\ first \in Row
    /\ move \in ReplayMoves(first, b)
    /\ StopFinds(first, last, move, b)
    /\ LET fill == IF mode.stops = "off" THEN Null
                   ELSE StopFill(last, b.ts, b.close, mode.frame)
       IN  /\ row'  = IF fill = Null THEN last ELSE NoRow
           /\ exit' = IF fill = Null THEN exit
                      ELSE [of |-> first.id, closed |-> first.id, stop |-> last.stop,
                            fill |-> fill]

\* The bar a replay walks is a stored one, later than those it has walked.
LEMMA WalkedBar ==
    ASSUME Held, WalkTyped, BarsWhole, InOrder, ReplayBar
    PROVE  /\ mode.frame \in Frames /\ mode.driver = "replay"
           /\ walked + 1 \in DOMAIN bars[mode.frame]
           /\ bars[mode.frame][walked + 1] \in Bar /\ Whole(bars[mode.frame][walked + 1])
           /\ walked > 0 => /\ walked \in DOMAIN bars[mode.frame]
                            /\ bars[mode.frame][walked] \in Bar
                            /\ bars[mode.frame][walked].ts < bars[mode.frame][walked + 1].ts
<1>1. mode.frame \in Frames /\ BarsTyped /\ walked \in Nat /\ mode.driver = "replay"
      /\ walked < Len(bars[mode.frame])
  BY DEF Held, Mode, WalkTyped, ReplayBar
<1>2. DOMAIN bars[mode.frame] = 1..Len(bars[mode.frame]) /\ Len(bars[mode.frame]) \in Nat
      /\ \A i \in DOMAIN bars[mode.frame] : bars[mode.frame][i] \in Bar
  BY <1>1, StoredTyped
<1>3. walked + 1 \in DOMAIN bars[mode.frame] /\ (walked > 0 => walked \in DOMAIN bars[mode.frame])
  BY <1>1, <1>2
<1>4. Wholes(bars[mode.frame]) /\ Ascending(bars[mode.frame])
  BY <1>1 DEF BarsWhole, InOrder
<1>5. Whole(bars[mode.frame][walked + 1])
  BY <1>3, <1>4 DEF Wholes
<1>6. walked > 0 => bars[mode.frame][walked].ts < bars[mode.frame][walked + 1].ts
  BY <1>1, <1>3, <1>4 DEF Ascending
<1> QED BY <1>1, <1>2, <1>3, <1>5, <1>6

\* A move needs a bar after the entry, so it is made at an instant that is not NULL.
LEMMA MoveNeedsBar ==
    ASSUME Held, NEW first \in Row, NEW b \in Bar, NEW move \in ReplayMoves(first, b),
           move # NoMove
    PROVE  b.ts > 0
<1>1. move \in Moves(first, SeenInReplay(first, b.ts), mode.breakeven)
  BY DEF ReplayMoves
<1>2. SeenInReplay(first, b.ts) # {}
  BY <1>1 DEF Moves
<1>3. mode.frame \in Frames /\ BarsTyped
  BY DEF Held, Mode
<1>4. PICK k \in DOMAIN bars[mode.frame] :
         first.entered < bars[mode.frame][k].ts /\ bars[mode.frame][k].ts <= b.ts
  BY <1>2 DEF SeenInReplay
<1>5. bars[mode.frame][k] \in Bar
  BY <1>3, StoredTyped
<1> QED BY <1>4, <1>5 DEF Row, Bar

LEMMA BarReplayed ==
    ASSUME Held, WalkTyped, BarsWhole, InOrder, ReplayBar,
           NEW b, b = bars[mode.frame][walked + 1]
    PROVE  \E first, last, move : BarReplays(first, last, move, b)
<1>1. PICK action \in Sides \cup {"flat"}, regime \in {"trend_up", "trend_down", "range"},
           risk \in Risks : ReplayFrom(SignalledAt(b, action, regime, risk), b)
  BY DEF ReplayBar
<1>2. b \in Bar /\ mode.frame \in Frames /\ b.close \in Int /\ b.ts \in Nat
  BY WalkedBar DEF Bar, Price
<1> DEFINE act   == ReplayAction(row, action, regime)
           first == SignalledAt(b, action, regime, risk)
<1>3. act \in Sides \cup {"flat", "none"}
  BY DEF ReplayAction
<1>4. rows \in Nat /\ row \in Row /\ BarsTyped
  BY DEF Held, Numbered
<1>5. SignalLeaves(first, b)
  <2>1. CASE act = "none"
    BY <2>1 DEF SignalledAt, SignalLeaves
  <2>2. CASE act # "none"
    <3>1. first = Signalled(row, rows + 1, act, b.close, risk, b.ts, mode.frame)
      BY <2>2 DEF SignalledAt
    <3> HIDE DEF first, act
    <3>2. CASE act = "flat" \/ row.side = act
      BY <3>1, <3>2 DEF Signalled, SignalLeaves
    <3>3. CASE act \in Sides /\ row.side # act
      <4>1. first = Opened(rows + 1, act, b.close, risk, b.ts, mode.frame)
        BY <3>1, <3>3 DEF Signalled, Sides
      <4>2. first \in Row
        BY <1>2, <1>4, <3>3, <4>1, OpenedTyped
      <4> QED BY <3>3, <4>1, <4>2 DEF Opened, SignalLeaves
    <3> QED BY <1>3, <2>2, <3>2, <3>3
  <2> QED BY <2>1, <2>2
<1>6. ReplayFrom(first, b)
  BY <1>1
<1> HIDE DEF first, act
<1>7. first \in Row
  BY <1>4, <1>5, NoRowTyped DEF SignalLeaves
<1>8. PICK move \in ReplayMoves(first, b) : ReplayStop(first, move, b)
  BY <1>6 DEF ReplayFrom
<1> DEFINE last == Trailed(first, move, b.ts)
<1>9. StopFinds(first, last, move, b)
  <2>1. CASE move = NoMove \/ ~IsOpen(first)
    BY <1>7, <2>1 DEF Trailed, WithStop, StopFinds
  <2>2. CASE move # NoMove /\ IsOpen(first)
    <3>1. last = [first EXCEPT !.stop = [move EXCEPT !.source = "trail"].stop,
                               !.source = [move EXCEPT !.source = "trail"].source,
                               !.moved = b.ts, !.for = first.id]
      BY <2>2 DEF Trailed, WithStop
    <3>2. move \in Moved
      <4>1. SeenInReplay(first, b.ts) \subseteq Int /\ mode.breakeven \in BOOLEAN
        BY <1>7, SeenArePrices DEF Held, Mode
      <4>2. first.stop # Null => first.side \in Sides
        BY <1>5 DEF SignalLeaves, NoRow, Held, StopHeld
      <4>3. move \in Moves(first, SeenInReplay(first, b.ts), mode.breakeven)
        BY <2>2 DEF ReplayMoves
      <4> QED BY <1>7, <4>1, <4>2, <4>3, MoveSuits
    <3>3. [move EXCEPT !.source = "trail"].stop \in Int
          /\ [move EXCEPT !.source = "trail"].source = "trail"
      BY <3>2 DEF Moved
    <3>4. first.id \in Nat
      BY <1>7 DEF Row
    <3>5. last \in Row /\ last.id = first.id /\ last.side = first.side /\ last.moved = b.ts
      BY <1>2, <1>7, <3>1, <3>3, <3>4 DEF Row, Price
    <3>6. b.ts > 0
      BY <1>2, <1>7, <2>2, MoveNeedsBar
    <3> QED BY <2>2, <3>5, <3>6 DEF StopFinds
  <2> QED BY <2>1, <2>2
<1>10. BarReplays(first, last, move, b)
  BY <1>5, <1>7, <1>8, <1>9 DEF ReplayStop, BarReplays
<1> QED BY <1>10

\* A stop that was set at this bar has no bar to be looked for in.
LEMMA NothingAfter ==
    ASSUME BarsTyped, NEW f \in Frames, NEW r, NEW b \in Bar, Since(r) = b.ts
    PROVE  Between(f, Since(r), b.ts) = {}
<1>1. \A c \in Stored(f) : c.ts \in Nat
  BY StoredTyped DEF Bar
<1> QED BY <1>1 DEF Between, Bar

\* The stop of a bar was set at that bar, or it is the stop the bar found.
LEMMA FreshOrKept ==
    ASSUME Held, WalkTyped, BarsWhole, InOrder, Replaying, ReplayBar,
           NEW b, b = bars[mode.frame][walked + 1],
           NEW first, NEW last, NEW move, BarReplays(first, last, move, b), IsOpen(last)
    PROVE  \/ Since(last) = b.ts
           \/ /\ last = row /\ first = row /\ walked > 0
              /\ Since(row) <= bars[mode.frame][walked].ts
              /\ b \in Between(mode.frame, Since(row), b.ts)
<1>1. IsOpen(first) /\ SignalLeaves(first, b) /\ StopFinds(first, last, move, b)
  BY DEF BarReplays, StopFinds, IsOpen
<1>2. CASE last.moved = b.ts /\ b.ts > 0
  BY <1>2 DEF Since, Null
<1>3. CASE last = first /\ first = row
  <2>1. walked > 0 /\ Since(row) <= bars[mode.frame][walked].ts
    BY <1>1, <1>3, WalkedBar DEF Replaying
  <2>2. Since(row) \in Nat
    BY DEF Since, Held, Numbered, Row
  <2>3. bars[mode.frame][walked].ts < b.ts /\ b.ts \in Nat /\ bars[mode.frame][walked].ts \in Nat
    BY <2>1, WalkedBar DEF Bar
  <2>4. b \in Stored(mode.frame)
    BY WalkedBar DEF Stored
  <2> QED BY <1>3, <2>1, <2>2, <2>3, <2>4 DEF Between
<1>4. CASE last = first /\ first.entered = b.ts /\ first.moved = Null
  BY <1>4 DEF Since
<1> QED BY <1>1, <1>2, <1>3, <1>4 DEF SignalLeaves, StopFinds, IsOpen, NoRow

\* Of the bars since the stop it found was set, only the bar itself may reach it.
LEMMA OnlyThisBar ==
    ASSUME Held, WalkTyped, BarsWhole, InOrder, Replaying, ReplayBar,
           NEW b, b = bars[mode.frame][walked + 1], IsOpen(row), row.stop # Null,
           mode.stops # "off", NEW c \in Between(mode.frame, Since(row), b.ts), Touches(row, c)
    PROVE  c = b
<1>1. mode.frame \in Frames /\ BarsTyped /\ Ascending(bars[mode.frame]) /\ b \in Bar
      /\ walked + 1 \in DOMAIN bars[mode.frame] /\ mode.driver = "replay"
  BY WalkedBar DEF Held, InOrder
<1>2. walked > 0 /\ Untouched(row, bars[mode.frame][walked].ts)
  BY <1>1 DEF Replaying
<1>3. walked \in DOMAIN bars[mode.frame]
  BY <1>2, WalkedBar
<1>4. PICK i \in DOMAIN bars[mode.frame] : c = bars[mode.frame][i]
  BY DEF Between, Stored
<1>5. DOMAIN bars[mode.frame] = 1..Len(bars[mode.frame]) /\ Len(bars[mode.frame]) \in Nat
      /\ \A j \in DOMAIN bars[mode.frame] : bars[mode.frame][j].ts \in Nat
  BY <1>1, StoredTyped DEF Bar
<1>6. Since(row) < c.ts /\ c.ts <= b.ts
  BY DEF Between
<1>7. CASE i = walked + 1
  BY <1>4, <1>7
<1>8. CASE i > walked + 1
  <2>1. b.ts < c.ts
    BY <1>1, <1>4, <1>8 DEF Ascending
  <2> QED BY <1>1, <1>4, <1>5, <1>6, <2>1 DEF Bar
<1>9. CASE i <= walked
  <2>1. c.ts <= bars[mode.frame][walked].ts
    <3>1. CASE i = walked
      BY <1>4, <1>5, <3>1
    <3>2. CASE i < walked
      <4>1. c.ts < bars[mode.frame][walked].ts
        BY <1>1, <1>3, <1>4, <3>2 DEF Ascending
      <4> QED BY <1>3, <1>4, <1>5, <4>1
    <3> QED BY <1>5, <1>9, <3>1, <3>2 DEF WalkTyped
  <2>2. c \in Between(mode.frame, Since(row), bars[mode.frame][walked].ts)
    BY <1>6, <2>1 DEF Between
  <2> QED BY <1>2, <2>2 DEF Untouched
<1> QED BY <1>5, <1>7, <1>8, <1>9 DEF WalkTyped

\* What a replay fills at is a price of the bar, and its close when the bar had set the
\* stop.
LEMMA FillIsOfBar ==
    ASSUME Held, WalkTyped, BarsWhole, InOrder, Replaying, ReplayBar,
           NEW b, b = bars[mode.frame][walked + 1],
           NEW first, NEW last, NEW move, BarReplays(first, last, move, b),
           mode.stops # "off", NEW fill, fill = StopFill(last, b.ts, b.close, mode.frame),
           fill # Null
    PROVE  /\ b.low <= fill /\ fill <= b.high /\ fill \in Int
           /\ last.stop # row.stop => fill = b.close
<1>1. IsOpen(last) /\ last.stop # Null
  BY DEF StopFill
<1>2. b \in Bar /\ Whole(b) /\ mode.frame \in Frames /\ BarsTyped
  BY WalkedBar DEF Held
<1> DEFINE touched == Touched(last, b.ts, mode.frame)
<1>3. fill = IF touched # {} THEN FillIn(last, Earliest(touched)) ELSE b.close
  BY <1>1 DEF StopFill
<1>4. CASE touched = {}
  BY <1>2, <1>3, <1>4 DEF Whole, Bar, Price
<1>5. CASE touched # {}
  <2>1. Since(last) # b.ts
    <3>1. ASSUME Since(last) = b.ts PROVE FALSE
      <4>1. \A f \in Frames : Between(f, Since(last), b.ts) = {}
        BY <1>2, <3>1, NothingAfter
      <4>2. Scanned(last, b.ts, mode.frame) = {}
        BY <1>2, <4>1 DEF Scanned, Other, Frames
      <4> QED BY <1>5, <4>2 DEF Touched
    <3> QED BY <3>1
  <2>2. /\ last = row
        /\ b \in Between(mode.frame, Since(row), b.ts)
    BY <1>1, <2>1, FreshOrKept
  <2>3. touched \subseteq {c \in Between(mode.frame, Since(row), b.ts) : Touches(row, c)}
    BY <2>2 DEF Touched, Scanned
  <2>4. \A c \in touched : c = b
    BY <1>1, <2>2, <2>3, OnlyThisBar
  <2>5. touched = {b} /\ Touches(row, b)
    BY <1>5, <2>3, <2>4
  <2>6. Earliest(touched) = b
    BY <1>2, <1>5, <2>5, EarliestIn
  <2>7. fill = FillIn(row, b) /\ last.stop = row.stop
    BY <1>3, <1>5, <2>2, <2>6
  <2>8. row.stop \in Int /\ row.side \in {"long", "short"}
    BY <1>1, <2>2 DEF Held, Numbered, StopHeld, Row, Price, Sides
  <2>9. b.low <= fill /\ fill <= b.high /\ fill \in Int
    BY <1>2, <2>5, <2>7, <2>8 DEF FillIn, Touches, Through, Worst, Whole, Bar, Price
  <2> QED BY <2>7, <2>9
<1> QED BY <1>4, <1>5

-----------------------------------------------------------------------------
\* Only the walk of a replay has to keep what it found.
LEMMA WalkKeeps ==
    ASSUME Held, WalkTyped, BarsWhole, InOrder, Replaying, ReplayBar
    PROVE  Replaying'
<1>0. PICK b : b = bars[mode.frame][walked + 1]
  OBVIOUS
<1>1. PICK first, last, move : BarReplays(first, last, move, b)
  BY <1>0, BarReplayed
<1>2. UNCHANGED <<mode, bars, copy>> /\ walked' = walked + 1
      /\ Len(bars["1h"]) = MaxBars[mode.driver] /\ walked < Len(bars[mode.frame])
  BY DEF ReplayBar
<1>3. mode.frame \in Frames /\ BarsTyped /\ b \in Bar /\ mode.driver = "replay"
  BY <1>0, WalkedBar DEF Held
<1>4. copy.row = NoRow /\ walked \in Nat /\ Len(bars[mode.frame]) \in Nat
  BY <1>3, StoredTyped DEF Replaying, WalkTyped
<1>5. /\ bars'[mode'.frame][walked'] = b
      /\ walked' > 0 /\ walked' <= Len(bars'[mode'.frame])
  BY <1>0, <1>2, <1>4
<1>6. row' = last \/ row' = NoRow
  BY <1>1 DEF BarReplays
<1>7. IsOpen(row') => row' = last
  BY <1>6 DEF IsOpen, NoRow
<1>8. IsOpen(row') => Since(row') <= b.ts
  <2> SUFFICES ASSUME IsOpen(last) PROVE Since(last) <= b.ts
    BY <1>7
  <2>2. CASE Since(last) = b.ts
    BY <1>3, <2>2 DEF Bar
  <2>3. CASE last = row /\ b \in Between(mode.frame, Since(row), b.ts)
    <3>1. Since(row) < b.ts /\ Since(row) \in Nat
      BY <2>3 DEF Between, Since, Held, Numbered, Row
    <3> QED BY <1>3, <2>3, <3>1 DEF Bar
  <2> QED BY <1>0, <1>1, <2>2, <2>3, FreshOrKept
<1>9. IsOpen(row') /\ row'.stop # Null /\ mode.stops # "off"
        => \A c \in Between(mode.frame, Since(row'), b.ts) : ~Touches(row', c)
  <2> SUFFICES ASSUME IsOpen(row'), row'.stop # Null, mode.stops # "off"
               PROVE  \A c \in Between(mode.frame, Since(last), b.ts) : ~Touches(last, c)
    BY <1>7
  <2>1. row' = last /\ last \in Row
    BY <1>1, <1>7 DEF BarReplays, StopFinds
  <2>2. StopFill(last, b.ts, b.close, mode.frame) = Null
    BY <1>1, <1>6 DEF BarReplays, IsOpen, NoRow
  <2>3. b.close \in Nat \ {0}
    BY <1>0, WalkedBar DEF Whole, Bar, Price
  <2> QED BY <1>3, <2>1, <2>2, <2>3, FillOrUntouched
<1>10. (IsOpen(row) /\ row.stop # Null /\ mode.stops # "off"
          => Untouched(row, bars[mode.frame][walked].ts))'
  BY <1>2, <1>5, <1>9 DEF Untouched, Between, Stored, Since, Touches, IsOpen
<1>11. (IsOpen(row) => walked > 0 /\ Since(row) <= bars[mode.frame][walked].ts)'
  BY <1>5, <1>8 DEF IsOpen, Since
<1> QED BY <1>2, <1>4, <1>5, <1>10, <1>11 DEF Replaying

\* What the tick carries and what was filled keep their types.
LEMMA FillsKeepTypes ==
    Held /\ WalkTyped /\ BarsWhole /\ InOrder /\ FillsTyped /\ Replaying /\ [Next]_vars
       => FillsTyped'
<1> SUFFICES ASSUME Held, WalkTyped, BarsWhole, InOrder, FillsTyped, Replaying, [Next]_vars
             PROVE  FillsTyped'
  OBVIOUS
<1>1. /\ tick = [at |-> tick.at, now |-> tick.now, row |-> tick.row, move |-> tick.move,
                 fill |-> tick.fill]
      /\ tick.row \in Row /\ row \in Row /\ BarsTyped
  BY DEF Held, TickTyped, Numbered
<1>2. CASE NewBar
  BY <1>2 DEF NewBar, FillsTyped, NoExit, Null
<1>3. CASE Trades \/ Backfills \/ CopyReads \/ CopyWritesBack
  BY <1>3 DEF Trades, Backfills, CopyReads, CopyWritesBack, FillsTyped
<1>4. CASE TickStarts
  <2>1. PICK move : tick' = [at |-> "move", now |-> Now, row |-> row', fill |-> Null, move |-> move]
    BY <1>4 DEF TickStarts
  <2> QED BY <1>4, <2>1 DEF TickStarts, FillsTyped, Null
<1>5. CASE LockWrites
  <2>1. tick' = [tick EXCEPT !.at = "check"] /\ UNCHANGED <<mode, exit>>
    BY <1>5 DEF LockWrites
  <2>2. tick'.at = "check" /\ tick'.fill = tick.fill
    BY <1>1, <2>1
  <2> QED BY <2>1, <2>2 DEF FillsTyped
<1>6. CASE StopReads
  <2> DEFINE fill == StopFill(row, tick.now, NewestClose, row.frame)
  <2>1. fill \in Int
    <3>1. row.frame \in Frames
      BY <1>1 DEF Row
    <3> QED BY <1>1, <3>1, ClosePositive, FillOrUntouched
  <2>2. tick' = (IF fill = Null THEN Idle
                 ELSE [tick EXCEPT !.at = "close", !.row = row, !.fill = fill])
        /\ UNCHANGED <<mode, exit>>
    BY <1>6 DEF StopReads
  <2> HIDE DEF fill
  <2>3. tick'.at \in {"idle", "close"} /\ tick'.fill \in Int
    <3>1. CASE fill = Null
      BY <2>2, <3>1 DEF Idle, Null
    <3>2. CASE fill # Null
      <4>1. tick' = [at |-> "close", now |-> tick.now, row |-> row, move |-> tick.move,
                     fill |-> fill]
        BY <1>1, <2>2, <3>2
      <4> QED BY <2>1, <4>1
    <3> QED BY <3>1, <3>2
  <2> QED BY <2>2, <2>3 DEF FillsTyped
<1>7. CASE StopCloses
  <2>1. [of |-> tick.row.id, closed |-> row.id, stop |-> tick.row.stop, fill |-> tick.fill]
          \in [of : Nat, closed : Nat, stop : Int, fill : Int]
    BY <1>1 DEF FillsTyped, Row, Price
  <2> QED BY <1>7, <2>1 DEF StopCloses, FillsTyped, Idle, Null
<1>8. CASE TickDies
  <2>1. tick' = [Idle EXCEPT !.at = "died"] /\ UNCHANGED <<mode, exit>>
    BY <1>8 DEF TickDies
  <2>2. tick'.at = "died" /\ tick'.fill = Null
    BY <2>1 DEF Idle
  <2> QED BY <2>1, <2>2 DEF FillsTyped, Null
<1>9. CASE ReplayBar
  <2>0. PICK b : b = bars[mode.frame][walked + 1]
    OBVIOUS
  <2>1. PICK first, last, move : BarReplays(first, last, move, b)
    BY <1>9, <2>0, BarReplayed
  <2>2. UNCHANGED <<mode, tick>>
    BY <1>9 DEF ReplayBar
  <2>3. PICK fill : /\ fill = StopFill(last, b.ts, b.close, mode.frame)
                    /\ \/ exit' = exit
                       \/ /\ mode.stops # "off" /\ fill # Null
                          /\ exit' = [of |-> first.id, closed |-> first.id, stop |-> last.stop,
                                      fill |-> fill]
    BY <2>1 DEF BarReplays
  <2>4. mode.stops # "off" /\ fill # Null => fill \in Int
    BY <1>9, <2>0, <2>1, <2>3, FillIsOfBar
  <2>5. first.id \in Nat /\ last.stop \in Int
    BY <2>1 DEF BarReplays, StopFinds, Row, Price
  <2> QED BY <2>2, <2>3, <2>4, <2>5 DEF FillsTyped
<1>10. CASE UNCHANGED vars
  BY <1>10 DEF vars, FillsTyped
<1> QED BY <1>2, <1>3, <1>4, <1>5, <1>6, <1>7, <1>8, <1>9, <1>10 DEF Next

LEMMA StepWalked == Walked /\ [Next]_vars => Walked'
<1> SUFFICES ASSUME Walked, [Next]_vars PROVE Walked'
  OBVIOUS
<1>1. Held' /\ WalkTyped'
  BY StepHeld DEF Walked
<1>2. FillsTyped'
  BY FillsKeepTypes DEF Walked
<1>3. BarsWhole' /\ InOrder'
  <2>1. CASE NewBar
    BY <2>1, NewBarOrdered DEF Walked
  <2>2. CASE UNCHANGED <<bars, forming>>
    BY <2>2 DEF Walked, BarsWhole, InOrder, Now
  <2> QED BY <2>1, <2>2 DEF Next, Trades, Backfills, CopyReads, CopyWritesBack, TickStarts,
                            LockWrites, StopReads, StopCloses, TickDies, ReplayBar, vars
<1>4. Replaying'
  <2>1. CASE mode'.driver # "replay"
    BY <2>1 DEF Replaying
  <2>2. CASE ReplayBar
    BY <2>2, WalkKeeps DEF Walked
  <2>3. CASE mode'.driver = "replay" /\ NewBar
    <3>1. UNCHANGED <<mode, row, copy, walked>> /\ Len(bars["1h"]) < MaxBars[mode.driver]
          /\ walked \in Nat
      BY <2>3 DEF NewBar, Walked, WalkTyped
    <3>2. walked = 0 /\ copy.row = NoRow /\ ~IsOpen(row)
      <4>1. BarsTyped /\ Len(bars["1h"]) \in Nat
        BY StoredTyped DEF Walked, Held, Frames
      <4>2. MaxBars[mode.driver] \in Nat
        BY StopsAssumption DEF Walked, Held, Mode
      <4> QED BY <2>3, <3>1, <4>1, <4>2 DEF Walked, Replaying
    <3>3. Len(bars'[mode'.frame]) \in Nat
      BY <1>1, StoredTyped DEF Held, BarsTyped, Mode
    <3>4. ~(walked' > 0) /\ walked' <= Len(bars'[mode'.frame])
      BY <3>1, <3>2, <3>3
    <3>5. ~IsOpen(row)'
      BY <3>1, <3>2 DEF IsOpen
    <3> QED BY <3>1, <3>2, <3>4, <3>5 DEF Replaying
  <2>4. CASE UNCHANGED vars
    BY <2>4 DEF Walked, Replaying, Untouched, Between, Stored, vars
  <2>5. ASSUME mode'.driver = "replay",
               \/ Trades \/ Backfills \/ CopyReads \/ CopyWritesBack
               \/ TickStarts \/ LockWrites \/ StopReads \/ StopCloses \/ TickDies
        PROVE  FALSE
    <3>1. mode.driver = "replay"
      BY <2>5 DEF Trades, Backfills, CopyReads, CopyWritesBack, TickStarts, LockWrites,
                  StopReads, StopCloses, TickDies
    <3>2. tick.at = "idle" /\ copy.row = NoRow
      BY <3>1 DEF Walked, Held, ReplayAlone, Replaying
    <3> QED BY <2>5, <3>1, <3>2 DEF Trades, Backfills, CopyReads, CopyWritesBack, TickStarts,
                                    LockWrites, StopReads, StopCloses, TickDies
  <2> QED BY <2>1, <2>2, <2>3, <2>4, <2>5 DEF Next
<1> QED BY <1>1, <1>2, <1>3, <1>4 DEF Walked

\* The invariant that the theorems about fills rest on.
LEMMA AlwaysWalked == Spec => []Walked
<1>1. Init => Walked
  <2> SUFFICES ASSUME Init PROVE Walked
    OBVIOUS
  <2>1. Held /\ WalkTyped
    BY InitHeld DEF Init, WalkTyped
  <2>2. \A f \in Frames : DOMAIN bars[f] = {}
    <3>1. \A f \in Frames : bars[f] = <<>>
      BY DEF Init
    <3>2. DOMAIN (<<>>) = {}
      OBVIOUS
    <3> QED BY <3>1, <3>2
  <2>3. BarsWhole /\ InOrder
    BY <2>2 DEF Init, NoBar, BarsWhole, InOrder, Wholes, Ascending, Before
  <2>4. FillsTyped
    BY DEF Init, FillsTyped, Idle, NoExit, Null
  <2>5. Replaying
    <3>1. mode.driver = "replay" => row = NoRow /\ copy.row = NoRow /\ walked = 0
      BY DEF Init, NoCopy
    <3>2. Len(bars[mode.frame]) \in Nat
      BY <2>1, StoredTyped DEF Held, Mode
    <3> QED BY <3>1, <3>2 DEF Replaying, IsOpen, NoRow
  <2> QED BY <2>1, <2>3, <2>4, <2>5 DEF Walked
<1> QED BY <1>1, StepWalked, PTL DEF Spec

-----------------------------------------------------------------------------
\* Every variable has its type, in the ledger as in a replay.
THEOREM StopsTyped == Spec => []TypeOK
<1>1. Walked => TypeOK
  <2> SUFFICES ASSUME Walked PROVE TypeOK
    OBVIOUS
  <2>1. /\ mode \in Modes /\ row \in Row /\ rows \in Nat /\ walked \in Nat
        /\ bars \in [Frames -> Seq(Bar)] /\ forming \in [n : Nat, bar : Bar]
    BY DEF Walked, Held, BarsTyped, Numbered, WalkTyped, FillsTyped
  <2>2. copy \in [row : Row, wrote : Nat]
    <3>1. copy = [row |-> copy.row, wrote |-> copy.wrote] /\ copy.row \in Row /\ copy.wrote \in Nat
      BY DEF Walked, Held, CopyHeld
    <3> QED BY <3>1
  <2>3. exit \in [of : Nat, closed : Nat, stop : Price, fill : Price]
    BY DEF Walked, FillsTyped, Price
  <2>4. tick \in [at : {"idle", "died", "move", "check", "close"}, now : Nat, row : Row,
                  move : [stop : Price, source : {"none", "breakeven", "trail"}], fill : Price]
    <3>1. /\ tick = [at |-> tick.at, now |-> tick.now, row |-> tick.row, move |-> tick.move,
                     fill |-> tick.fill]
          /\ tick.at \in {"idle", "died", "move", "check", "close"}
          /\ tick.now \in Nat /\ tick.row \in Row /\ tick.fill \in Price
          /\ tick.move \in [stop : Price, source : {"none", "breakeven", "trail"}]
      BY DEF Walked, Held, TickTyped, FillsTyped, Moved, Price
    <3> QED BY <3>1
  <2> QED BY <2>1, <2>2, <2>3, <2>4 DEF TypeOK
<1> QED BY <1>1, AlwaysWalked, PTL

\* A tick that comes to its end has closed a row whose stop a bar of its timeframe
\* reached since it was set, whatever bars there are (stops.py:123).
THEOREM StopTouchedFills == Spec => TouchedStopFills
<1> DEFINE Step == (tick.at = "check" /\ tick'.at = "idle" /\ tick.row = row
                      /\ IsOpen(row) /\ tick.row.stop # Null /\ tick.move = NoMove)
                   => \A b \in Between(row.frame, Since(tick.row), tick.now) : ~Touches(tick.row, b)
<1>1. Walked /\ [Next]_vars => [Step]_vars
  <2> SUFFICES ASSUME Walked, Next, tick.at = "check", tick'.at = "idle", tick.row = row,
                      IsOpen(row), tick.row.stop # Null
               PROVE  \A b \in Between(row.frame, Since(tick.row), tick.now) : ~Touches(tick.row, b)
    BY DEF vars
  <2>1. StopReads
    <3>1. mode.driver # "replay"
      BY DEF Walked, Held, ReplayAlone
    <3>2. CASE TickDies
      <4>1. tick' = [Idle EXCEPT !.at = "died"]
        BY <3>2 DEF TickDies
      <4> QED BY <4>1 DEF Idle
    <3> QED BY <3>1, <3>2 DEF Next, NewBar, Trades, Backfills, CopyReads, CopyWritesBack,
                              TickStarts, LockWrites, StopCloses, ReplayBar
  <2> DEFINE fill == StopFill(row, tick.now, NewestClose, row.frame)
  <2>2. fill = Null
    <3>1. tick' = IF fill = Null THEN Idle
                  ELSE [tick EXCEPT !.at = "close", !.row = row, !.fill = fill]
      BY <2>1 DEF StopReads
    <3>2. tick = [at |-> tick.at, now |-> tick.now, row |-> tick.row, move |-> tick.move,
                  fill |-> tick.fill]
      BY DEF Walked, Held, TickTyped
    <3> HIDE DEF fill
    <3>3. ASSUME fill # Null PROVE tick'.at = "close"
      BY <3>1, <3>2, <3>3
    <3> QED BY <3>3
  <2>3. row \in Row /\ row.frame \in Frames /\ BarsTyped /\ BarsWhole
    BY DEF Walked, Held, Numbered, Row
  <2> QED BY <2>2, <2>3, ClosePositive, FillOrUntouched
<1>2. Spec => [][Step]_vars
  BY <1>1, AlwaysWalked, PTL DEF Spec
<1> QED BY <1>2 DEF TouchedStopFills

\* No row of a replay survives a bar that reached its stop, whatever that bar did for
\* the trail (replay.py:348).
THEOREM TouchedClosesReplay == Spec => ReplayClosesTouched
<1> DEFINE Step == (walked' # walked /\ IsOpen(row) /\ row.stop # Null /\ mode.stops # "off"
                      /\ row.id = row'.id)
                   => ~Touches(row, bars[mode.frame][walked + 1])
<1>1. Walked /\ [Next]_vars => [Step]_vars
  <2> SUFFICES ASSUME Walked, Next, walked' # walked, IsOpen(row), row.stop # Null,
                      mode.stops # "off", row.id = row'.id,
                      NEW b, b = bars[mode.frame][walked + 1]
               PROVE  ~Touches(row, b)
    BY DEF vars
  <2>1. ReplayBar
    BY DEF Next, NewBar, Trades, Backfills, CopyReads, CopyWritesBack, TickStarts, LockWrites,
           StopReads, StopCloses, TickDies
  <2>2. Held /\ WalkTyped /\ BarsWhole /\ InOrder /\ Replaying
    BY DEF Walked
  <2>3. PICK first, last, move : BarReplays(first, last, move, b)
    BY <2>1, <2>2, BarReplayed
  <2>4. /\ mode.frame \in Frames /\ BarsTyped /\ b \in Bar /\ b.close \in Nat \ {0}
        /\ row \in Row /\ row.id \in Nat /\ row.id > 0 /\ row.id <= rows /\ rows \in Nat
    BY <2>1, <2>2, WalkedBar DEF Held, Numbered, Row, Bar, Price, Whole
  <2>5. row' = last /\ StopFill(last, b.ts, b.close, mode.frame) = Null
    BY <2>3, <2>4 DEF BarReplays, NoRow
  <2>6. first = row
    BY <2>3, <2>4, <2>5 DEF BarReplays, SignalLeaves, StopFinds, NoRow
  <2>7. StopFill(row, b.ts, b.close, mode.frame) = Null
    <3>1. CASE last = row
      BY <2>5, <3>1
    <3>2. CASE move # NoMove
      BY <2>3, <2>6, <3>2 DEF BarReplays, ReplayMoves
    <3> QED BY <2>3, <2>6, <3>1, <3>2 DEF BarReplays, StopFinds
  <2>8. b \in Between(mode.frame, Since(row), b.ts)
    <3>1. walked > 0 /\ Since(row) <= bars[mode.frame][walked].ts
      BY <2>1, <2>2, WalkedBar DEF Replaying
    <3>2. bars[mode.frame][walked].ts < b.ts /\ bars[mode.frame][walked] \in Bar
      BY <2>1, <2>2, <3>1, WalkedBar
    <3>3. Since(row) \in Nat /\ b.ts \in Nat /\ bars[mode.frame][walked].ts \in Nat
      BY <2>4, <3>2 DEF Since, Row, Bar
    <3>4. b \in Stored(mode.frame)
      BY <2>1, <2>2, WalkedBar DEF Stored
    <3> QED BY <3>1, <3>2, <3>3, <3>4 DEF Between
  <2> QED BY <2>2, <2>4, <2>7, <2>8, FillOrUntouched
<1>2. Spec => [][Step]_vars
  BY <1>1, AlwaysWalked, PTL DEF Spec
<1> QED BY <1>2 DEF ReplayClosesTouched

\* A replay fills within the bar it walks, and at its close when that bar had set the
\* stop: it uses nothing that was known later (replay.py:349).
THEOREM ReplayFillsInItsBar == Spec => ReplayFillsInBar
<1> DEFINE Step == (walked' # walked /\ exit' # exit)
                   => LET b == bars[mode.frame][walked + 1]
                      IN  /\ b.low <= exit'.fill /\ exit'.fill <= b.high
                          /\ exit'.stop # row.stop => exit'.fill = b.close
<1>1. Walked /\ [Next]_vars => [Step]_vars
  <2> SUFFICES ASSUME Walked, Next, walked' # walked, exit' # exit,
                      NEW b, b = bars[mode.frame][walked + 1]
               PROVE  /\ b.low <= exit'.fill /\ exit'.fill <= b.high
                      /\ exit'.stop # row.stop => exit'.fill = b.close
    BY DEF vars
  <2>1. ReplayBar
    BY DEF Next, NewBar, Trades, Backfills, CopyReads, CopyWritesBack, TickStarts, LockWrites,
           StopReads, StopCloses, TickDies
  <2>2. Held /\ WalkTyped /\ BarsWhole /\ InOrder /\ Replaying
    BY DEF Walked
  <2>3. PICK first, last, move : BarReplays(first, last, move, b)
    BY <2>1, <2>2, BarReplayed
  <2>4. PICK fill : /\ fill = StopFill(last, b.ts, b.close, mode.frame)
                    /\ mode.stops # "off" /\ fill # Null
                    /\ exit' = [of |-> first.id, closed |-> first.id, stop |-> last.stop,
                                fill |-> fill]
    BY <2>3 DEF BarReplays
  <2>5. /\ b.low <= fill /\ fill <= b.high
        /\ last.stop # row.stop => fill = b.close
    BY <2>1, <2>2, <2>3, <2>4, FillIsOfBar
  <2> QED BY <2>4, <2>5
<1>2. Spec => [][Step]_vars
  BY <1>1, AlwaysWalked, PTL DEF Spec
<1> QED BY <1>2 DEF ReplayFillsInBar
=============================================================================
