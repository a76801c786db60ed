# Verification of jarvise

jarvise is a crypto trading desk: it ingests candles, analyses them, puts the
resulting signals on an approval queue, fills approved ones on a paper ledger or
(gated) as live spot orders at Binance, and runs a Telegram "assist" that executes
futures trades the owner confirms. This directory models the parts whose errors
cost money and that tests hardly reach: several processes working on one SQLite
file, one Redis switch and one exchange account, with lost responses and deaths in
between.

Paths below are relative to the repository's `src/`.

## 1. The system

### Processes and what they share

| process | entry | work |
| --- | --- | --- |
| jobs service | `jarvise/jobs.py`, a threading HTTP server that n8n calls on a schedule | paper run (enqueue), expiry, auto decide, risk monitor, live reconcile, shadow veto, ingest, the assist's scan, morning, watch and weekly jobs, reports |
| web app | `jarvise_web/app.py` | owner's approve, reject, close, kill switch, universe, caps, EV-gate reset; runs jobs itself when no jobs service is configured |
| CLI | `jarvise/cli.py`, `jarvise_paper/cli.py`, `jarvise_trade/cli.py` | the same operations by hand, flatten included |
| Telegram listener | a thread of the jobs service, `jarvise_assist/listen.py` | taps and menus of the assist |

They share one SQLite database (WAL, the `sqlite3` module's implicit
transactions: a transaction opens at the first write, never at a SELECT), the kill
switch, the risk caps and the job locks in Redis, and the Binance accounts. There is
no other coordination: no process knows what another one has read.

### Components

| component | state | operations | hard because | correct when |
| --- | --- | --- | --- | --- |
| Approval queue (`jarvise_paper/approval.py`, `jarvise_ingest/db.py:2398-2760`) | `approval_queue`, unique pending row per (symbol, timeframe) | enqueue, approve, reject, expire, cancel on halt | statements of different processes interleave; a row's id outlives the card on it | a card meets one end; nobody fills what he did not review |
| Paper ledger (`engine.py`, `marking.py`, `close.py`) | `paper_account`, `paper_positions`, `paper_orders` | apply_signal, mark, owner close | only approve uses BEGIN IMMEDIATE | positions and cash are what the orders net to; positions trace to fills |
| Paper stops (`stops.py`, `profit_lock.py`, the replay's loop) | the stop columns of a position | move, fill, backfill, write back | written by symbol from old copies | a stop only tightens; a touched stop fills |
| Auto decide (`auto_decide.py`, `feedback.py`) | the latch of the EV gate | review a card, apply the verdict | a review takes seconds | the verdict hits the card reviewed; a latched gate waits for the owner |
| Caps and safety (`jarvise_risk/`) | Redis kill switch and caps | check, set, engage, veto | Redis may be down | a halt stops new cards; a tighter cap refuses more |
| Live orders (`jarvise_trade/`) | `live_orders`, the venue's orders and balance | buy, protective stop, sell, flatten, reconcile | lost responses, crashes, two sellers, stale rows | one buy per approval, counted once; a position ends up sold or protected |
| Single flight (`jarvise/jobs.py:232-287`) | a Redis key per job, a lock per process | acquire, release, lapse | Redis fails, runs outlive the TTL | runs of one job do not overlap |
| Assist execution (`execute.py`, `futures.py`, `store.py`, `listen.py`) | intents, watch rows, futures orders | confirm, entry, stop move, exit, emergency close | multi-step venue protocols with unknown outcomes, taps delivered twice | an order is sent once; no position without a stop unless the owner was told |
| Assist watch (`watch.py`) | watch rows, alarm latch | read, warn, advise, close, sweep | works on what it read at its start | a bare position is warned about, what a closed one leaves is swept |
| Assist signals (`signals.py`, `pause.py`, `menu.py`) | signals, tracks, one settings row, one edge row | scan, morning, pause, toggle, skip | three writers rewrite whole rows | an idea is pushed once; off means off |
| Assist journal (`real_trades.py`, `journal.py`) | real trades, journal, cards | rebuild, sync, send, grade | rebuilds from windows of a lagging history | a closed trade has one card with the owner's last grade |
| Sizing (`sizing.py`) | none | size, quote again, admit, share margin | rounding, two rules for one limit | nothing risks or borrows more than its share |
| Analysis (`jarvise_analyze/`) | `analysis_output` | live rule, higher timeframe, strategies, ranking | several callers, missing bars | it acts on finished bars only, and a veto stays a veto |
| Universe (`universe.py`, `db.py:2190-2375`) | membership intervals | seed, add, remove, reset | any order of edits | the past of a replay stays as it was |
| Shadow veto (`shadow_track.py`, `shadow_veto.py`) | cached track, verdicts | walk, sync, ask, score | cached results of a past that is revised | the cache is the walk; an opinion is given blind |
| Ingest, context, exchange snapshots, notify, metrics, RAG | candles, reports, indexes | fetch, compute, publish | mostly not | idempotent upserts |

PROJECT.json lists each with its status, and the hazards of each at its line.

## 2. Modules

| module | models | extends |
| --- | --- | --- |
| `PaperEngine` | the arithmetic of one signal: legs, positions, cash, write-back | |
| `ApprovalQueue` | the rows of `approval_queue` and what each statement does to them | |
| `PaperDesk` | every process that works on queue and ledger, step by step | both above |
| `PaperDeskProps` | its type invariant and properties | `PaperDesk` |
| `DecisionBook` | abstract: cards are put on a table, filled once or dropped | |
| `PaperStops` | the stop of a position over prices, live and in a replay | |
| `SingleFlight` | the job lock | |
| `LiveOrders` | live orders of one symbol against a venue | |
| `FuturesVenue` | a futures position and the orders that rest beside it | |
| `AssistExec` | the listener: intents and the sequences of calls they start | `FuturesVenue` |
| `IntentBook` | abstract: an intent is won once and sent at most once | |
| `AssistWatch` | the watch job beside the listener | `AssistExec` |
| `AssistSignals` | ideas, pause and switch | |
| `AssistJournal` | real trades, journal rows, cards | |
| `Sizing` | sizing functions | |
| `RiskGate` | caps, kill switch and safety gate as functions | |
| `AnalysisRules` | what a bar is taken for, and its ranking | `RiskGate` |
| `Feedback` | pairing orders into trips, outcomes, the EV gate | |
| `Universe` | membership intervals | |
| `ShadowTrack` | the shadow job beside ingest, analysis and the universe | `Universe` |
| `MC*` | the instances TLC checks, and assumptions about the functions | |
| `LiveOrdersProofs`, `PaperStopsProofs`, `AssistJournalProofs` | theorems about the module named | that module |
| `AssistExecProofs` | theorems about the listener, alone and beside the watch job | `AssistWatch` |
| `PaperDeskProofs` | theorems about the desk, and about the pure rules it acts on | `PaperDesk`, `Feedback`, `AnalysisRules`, `RiskGate` |
| `ShadowTrackProofs` | theorems about the shadow job, the universe and the job lock | `ShadowTrack`, `Universe`, `SingleFlight` |
| `AssistSignalsProofs` | theorems about the signals and about sizing | `AssistSignals`, `Sizing` |
| `SetLemmas` | lemmas on least and greatest numbers, on what holds of all members of a finite set, and on sums over one | |

### PaperEngine, ApprovalQueue

These hold operators, no variables. A position is a side and the offer whose fill
opened it (the `approval_id` stamp); quantities and prices are one unit, because
the properties ask *which* legs were written and not how large they were. The
journal keeps only the sums of `paper_orders`, which is what the book is compared
with. `WrittenBack` is the important one: `apply_signal` upserts **every** position
it has read (engine.py:277-300), so a stale copy overwrites more than its symbol.

A queue row has a status, an analysis (symbol, timeframe, action), a deadline and an
`offer`: the number of the write that made it pending. The offer is history, not a
column. It tells a card from a later card under the same id, and that is what
`CardsDecidedOnce` talks about. `MarkedFailed` has no status guard because
`mark_approval_failed` has none.

### PaperDesk

A step is what a process does between two points at which another can run: one SQL
statement, one transaction, one Redis call. Each process has a program counter and
the local copies it carries.

* `Approve*`: `approve_approval` (approval.py:292-479): read the row, safety, deadline, risk, caps, then
  one transaction (claim, apply, stamp) or one of its failures. Owners name no
  expected analysis; the auto path names the one it reviewed.
* `Auto*`: `run_auto_decide`: filter, rules, brief, verdict (any), re-read, apply.
* `Enqueue*`, `Upsert*`: `enqueue_approval` and the select / insert-on-conflict / reselect / update
  of `upsert_pending_approval`, IntegrityError included.
* `Applies*`: `apply_signal` outside a transaction: cash read, positions read, write and
  commit. The write is one step: SQLite has one writer.
* `Mark*`, `Stops*`, `Halt*`: `run_risk_monitor`. `Expiry*`: `expire_approvals`. `OwnerCloses`: `close_position`.
* `OwnerTogglesKill`, `Tick`.

The live branch of approve is not here but in `LiveOrders` (`ApproveClaims`). What is
chosen freely: verdicts, stop hits, risk breaches, whether a candle exists. Left
out: notional caps and all sizes (functions of `RiskGate`), the `--auto-fill` developer path of
paper run, the monitor's skip of symbols with stale candles, and the reasons and
snapshots written beside the state.

### DecisionBook

The promise without tables: `Put` (a card, replacing older ones), `Fill`, `Drop`.
`PaperDeskProps!Decisions` instantiates it with `put <- offers`, the pending offers as
the table and the claimed offers as `filled`; `CardsDecidedOnce` is that `Spec`. It holds
even though an *approval id* can be filled twice (run `desk_double_fill`): the second
fill is of a later card that was put under the same id. The id is what the owner
sees, so the difference is a finding, while the table's guarded claim is sound.

### PaperStops

One symbol with real prices. A bar is an offset shape; 1h bars make up 4h bars. `LockWrites`
is `apply_profit_locks`, `StopReads`/`StopCloses` are `run_stop_monitor`, both in one tick that
may die (`TickDies`); `CopyReads`/`CopyWritesBack` is any writer that puts a whole row back
(marking.py:57, engine.py:295); `Backfills` is the migration of a NULL stop; `ReplayBar` is one
bar of `replay_range`. The two exceptions in `StopTightens` and `LockedIn` are what the code has:
`set_position_stop` names the symbol and not the row (db.py:2604), and a whole-row write-back
undoes a move. The monitor moves the stop *before* it looks for a fill, the replay looks first
(replay.py:348): `TouchedStopFills` says what remains true of the monitor. NULL stops are healed when the
database is opened (db.py:976). Left out: the 1d timeframe, slippage, the stale-data skip. Ticks
never overlap (single flight); a CLI risk monitor next to the job could.

### SingleFlight

`TakesRedis` (SET NX EX), `FallsBack` (any Redis error; the key may have been set all
the same), `EndsRedis` (the release script, which may not get through), `EndsLocal`,
`Dies`, `Tick`. `left` in a run is how much of its lock's life it may rely on; a run goes on
after that, as in the code.

### LiveOrders

One symbol, quantities in lots. `ledger` is `live_orders` in the order of insertion, `venue` the
venue's orders. A *task* is one call of `submit_live_for_approval` or `sell_inventory` (from
an approved flat or a flatten tick). Calls of approve come from any process (`Desks`; a call takes the first
free one), also two for one approval: the upsert can put a card back on the table while the call that claimed it is still
talking to the venue (`Reoffered`, db.py:2479). `CallStep` is the venue calls and writes of a call:
`HasInventory` → `LooksUp` → `Queries` → (`ListsStops`, `CancelsStop`, `RecordsCancel`, `Sizes` for a sell) → `Posts` → `Requeries` → `Records` →
`PlacesStop`, `RecordsStop`. `Fails` is `failed()` of sell_inventory with `_restore_stop` after it.
Any call may raise before or after the venue has carried it out (`Fault`), a
process may die between two steps (`Dies`). A row carries the time at which the call that writes it started
(`created_at_ms`), and rows are read in that order, of one time the later inserted last (`LatestIn`, `Inventory`); a call starts at the time of the latest one or later.
`raced` and `doubled` are history: the buys that two calls had both been told the venue lacks, and the
approvals of which a call started beside another. `Recon*` is `reconcile_live_orders`, which writes back the copy it listed.

Simplifications: an approval keeps its side; adjacent database reads without a call between them are one step;
a repeated note of one failure is kept once in the ledger (it moves no quantity); a
POST that raised is never carried out later (the venue's receive window defaults to 5 s, the client timeout is
30 s); fees, dust prices, minNotional and order caps are in `MinLot` and in the
free choice of `LooksUp` to block; `Spare` is coin the account holds besides.
Market fills and stop triggers are the environment's choice; a stop may fill in
part. `Thin` lets a MARKET order expire partly filled.

### FuturesVenue, AssistExec, IntentBook, AssistWatch

A level is how much profit a stop locks in, so one side stands for both. An intent is a row of
`assist_exec_intent`; a listener fetches taps (`Fetch`), stores the offset after the batch (`Store`),
claims an intent (`Claim`) and runs `Entry`, `Move` or `Exit`: one step per exchange call. A POST may be
refused, its answer may be lost, and (`Delays`) the exchange may carry it out later. `Swallow` is an
exception of a handler: that tap is never delivered again. `Crash` is the death of the process, after
which Telegram redelivers what is newer than the stored offset. `ByHand` is the owner's own trading.
`strays` remembers which entries the exchange carried out when nobody asked for them any more. A coded answer is taken to mean
that the exchange did not act: the code takes -1006 and -1007 for a refusal too (execute.py:607), which Binance also gives where
the order went through, and that case is left out.

`IntentBook` is what a confirm button promises: offered, won by one caller, sent at most once.
`ImplementsBook` is its `Spec` under a mapping of statuses and sends.

`AssistWatch` adds the tick of `run_assist_watch`. It reads positions, then orders, and goes on with what
it read while the listener trades: `EnsureRow`, `Covered`/`Warn`/`Latch`, `Advise`, `CloseRow`, `Sweep`. Listener and
tick are threads of one process and die together. `w.stored` is the tick's own copy of the row, which it decides by while
`row` may be replaced by a link; `advised` and `prior` are the no-stop rows of `assist_watch_advice`. Prices are not modelled, so
`Ensured` may take a reopening for the position of the row (an entry within 0.05 %); `mixed` remembers for which positions a row
stood for another. A time is the number of the position open at it; lots that the owner adds between a fill and its link are
counted to the link.

### AssistSignals

The scan and the morning job, statement by statement, beside the listener; `write_settings` and `write_edge`
read a whole row and write all of it back, which is two steps (`stale` remembers that one undid
another's). Which ideas are admitted is a choice here and computed in `Sizing`. `Flipped` is noted by
the scan, which is where the code reads the analysis before last. `Age` takes an idea out of the 24 hours in which
its side is not repeated (sizing.py:23, store.py:283). `lost` is history: ideas that reached the owner from a job that failed or died before it
noted so. The anchors of the streak and of the weekly loss (pause.py:130-151, 189-190) are one here: how a loss brings
a streak about is a choice (`Lose`), what matters is that its anchor keeps it from pausing again.

### AssistJournal

The history is the sequence of fills of one symbol and a time is a place in it. `Watch` sees a position
gone, syncs its window, adds journal rows and sends cards; `Report` rebuilds the whole table; `Listen` grades.
Left out: prices (a hand close at exactly the entry price is not seen as an exit, real_trades.py:581),
tags and notes under redelivery, overlap of two watch ticks (`SingleFlight`), automatic checks. The
history lags by its last fill only; what happens between two looks lies within the hour by which a
sync reaches back, what came before may not.

### Sizing, RiskGate, AnalysisRules, Feedback

Pure functions over integers: Decimals are exact in `Sizing`, floats elsewhere are integers of a small unit
and quotients are compared by products, so rounding to the sixth or eighth digit is not modelled. Ranks
are unique; the float `ceil` of a leverage is exact. The round-trip cost of
`check_caps` is left out: no caller passes it. Two things follow from the constants alone: the confidence of an
analysis never passes 0.75, so neither `MAX_SIZE_PCT` nor the cap of 0.95 is ever reached, and the one
percent ceiling never refuses an analysis of the engine at its own price unless an ATR is more
than half of it (theorem `OwnRiskIsSmall`). The stop of a long may be at or below zero when
1.5 ATR reach the price. The higher bar's age is never checked, in no caller.

### Universe, ShadowTrack

A membership row is an interval; the crypto preset only (the equity preset is listed from 2010 where a
later add defaults to 2021). `ShadowTrack` walks bars and analyses anew every time (a walk goes bar by bar over `Basis`), upserts what
the walk returns and asks a model about open entries. `revised` marks symbols whose past was written
again; for those the cache keeps rows no walk returns. Left out: the short side and opposite exits in the
run's instance, the write transaction that stays open across model calls (shadow_veto.py:333: up to 180 s
against a busy timeout of 5 s, db.py:360), which the model represents only as a lock others wait for (`Unlocked`).

## 3. Runs

| run | instance | checks |
| --- | --- | --- |
| `desk_approvals` | 1 owner, 1 auto, 2 enqueuers, 2 ids, long/flat, 2 offers | `TypeOK`, `BookMatchesJournal`, `AutoFillsReviewed`, `CardsDecidedOnce`; the assumptions about `RiskGate`, `AnalysisRules`, `Feedback` |
| `desk_jobs` | owner, enqueuer, risk monitor, closer and expiry as five processes; 2 clock values; fairness | `LapsedCardsResolved`, `PositionsTraceToFills` |
| `desk_double_fill` | one owner, one enqueuer | `ApprovalFillsOnce` is violated |
| `flight` | 2 processes x 2 threads, TTL 2, 5 tokens | `RunsExclusive`, `OrphanLapses` |
| `live` | seven small scenes, see below; fairness | `OneBuyPerApproval`, `BuysCountedOnce`, `FlattenSettles` |
| `stops` | 4 bar shapes; 3 bars live, 4 in a replay with all options; 2 rows, 1 write-back | `TypeOK`, `LockedIn`, `StopTightens`, `TouchedStopFills`, `ReplayClosesTouched`, `ReplayFillsInBar` |
| `exec` | 2 intents of any kind, 1 listener, 2 taps, 2 faults, 1 crash, 1 hand trade, late execution | `TypeOK`, `SentOnce`, `BareIsTold`, `ImplementsBook`, `CoverNeverCancelled` |
| `watch` | 1 intent, partial fills, 1 tap, 1 fault, 1 crash, 1 hand trade; fairness | `SilentIsHeard`, `BareIsAlarmed`, `OrphansSwept` |
| `watch_strips_stop` | the same without any fault | `CoverNeverCancelled` is violated |
| `signals` | both sides, 2 ideas, 1 further analysis, 1 losing streak, 2 mishaps; fairness | `OneHeldPerSymbol`, `SentIsTracked`, `StreakPausesOnce`, `OffMeansOff`, `IdeaSeenOnce`, `HeldIsDecided`; the assumptions about `Sizing` |
| `journal` | 4 fills, 2 attempts, a fail tap and then a pass tap, 2 mishaps; fairness | `ClosedRowsSold`, `CardOnce`, `GradeIsLastTap`, `ReopenedOnlyByOldRead`, `ClosedIsJournaled`, `JournaledIsCarded` |
| `shadow` | 1 symbol, long side, clock to 3, 2 analyses, 1 edit of the universe | `TrackIsWalk`, `PastStands`, `ScoresStand` |

### What the runs show

* With transactional approves only, the ledger adds up; with one direct writer next to
  them it does not: a monitor reads the book, an approve commits, the monitor writes
  its copy back (engine.py:277; tests/test_ledger_atomicity.py:1 tests the transactional path only). Orders
  are appended, so they keep the fill the position row has lost. Positions that exist are
  still the work of a claimed card (`PositionsTraceToFills`).
* The guarded claim holds every card to one end, whatever the order of approve,
  overwrite and reject (`desk_approvals`), and of expiry and halt (theorem `DeskImplementsDecisions`). But an id can be filled twice, because the
  upsert resurrects a row it read before the claim (`desk_double_fill`).
* The auto path never *fills* an analysis that was not shown to the model (or to the rules), because it names the analysis of the row it listed
  and not of the row it read again (`Named`); it can *reject* one it did not show, as the
  reject names the id only (auto_decide.py:543).
* Redis runs exclude each other for as long as their lock lives. The fallback lock
  does not exclude a Redis run in the same process, although jobs.py:254 says so.
* Of calls that come one after the other, a lost response or a death never makes a second BUY, and a recovered BUY is
  counted once. Two calls of one approval at once can do both: the upsert of `desk_double_fill` puts a claimed card back, a second
  call claims it (approval.py:490), both ask the venue before either has sent its BUY (submit.py:924), and both send it. The promise "A retried approve (same id) [...]
  never POSTs twice" (docs/ops/live-enable-checklist.md:77) does not hold then, and two rows count one fill. Those are the exceptions `raced` and `doubled`.
  If MARKET orders fill whole, a lasting kill switch leaves the
  position sold, protected or noted as dust, unless two such BUYs went out: when they started at different times and an answer was lost, the id
  of the flatten may be spent on the later one when the row of the earlier comes, which then stays unsold. If one expires partly filled, the rest is held
  with no stop for good (flatten.py:108), because `partially_filled` means "already
  sold". A BUY recovered after a lost response gets no stop (submit.py:939, against
  docs/ops/live-enable-checklist.md:51). The reuse of the restore id `jrv-xr<approval>` (submit.py:491) can subtract
  one partial stop fill from the inventory twice.
* A tap acts once, however often it is delivered. A position left bare by the listener was reported as
  such, or its intent stays "in flight" for ever, or its entry was reported as failed and carried out
  later. No step takes the stops from a position that stays, with two exceptions (`strays`, `manual`): a position that
  an entry opened after it was given up, or the owner by hand, can lose its cover. With three intents TLC finds how: the
  next entry clears "stale" orders (execute.py:1366), or an exit cancels what is left (execute.py:2086), and neither looks at
  the position again. The watch job warns of every bare position, but its tick can itself cancel the stop of a
  position that was opened while it ran (`watch_strips_stop`). It keeps silent only about a position whose
  owner it warned while that position was open (`SilentIsHeard`), which is what store.py:912 asks, with one exception
  (`mixed`): when an entry is linked between a warning and its latch (watch.py:421), the latch of the old trade lands on the
  row of the new one, and when a position is reopened within 0.05 % of the old entry (watch.py:200), the tick goes on with the old row.
  In both cases an uncovered position is not warned about until its cover changes. A partial fill of an exit
  or emergency close counts as closed (execute.py:752, against the docstring at 714).
* Within its 24 hours an idea is repeated only at a turn of the analysis, or where the job that had shown it failed or died before it noted
  so (`IdeaSeenOnce`); of jobs that overlap nothing is said (`used.mixed`).
* The owner's switch can be turned on again by a job that read the settings before his tap
  (exception `"cfg" \in stale` of `OffMeansOff`), and a losing streak can pause twice when the edge row is rewritten.
* Any rebuild leaves only trades closed that were sold; a report built before an exit writes the trade back
  as open (`ReopenedOnlyByOldRead`), and its card waits for the next rebuild. A buy by hand
  resets the watch row, so that the sync misses the entry (watch.py:219).
* The monitor forgets a touch of the old stop when it moves the stop in the same tick; the replay does not.
* The cached shadow track is what a walk returns unless the past was revised. A verdict is given once and stands, and so does the outcome it
  is scored by (`ScoresStand`); a trade that the table knew to be closed gets no opinion that is scored, with one exception: a
  run that starts in the very instant the next bar closes counts as on time (shadow_veto.py:68). That is the order in the tables. A verdict
  bears the start of its run (shadow_veto.py:393), so that with several calls of up to 30 s the model may be asked after the bar of the exit has closed;
  what keeps that from the answer is that the brief ends at the bar of the entry, which is not modelled. The window of the H3 forward test is never frozen, and its
  verdict can flip (docs/research/2026-10-25-donchian-trail-forward.md:23).

### What the assumptions of the runs show

TLC evaluates the ASSUMEs of `MCPaperDesk` and `MCAssistSignals` over small inputs.

* `PassesWithinCaps`, `EveryCapBites`: the portfolio caps against their reference; a breach of the account refuses
  exits like entries (`BreachedExit`, approval.py:356).
* `LooserAfterOutage`, `OnAfterOutage`: a cap, or auto-decide, that is changed while Redis is down reverts when it is back.
  `EngagedUntold`: the switch may be engaged though the caller was told it failed. `ReadAsItIs`: percentages from the
  environment are not clamped. `ThinBidShortsOnly`: a thin bid refuses shorts only.
* `DirectionFirst`, `VetoedIsPromising`: the ranking puts every direction first, and a signal the higher timeframe has
  flattened keeps its confidence and may be graded promising. `ReplayLags`: at the close of a day the
  replay asks the day before the one the live rule asks.
* `TripsWereHeld`, `LostRowShiftsTrips`, `ClosedTwiceCountsTwice`: FIFO pairing gives back what was held, but one row lost to a
  stale copy shifts every later trip of the symbol, and a position closed by two writers is an outcome twice.
  `ResetAnswersLatched`: the reset of the EV gate is latched again by its own answer while the sample still
  blocks (feedback.py:285, app.py:811, against docs/product-usage.md:141).
* `AdmitsLongestRun`, `KeepsWhatFits`, `NextRunIsNext`: loops of sizing.py against their references. `CapBelowOneLot`: a second quote is
  not capped below one lot (against sizing.py:112). `OfferedUnshrunk`: an offer keeps the quantity it had before its
  leverage was shrunk (execute.py:1163).

### Bounds and why they are enough

`MaxOffers` = 2 is a card and the card that replaces or follows it; every race on the
queue needs two writers of one row, and the third writer repeats one of them.
Two ids make a fresh row and a conflict possible. `MaxOrders` stops new exits, not ones under
way. One tick passes a deadline (TTL 1). Symmetry is over ids and enqueuers, in
`desk_approvals` only, which checks no liveness. For live orders a scene says who takes part and what may
go wrong (`MCScenes`): calls in turn with a lost call or a death beside flatten and reconcile; an approved flat
beside the flatten tick with two mishaps; two calls at once beside the flatten tick; three calls, or two beside reconcile, at two times with a lost
call and a death. `BuyQty` = 2 lets a stop fill in part. `FlattenSettles` says nothing of a scene without the tick. In `exec` two faults are a
lost order and the lost answer of its emergency close; one listener is what the code starts. The theorems cover any
number of listeners, those about stops (`BarePositionIsTold`, `CoverIsKept`) any number of intents, faults and deaths of one. In `watch` one of each mishap lets a bare position arise from partial fills,
late execution and the owner. In `signals` the two ideas are a held one and its successor, of either side, and one further analysis is a turn or a return; the theorems cover any number. Four fills in `journal` are two trades
of entry and exit, with a hand buy in place of either. `stops` needs a bar that arms, one that moves and one that touches; two rows
make a stale write possible. Deadlock checking is off where a bounded history or a script simply ends, and on
in the desk, flight and live runs.

### Fairness

* `PaperDesk!FairSpec`: time passes; the expiry job is started again and again by n8n and a
  started job runs to its end. Strong fairness of `ExpiryStep`, because the owner can flip
  the switch between two calls; `LapsedCardsResolved` assumes the switch is off infinitely often.
* `SingleFlight!FlightFairSpec`: time passes (`OrphanLapses`).
* `LiveOrders!FairSpec`: the risk monitor and reconcile are started again and again and a call that
  has not died goes on. Nothing is assumed of approvals being made, of the market,
  or of faults ending other than by the budget.
* `AssistWatch!WatchSpec`: a tick is started every few minutes and goes on, the listener loops for ever.
* `AssistSignals!FairSpec`: both jobs are started again and again; strong fairness of the morning job, which shares a lock
  with the scan; a pause lapses.
* `AssistJournal!Spec`: the tick and the weekly report are started again and again, half hours pass.

## 4. Proofs

TLC checks an instance; the theorems hold for every value of the constants that the named ASSUMEs
of the modules allow, so for any number of cards, rows, taps, listeners, callers, approvals, sellers, bars and faults.
PROJECT.json names each theorem and the property it states. Two theorems, `BarePositionIsTold` and `CoverIsKept`, have hypotheses
beyond those ASSUMEs: one listener, and `~Thin`. The run `exec` is such an instance, and both are needed (below).

| module | theorems | the argument |
| --- | --- | --- |
| `PaperDeskProofs` | `TypeCorrect`, `TransactionalLedger`, `PositionsTraced`, `ReviewedFills`, `DeskImplementsDecisions` | below |
| `AssistExecProofs` | `OrderSentOnce`, `IntentsImplementBook`, `ExecTypeCorrect`; for one listener `BarePositionIsTold`, `CoverIsKept`; beside the watch job `SilentWasHeard`, `SentOnceWatched`, `WatchedImplementBook` | `ClaimInv`, `ExecInv`, `CalmInv`, `ReportInv`, `WatchInv`, below |
| `LiveOrdersProofs` | `OneBuyEver`, `FillCountedOnce` | `LiveInv`, below |
| `PaperStopsProofs` | `StopsTyped`, `MovedStopProtects`, `StopOnlyTightens`, `StopTouchedFills`, `TouchedClosesReplay`, `ReplayFillsInItsBar` | `Held`, below |
| `AssistSignalsProofs` | `OneIdeaHeld`, `OffIsOff`, `EverySentTracked`, `OnePausePerStreak`, `SeenOnce`; of `Sizing`: `SizedWithinLimits`, `RequoteCapped`, `ShrunkFits`, `SharedMarginFits`, `AdmitKeepsBudget`, `RoundedIsSafe`, `FreshWindow`, `AssistSeesNewestBar` | four invariants over the types, below; arithmetic of lots and limits |
| `PaperDeskProofs`, the rules | `StopWithinDoctrine`, `OwnRiskIsSmall`, `TighterRefusesMore`, `ZeroHalts`, `TightenedIsRead`, `SwitchFailsClosed`, `SideIsStricter`, `UnsafeActsOnNothing`, `ActsOnItsTrend`, `HigherOnlyNarrows`, `EntryIsNoExit`, `ReplaySeesThePast`, `GateWaitsForOwner`, `ResetNeedsBetterSample` | no state: case splits over the functions of `RiskGate`, `AnalysisRules`, `Feedback` |
| `AssistJournalProofs` | `CardSentOnce`, `LastGradeStands`, `ClosedWasSold`, `OnlyOldReadsReopen` | `CardInv`, `GradeInv`, `SoldInv`, below |
| `ShadowTrackProofs`, the shadow job | `ScoresAreFinal`, `TableIsWalk`, `DeskInUniverse` | `TablesInv`, `KeptInv`, `ScoreInv`, below |
| `ShadowTrackProofs`, the universe | `PastOfTheUniverse` | a symbol with any history has an interval from the start, and an edit touches the open one or the instant of the edit |
| `ShadowTrackProofs`, the job lock | `FlightExclusive`, `KeyKept` | the key holds the token of the one run that may still rely on it, and tokens are fresh |

**The desk.** `TransactionalLedger` says `BookMatchesJournal` for every desk without direct
writers: what a transaction adds to the orders is what it changes in the book (`DeltaIsMove`), and a
transaction starts from the book as it is. `PositionsTraced` needs no such restriction: its invariant
`TraceInv` says that every *copy* of a position traces to a fill as well, so a stale
write-back cannot invent one. `DeskImplementsDecisions` needs `OfferInv`: two pending rows are
two offers, a claimed offer is not pending, and what a process carries to a guarded claim
is checked by the claim and not by the copy. For `ReviewedFills`, `ReviewInv` follows what was shown: `reviewed` is written where a brief or a
rule sees an analysis, `expected` where the claim is told one, and the second is among the first although the row is read again in between.

**Assist intents.** The claim is the only guarded write, so `ClaimInv` says who
holds an intent: `OneHolder` (one listener works on a won intent), `WonIsUsed` and `PastHasWon` (what is
past the claim was won, what is won was not offered again), `SentIsWon`, `UnsentYet` (a holder before its POST has
sent nothing). Actions fall into six classes (`Onward`, `Sending`, `Leaving`, `Starting`,
`Claiming`, `Aside`), and the invariant is shown for the classes. `ImplementsBook` follows step by step.

**Stops of the assistant.** Neither property is inductive, and sums over resting orders are hard to reason about; the way out
is that the listener keeps the account simple. While no entry was given up and carried out late and the owner did not trade
(`Calm`), `CalmInv` says that the position is one entry or nothing and every order has that size (`OneSize`), so any one
protective stop covers it; that an intent not yet sent has left nothing anywhere (`UnsentIsClean`); that what may still be
carried out late is an entry given up or still asked about (`LateEntries`); and what each place of the
sequence may rely on (`Fits`): when the listener is about to cancel, its position is gone or its own new stop
rests. `CoverIsKept` follows from `CalmInv` step by step. `ReportInv` holds with strays too: the listener has the
cover before it (`Guarded`), or is on its way to a report of a bare position (`Reports`), or such a report is stored or cannot come any
more (`Reported`). An idle listener is on its way nowhere, which is `BareIsTold`. Without the hypotheses TLC finds both
violated: with `Thin`, an emergency close filled in part counts as closed (`executedQty > 0`, execute.py:693) and nothing is
told about the rest; with two listeners, two entries run side by side and one clears the other's stops.

**The watch job.** `WatchInv` adds to `ExecInv` the row, the advice and what the tick has read: all know only positions that have
been (`WatchTyped`: their number is at most the current one). A position that was closed and opened again has a greater
number (`Moved`, shown for every step of a listener and of the outside), so nothing stored before can be about it, and the owner's
knowledge (`alarm`) ends only when the account is flat. On that rest four parts: stored advice was heard (`AdviceHeard`), a latched
row is one whose owner was warned or that took the position for another (`LatchHeard`), the same of the tick's copy of it
(`StoredHeard`), and between a warning and its latch the owner knows (`SentHeard`). `StoredHeard` is needed because a link may replace the row
while the tick decides by its copy. The tick is otherwise a caller of `Offer` for the listener's book, and a death of the process leaves
all intents as they are, so `ClaimInv` and the refinement carry over. The first form of this theorem was about the stored
advice only and said nothing of the latch. Stating it of the silence itself showed the exception `mixed`.

**Live orders.** `LiveInv` has five parts. `Clock` and `Calls` say who does what: a desk that works holds an id, and of an approval that is not `doubled`
one call at most is under way (`OneCall`); of a buy that is not `raced` one call at most is between a query that found nothing and its POST
(`OnePost`), while the venue has no order of it. Every doubled call is not a race, so the buys that are counted once (`Clean`) are among
those sent once (`Alone`). `Facts` is about the tables: `OneOrder` (one BUY on the venue), `Backed` and `FillBacked` (a row with a fill
agrees with the venue), `FillIsLast` (it is the last row of its id, also in the order of times). `Tasks` and `Recons` say that what a call or a
reconcile carries is an older form of a row, so that what it writes back is the same fill again. Without `raced` and
`doubled` neither holds: TLC shows two calls that post side by side.

**Stops.** `LockedIn` is not inductive: the move a tick has computed is written
later, to whatever row is there. `Held` adds that copies of one row agree on side and entry (`SameRow`, `Numbered`), that
a pending move suits the row it was computed from (`MovePending`), and that what another writer holds was once safe
(`CopyHeld`). The two exceptions of `StopTightens` are the two places where this fails in the code.
The fills rest on `Walked`, which adds that bars are whole (`BarsWhole`: low and high bound open and close), stored in order
(`InOrder`), and that no bar a replay has walked reached the stop of the row it holds since that stop was set
(`Replaying`): so the first bar that is found touched can only be the one being walked. An exit that the open or the close
prices at zero would look like none, which is why `NewBar` keeps prices positive.

**Signals.** `SwitchInv`: the settings row says what the owner said last, unless a whole-row write
undid it, and no running job began against it. `TrackInv`: a sent row has its own track
or a held one that was closed. `StreakInv`: a streak that has paused is at or below the anchor, or the job about to
write the anchor is the only one that has read it. `SeenInv`: jobs keep out of each other's way, what the owner was shown
is noted or about to be noted unless it is `lost`, nothing is held but the one idea (or the one a job has in hand), and what is held or in hand has a side that
no recent idea he was shown has, or was found at a turn; a step that shows nothing and adds no idea (`Quiet`) keeps this, and `Age` only takes ideas
out of the window. An attempt to prove
`IdeaSeenOnce` failed in an earlier form of it: which analysis an idea answers is
read by the *scan* (signals.py:215), and by the time of the push a newer analysis may
have arrived. The model now notes the turn where the code reads it (`Flipped`), and the run has both sides.

**The journal.** `CardInv`: a row whose card is not stored and is not in the sender's hand had no delivery but those whose id
was lost (`NoneYet`), so the sender delivers again only what it could not know of. `GradeInv`: the grade of a row is that of the last
of its taps among the first *h*, for an *h* between what the listener is through with and all of them; after a redelivery *h* is
ahead. `SoldInv`: an entry that has a later one was sold in full between the two, and what the last one bought is still held where
it was not sold (`SoldThrough`). FIFO pairing then gives an entry no exit that comes after the next entry (`TakenSells`,
`UsedBefore`, over the set of exits it uses up), so a row is closed only by exits of its own. Two attempts failed for a good reason and changed the model: the tick
kept its card in hand when it went on to write its record, and two guards of a CASE in `Rebuilt` overlapped.

**The shadow job.** A walk is defined by what holds of it at every bar, and induction over the bars is done with
a lemma on sets (`AllOf`: what holds of the least number and passes on holds of all). `TablesInv`: rows name a stored analysis and its bar,
a row still to be asked about was on time when the job began (`RowsFit`), and a verdict that is not `late` was on time (`OnTime`). For `TrackIsWalk`, `KeptInv` says that a
walk over a longer basis names every analysis a shorter one names, so an upsert never leaves behind a row that the last walk
did not find, as long as no bar or analysis of the past was written again. `ScoreInv` adds what `ScoresStand` needs: a run works at the instant
of its walk and what is closed in the table had closed by then (`Clocked`), what is still to be asked about has no verdict (`NewVerdicts`), and a closed row
of a symbol that was not revised is a closed row of the walk (`Settled`), which no longer walk finds otherwise (`ClosedBy`).

### What is only model-checked

* Liveness under fairness: `LapsedCardsResolved`, `OrphanLapses`, `FlattenSettles`, `BareIsAlarmed`,
  `OrphansSwept`, `HeldIsDecided`, `ClosedIsJournaled`, `JournaledIsCarded`.
* `BareIsTold` and `CoverNeverCancelled` are proved of the listener alone. Beside the watch job `CoverNeverCancelled` does not hold
  (`watch_strips_stop`), and that bare positions are warned about is liveness.
* `BareIsTold` where MARKET orders fill in part: false without the watch job, whose warning (`BareIsAlarmed`) is liveness.
* What recursive functions compute for every input: the portfolio cap sums, the admit loop, FIFO pairing of `Feedback`.
  Their ASSUMEs in the `MC*` modules compare them with a reference on small inputs.

## 5. Plan and what is not modelled

Next: that an order left by a closed position is one a failed call, a death or a late order explains (the safety half of
`OrphansSwept`), and what a reconcile of the live orders may write over.

Not modelled:

* **Indicators and charts** (`jarvise_analyze/indicators`, patterns): numeric code whose tests compare with
  references; the models take what it returns as an input.
* **News, RAG, model routing, briefs**: no state that decides anything but an advisory text; the verdict of a review is
  a free choice.
* **Exchange read-only snapshots, notifications, metrics**: reads and best-effort sends without effect on the modelled state.
* **Assist texts, reports, trial coins, explanations, recommendation**: wording and layout.
* **The H3 forward-test job and outcome memory**: one append per day, and reads of it.
* **An exception between the statements of `apply_signal`** that leaves an implicit transaction open for the next
  `resolve` (approval.py:584): the write of `PaperDesk` is one step.
* **The equity preset of the universe, 1d stops, slippage, notional caps of a fill**: see the modules above.

Divergences seen while reading that no run is about: the `mn:` buttons of
`jarvise_assist/keyboard.py:85` are not routed by `listen.py:112`; `position_risk_usdt` counts a stop that
locks a profit as risk; `engage` may report failure although the switch is engaged.
