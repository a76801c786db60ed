------------------------------- MODULE Feedback -------------------------------
(***************************************************************************)
(* What the paper desk learns from its trades                              *)
(* (src/jarvise_paper/metrics.py, feedback.py): the orders are paired into *)
(* round trips, the trips are kept as outcomes under the source of their   *)
(* decision, and a gate stops the model of auto-decide when its outcomes   *)
(* are poor, until the owner resets it.  Each operator is one pure         *)
(* function or one statement on a table.                                   *)
(*                                                                         *)
(* Orders are read by time; orders of one instant come in the order of     *)
(* their ids, which are hashes.  Money is an integer, results are not      *)
(* rounded, and a mean is compared by its sum.                             *)
(***************************************************************************)
EXTENDS Integers, FiniteSets, FiniteSetsExt, SequencesExt

AUTO_SOURCES == {"auto_claude", "auto_rule"}
OWNER_REASON_MIN == 10

\* By what the claim gave as its reason.
decision_source_from_reason(reason) ==
    CASE reason = "auto:rule"                                      -> "auto_rule"
      [] reason \in {"auto:claude", "auto:apply_failed", "auto:"}  -> "auto_claude"
      [] OTHER                                                     -> "manual"

-----------------------------------------------------------------------------
(* Round trips.  An order opens or closes, or is of no such kind.          *)

_trade_pnl(open, close) ==
    (IF open.side = "long" THEN close.price - open.price ELSE open.price - close.price) * open.qty
        - open.fee - close.fee

Trip(open, close) ==
    [open |-> open.id, close |-> close.id, symbol |-> close.symbol, source |-> open.source,
     at |-> close.at, pnl |-> _trade_pnl(open, close)]

\* One order more: it waits, it closes the oldest that waits, or it matches nothing.
Paired(book, order) ==
    LET waiting == IF order.symbol \in DOMAIN book.open THEN book.open[order.symbol] ELSE <<>>
        Waits(orders) == [s \in DOMAIN book.open \cup {order.symbol} |->
                            IF s = order.symbol THEN orders ELSE book.open[s]]
    IN  IF order.kind = "open"
        THEN [book EXCEPT !.open = Waits(Append(waiting, order))]
        ELSE IF order.kind = "close" /\ waiting # <<>>
        THEN [book EXCEPT !.open = Waits(Tail(waiting)),
                          !.trips = Append(@, Trip(Head(waiting), order))]
        ELSE [book EXCEPT !.unmatched = @ + 1]

reconstruct_closed_trades(orders) ==
    FoldLeft(Paired, [open |-> <<>>, trips |-> <<>>, unmatched |-> 0], orders)

Total(trips) == MapThenSumSet(LAMBDA t : t.pnl, trips)

paper_utc_day_realized_pnl(orders, day) ==
    Total({t \in ToSet(reconstruct_closed_trades(orders).trips) : t.at >= day.first /\ t.at < day.next})

-----------------------------------------------------------------------------
(* The table of outcomes: a trip by its two orders.  Rows are written over *)
(* and never deleted, and only the metrics write them.                     *)

sync_decision_outcomes(outcomes, trips) ==
    LET new == ToSet(trips)
    IN  {o \in outcomes : \A t \in new : <<t.open, t.close>> # <<o.open, o.close>>} \cup new

\* The trips of the automatic sources that have closed since.
AutoSince(outcomes, since) == {o \in outcomes : o.source \in AUTO_SOURCES /\ o.at >= since}

-----------------------------------------------------------------------------
(* The gate.  Its settings are the least mean result (absent: the gate is  *)
(* off), the least number of trips to judge by, and the window.            *)

NotLatched == [latched |-> FALSE, at |-> {}, n |-> {}, pnl |-> {}]

read_ev_gate_latch(latch) == latch.latched

\* The first block is kept: a later one moves neither its time nor its sample.
latch_ev_gate(latch, at, sample) ==
    IF read_ev_gate_latch(latch) THEN latch
    ELSE [latched |-> TRUE, at |-> {at}, n |-> {Cardinality(sample)}, pnl |-> {Total(sample)}]

\* The sample is large enough and its mean below the least.
SampleBlocks(gate, sample) ==
    /\ Cardinality(sample) >= gate.min_n
    /\ sample # {}
    /\ \E least \in gate.min_ev : Total(sample) < least * Cardinality(sample)

\* Whoever asks for the status writes the latch: every run of auto-decide, every page that shows it.
AskedGate(latch, gate, outcomes, now) ==
    LET sample == AutoSince(outcomes, now - gate.window)
    IN  IF SampleBlocks(gate, sample) THEN latch_ev_gate(latch, now, sample) ELSE latch

auto_ev_gate_status(latch, gate, outcomes, now) ==
    LET after == AskedGate(latch, gate, outcomes, now)
    IN  [latch |-> after, blocked |-> read_ev_gate_latch(after),
         enabled |-> gate.min_ev # {} \/ read_ev_gate_latch(after)]

\* The owner's reason is logged.  The sample stays in the row.
reset_ev_gate_latch(latch) == [latch EXCEPT !.latched = FALSE]

\* The button and the command of the owner want a reason of some length.  The answer tells the
\* status, which is asked after the reset.
api_paper_ev_gate_reset(latch, reason, gate, outcomes, now) ==
    IF reason < OWNER_REASON_MIN THEN latch
    ELSE auto_ev_gate_status(reset_ev_gate_latch(latch), gate, outcomes, now).latch

\* A run of auto-decide asks once; a card that a rule settles is settled all the same.
GateDefers(status, settled_by_rule) == status.blocked /\ ~settled_by_rule
=============================================================================
