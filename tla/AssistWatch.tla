----------------------------- MODULE AssistWatch -----------------------------
(***************************************************************************)
(* The watch job beside the listener (src/jarvise_assist/watch.py): every  *)
(* few minutes it reads the position and then the orders, warns when the   *)
(* stops do not cover the position, offers stop moves and exits, and when  *)
(* a position it knew is gone it cancels the orders Jarvise left behind.  *)
(* It works on what it read at the start, while the listener trades.       *)
(***************************************************************************)
EXTENDS AssistExec

VARIABLES
    w,          \* what the tick is doing: the position, orders and row it has read
    advised,    \* the no-stop rows of assist_watch_advice that are not dropped
    prior,      \* the reason of the newest of them, of whichever trade it was
    alarm,      \* history: the owner was warned of the position that is open
    mixed       \* history: the positions that the row took for another one

adviceVars == <<advised, prior, mixed>>
watchVars  == <<vars, w, adviceVars, alarm>>

Asleep == [pc |-> "idle", seen |-> Flat, orders |-> {}, stored |-> NoRow]

WatchInit ==
    /\ Init /\ w = Asleep
    /\ advised = {} /\ prior = "none" /\ alarm = FALSE /\ mixed = {}

Step(state) == w' = state
Then(pc)    == [w EXCEPT !.pc = pc]

\* A call of the tick raises: the job ends and the next tick starts anew.
Abort == Fail /\ Step(Asleep)

ReadPosition ==
    /\ w.pc = "idle"
    /\ \/ Step([Then("orders") EXCEPT !.seen = pos]) /\ UNCHANGED faults
       \/ Abort
    /\ UNCHANGED <<bookVars, inboxVars, l, account, row, crashes, manual, adviceVars>>

\* all_open_orders, then the pause check with its own calls.
ReadOrders ==
    /\ w.pc = "orders"
    /\ \/ /\ Step([Then(IF w.seen.qty > 0 THEN "row" ELSE "close") EXCEPT !.orders = orders])
          /\ UNCHANGED faults
       \/ Abort
    /\ UNCHANGED <<bookVars, inboxVars, l, account, row, crashes, manual, adviceVars>>

\* _ensure_watch_row: a closed row is another position, and so is one whose entry moved by
\* more than 0.05%; prices are not modelled, so a new entry may also lie within that.
Ensured ==
    LET new == [NoRow EXCEPT !.state = "open", !.gen = w.seen.gen]
    IN  IF row.state # "open" THEN {new} ELSE IF row.gen = w.seen.gen THEN {row} ELSE {row, new}

\* _link_or_freeze_stop: without a signal or an ATR there is no stop to compare with.
EnsureRow ==
    /\ w.pc = "row"
    /\ \E stored \in Ensured :
          /\ row' = stored
          /\ mixed' = IF stored.gen = w.seen.gen THEN mixed ELSE mixed \cup {w.seen.gen}
          /\ \/ Step([Then("warn") EXCEPT !.stored = stored]) /\ UNCHANGED faults
             \/ Fail /\ Step(Then("close"))
    /\ UNCHANGED <<bookVars, inboxVars, l, account, crashes, manual, advised, prior>>

Reason ==
    LET cover == Coverage(w.orders, w.seen.qty, 1)
    IN  CASE cover = "full" -> "full" [] cover = "partial" -> "partial" [] OTHER -> "missing"

\* set_watch_no_stop_latched: on the row of the symbol, whose position it may be by now;
\* unlatching also drops the advice that was sent.
Unlatch == row' = [row EXCEPT !.latched = FALSE] /\ advised' = {} /\ prior' = "none"

Covered ==
    /\ w.pc = "warn" /\ Reason = "full"
    /\ IF w.stored.latched THEN Unlatch ELSE UNCHANGED <<row, advised, prior>>
    /\ Step(Then("offer"))
    /\ UNCHANGED <<bookVars, inboxVars, l, account, limits, mixed>>

\* The reason flipped since the warning that latched: the other one may fire.
Flipped == w.stored.latched /\ prior \notin {"none", Reason}

\* A mutant of AlreadySent: advice of an earlier trade counts too.
SentEver == \E a \in advised : a.reason = Reason

\* advice_already_sent: advice counts from the entry time of the row on.  Times are the
\* numbers of positions: a link later than the tick that saw its position counts as earlier.
AlreadySent == \E a \in advised : a.reason = Reason /\ a.gen >= w.stored.gen

\* The tick says nothing of a position it saw bare.
Silent == IF w.stored.latched THEN ~Flipped ELSE AlreadySent

\* A mutant of Warn: the advice is stored whether or not the message went out.
WarnStoringUnsent ==
    /\ w.pc = "warn" /\ Reason # "full"
    /\ IF Silent THEN Step(Then("offer")) /\ UNCHANGED <<row, advised, prior, faults>>
       ELSE /\ row' = [row EXCEPT !.latched = @ /\ ~Flipped]
            /\ advised' = (IF Flipped THEN {} ELSE advised)
                             \cup {[reason |-> Reason, gen |-> w.seen.gen]}
            /\ prior' = Reason
            /\ \/ Step(Then("latch")) /\ UNCHANGED faults
               \/ Fail /\ Step(Then("offer"))
    /\ UNCHANGED <<bookVars, inboxVars, l, account, crashes, manual, mixed>>

\* _emit_advice: silent because it was sent before, or sent and then stored, or not sent.
Warn ==
    /\ w.pc = "warn" /\ Reason # "full"
    /\ IF Silent THEN Step(Then("offer")) /\ UNCHANGED <<row, advised, prior, faults>>
       ELSE \/ /\ row' = [row EXCEPT !.latched = @ /\ ~Flipped]
               /\ advised' = (IF Flipped THEN {} ELSE advised)
                                \cup {[reason |-> Reason, gen |-> w.seen.gen]}
               /\ prior' = Reason
               /\ Step(Then("latch")) /\ UNCHANGED faults
            \/ /\ Fail /\ Step(Then("offer"))
               /\ IF Flipped THEN Unlatch ELSE UNCHANGED <<row, advised, prior>>
    /\ UNCHANGED <<bookVars, inboxVars, l, account, crashes, manual, mixed>>

\* A statement of its own, on whichever row the symbol has by then.
Latch ==
    /\ w.pc = "latch"
    /\ row' = [row EXCEPT !.latched = TRUE]
    /\ mixed' = IF row.gen = w.seen.gen THEN mixed ELSE mixed \cup {row.gen}
    /\ Step(Then("offer"))
    /\ UNCHANGED <<bookVars, inboxVars, l, account, limits, advised, prior>>

\* Trail and exit advice, with buttons.
Advise ==
    /\ w.pc = "offer"
    /\ \E i \in Intents, kind \in Kinds \ {"entry"} : Offer(i, kind, w.seen)
    /\ UNCHANGED <<w, adviceVars>>

\* mark_watch_positions_closed: rows that are open and that the tick did not see.
CloseRow ==
    /\ w.pc \in {"offer", "close"}
    /\ IF w.seen.qty = 0 /\ row.state = "open"
       THEN row' = [row EXCEPT !.state = "closed"] /\ Step(Then("sweep"))
       ELSE row' = row /\ Step(Asleep)
    /\ UNCHANGED <<bookVars, inboxVars, l, account, limits, adviceVars>>

\* A mutant of Sweep: take-profits are left resting.
SweepStops ==
    /\ w.pc = "sweep"
    /\ CancelAll(Jv(orders) \cap Stops(orders))
    /\ Step(Asleep)
    /\ UNCHANGED <<bookVars, inboxVars, l, pos, done, late, strays, row, crashes, manual, adviceVars>>

\* cancel_jv_orders_for_symbol on every row just closed.
Sweep ==
    /\ w.pc = "sweep"
    /\ CancelAll(Jv(orders))
    /\ Step(Asleep)
    /\ UNCHANGED <<bookVars, inboxVars, l, pos, done, late, strays, row, crashes, manual, adviceVars>>

Tick ==
    \/ ReadPosition \/ ReadOrders \/ EnsureRow \/ Covered \/ Warn \/ Latch \/ Advise
    \/ CloseRow \/ Sweep

\* One process: listener and tick die together.
Die ==
    /\ crashes < MaxCrashes /\ crashes' = crashes + 1
    /\ w # Asleep \/ \E p \in Listeners : l[p] # Resting
    /\ l' = [p \in Listeners |-> Resting] /\ Step(Asleep)
    /\ UNCHANGED <<bookVars, inboxVars, account, row, faults, manual, adviceVars>>

\* The warning names the symbol and the side: it counts until the account is flat.
Heard == alarm' = (pos'.qty > 0 /\ (alarm \/ (w.pc = "warn" /\ w'.pc = "latch")))

Listening == \E p \in Listeners : Work(p)

WatchNext ==
    /\ \/ /\ Listening \/ Outside \/ \E i \in Intents : Offer(i, "entry", pos)
          /\ UNCHANGED <<w, adviceVars>>
       \/ Tick \/ Die
    /\ Heard

\* The listener loops for ever and the scheduler starts a tick every few minutes.
WatchSpec ==
    /\ WatchInit /\ [][WatchNext]_watchVars
    /\ WF_watchVars(Tick /\ Heard)
    /\ WF_watchVars(Listening /\ UNCHANGED <<w, adviceVars>> /\ Heard)
-----------------------------------------------------------------------------
\* A position whose stops do not cover it is reported, or covered, or closed, however
\* it came to be bare and whatever the listener and the tick were doing, unless the row
\* took it for another one.
BareIsAlarmed == Bare ~> (alarm \/ ~Bare \/ pos.gen \in mixed)

\* If the tick says nothing of a position it saw bare, and which is still open, the owner
\* was warned while it was open: an earlier trade does not silence it (store.py:912),
\* unless the row took the one for the other.
SilentIsHeard ==
    w.pc = "warn" /\ Reason # "full" /\ Silent /\ w.seen.gen = pos.gen /\ pos.qty > 0
        => alarm \/ pos.gen \in mixed

\* When nothing fails, what a closed position leaves resting is swept.
OrphansSwept ==
    (faults = 0 /\ crashes = 0 /\ manual = 0 /\ pos.qty = 0 /\ Jv(orders) # {})
        ~> (faults + crashes + manual > 0 \/ pos.qty > 0 \/ Jv(orders) = {})
=============================================================================
