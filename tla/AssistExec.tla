----------------------------- MODULE AssistExec -----------------------------
(***************************************************************************)
(* The one-tap execution of the trade assistant on one futures symbol      *)
(* (src/jarvise_assist/execute.py, listen.py, store.py): the owner taps a  *)
(* button, a listener claims the intent and runs its sequence of calls to  *)
(* the exchange.                                                           *)
(*                                                                         *)
(* A step is one call to the exchange or one committed statement.  A POST  *)
(* may be refused with a code, or its answer may be lost: the exchange has *)
(* then carried it out, never will, or (Delays) will later.  A listener    *)
(* may die between any two steps; Telegram delivers again every tap that   *)
(* is newer than the stored offset.                                        *)
(***************************************************************************)
EXTENDS FuturesVenue, Sequences

CONSTANTS
    Listeners,          \* listen.py threads that share the database
    Kinds,              \* kinds of intent offered: "entry", "move", "exit"
    Size,               \* what an entry buys, in lots
    Levels,             \* levels a stop move may advise; 0 is the initial stop
    Thin,               \* whether a MARKET order may expire partly filled
    Delays,             \* whether a lost request may still be carried out later
    MaxTaps, MaxFaults, MaxCrashes, MaxManual   \* bounds

ASSUME KindAssumption == Kinds \subseteq {"entry", "move", "exit"}
ASSUME SizeAssumption == Size \in Nat \ {0} /\ Levels \subseteq Nat
ASSUME BoundAssumption ==
    {MaxTaps, MaxFaults, MaxCrashes, MaxManual} \subseteq Nat

VARIABLES
    intent,     \* intent[i]: the assist_exec_intent row
    told,       \* told[i]: what the owner was told became of i
    won, sends, \* history: the intents claimed, and how often the order of i was POSTed
    inbox,      \* Telegram's updates: taps, in order
    offset,     \* assist_telegram.last_update_id
    l,          \* what each listener is doing
    pos, orders,    \* the account: position, resting orders
    done,       \* done[i]: executed quantities of the market orders of i
    late,       \* requests the exchange will still carry out
    strays,     \* history: entries carried out when nobody asked for them any more
    row,        \* the assist_watch_position row
    faults, crashes, manual     \* bounds used up

bookVars  == <<intent, told, won, sends>>
inboxVars == <<inbox, offset>>
account   == <<pos, orders, done, late, strays>>
limits    == <<faults, crashes, manual>>
vars == <<bookVars, inboxVars, l, account, row, limits>>

NoIntent == [kind |-> "none", status |-> "none", aged |-> FALSE, qty |-> 0, level |-> 0,
             gen |-> 0]
NoRow    == [state |-> "none", gen |-> 0, latched |-> FALSE]
Resting  == [pc |-> "idle", att |-> 0, got |-> 0, fill |-> 0, olds |-> {}, text |-> "none",
             next |-> 1, top |-> 0]
DoneTexts == {"entered", "moved", "exited"}

Init ==
    /\ intent = [i \in Intents |-> NoIntent]
    /\ told = [i \in Intents |-> "none"]
    /\ won = {}
    /\ sends = [i \in Intents |-> 0]
    /\ inbox = <<>>
    /\ offset = 0
    /\ l = [p \in Listeners |-> Resting]
    /\ pos = Flat
    /\ orders = {}
    /\ done = [i \in Intents |-> [mkt |-> 0, cls |-> 0, ex |-> 0]]
    /\ late = {} /\ strays = {}
    /\ row = NoRow
    /\ faults = 0 /\ crashes = 0 /\ manual = 0
-----------------------------------------------------------------------------
(***************************************************************************)
(* Steps of a listener: what it is doing next, and the intent of the tap   *)
(* it handles.                                                             *)
(***************************************************************************)
Tap(p) == inbox[l[p].next]
The(p) == Tap(p).i
Go(p, state) == l' = [l EXCEPT ![p] = state]
At(p, pc)    == [l[p] EXCEPT !.pc = pc]
End(p, text) == [l[p] EXCEPT !.pc = "finish", !.text = text]
Handled(p)   == [Resting EXCEPT !.next = l[p].next + 1, !.top = l[p].top]

Fail == faults < MaxFaults /\ faults' = faults + 1

\* A read: it works, or it raises and the code goes on at `raised`.
Read(p, seen, raised) ==
    \/ Go(p, seen) /\ UNCHANGED faults
    \/ Fail /\ Go(p, raised)

(***************************************************************************)
(* A POST of request r: where the code goes when it is answered, refused   *)
(* with a code, or lost; r.step says whether it opens, reduces or rests.   *)
(***************************************************************************)
Fills(r) ==
    CASE r.step = "mkt"            -> IF Thin THEN 0..r.qty ELSE {r.qty}
      [] r.step \in {"cls", "ex"}  -> IF pos.qty = 0 THEN {}
                                      ELSE IF Thin THEN 0..Least(r.qty, pos.qty)
                                      ELSE {Least(r.qty, pos.qty)}
      [] OTHER                     -> {0}

Execute(r, q) ==
    /\ pos' = CASE r.step = "mkt" /\ q > 0 -> [qty |-> pos.qty + q, gen |-> pos.gen + 1]
                [] r.step \in {"cls", "ex"} -> [pos EXCEPT !.qty = @ - q]
                [] OTHER -> pos
    /\ orders' = IF r.step \in RestSteps THEN orders \cup {r} ELSE orders
    /\ done' = IF r.step \in RestSteps THEN done ELSE [done EXCEPT ![r.by][r.step] = q]

Nothing == UNCHANGED <<pos, orders, done>>

Post(p, r, answered, refused, lost) ==
    \/ /\ \E q \in Fills(r) :
              Execute(r, q) /\ Go(p, [answered EXCEPT !.got = q])
       /\ UNCHANGED <<late, faults>>
    \/ /\ Fills(r) = {} \/ faults < MaxFaults
       /\ faults' = IF Fills(r) = {} THEN faults ELSE faults + 1
       /\ Nothing /\ Go(p, refused)
       /\ UNCHANGED late
    \/ /\ Fail /\ Go(p, lost)
       /\ \/ (\E q \in Fills(r) : Execute(r, q)) /\ UNCHANGED late
          \/ Nothing /\ UNCHANGED late
          \/ Delays /\ Nothing /\ late' = late \cup {r}

Request(i, step, qty, level) == [by |-> i, step |-> step, qty |-> qty, level |-> level]

\* DELETEs, one after the other: any of them may fail, and its order rests on.
CancelAll(targets) ==
    \/ orders' = orders \ targets /\ UNCHANGED faults
    \/ /\ targets \cap orders # {} /\ Fail
       /\ \E kept \in (SUBSET (targets \cap orders)) \ {{}} :
              orders' = orders \ (targets \ kept)
-----------------------------------------------------------------------------
(***************************************************************************)
(* Telegram (listen.poll_once): the listener fetches what is newer than    *)
(* the stored offset, handles the taps one by one and stores the offset of *)
(* the last after the whole batch.                                         *)
(***************************************************************************)
Fetch(p) ==
    /\ l[p].pc = "idle" /\ l[p].top = 0 /\ offset < Len(inbox)
    /\ Go(p, [l[p] EXCEPT !.next = offset + 1, !.top = Len(inbox)])
    /\ UNCHANGED <<bookVars, inboxVars, account, row, limits>>

Store(p) ==
    /\ l[p].pc = "idle" /\ l[p].top > 0 /\ l[p].next > l[p].top
    /\ offset' = l[p].top
    /\ Go(p, Resting)
    /\ UNCHANGED <<bookVars, inbox, account, row, limits>>

Due(p) == l[p].pc = "idle" /\ l[p].next <= l[p].top

\* The buttons are off, or the handler raises before it claims: the tap is gone.
Swallow(p) ==
    /\ Due(p) /\ Fail
    /\ Go(p, Handled(p))
    /\ UNCHANGED <<bookVars, inboxVars, account, row, crashes, manual>>

\* en: withdraws an intent that still waits; listen.process_update has no route for mn:.
Decline(p) ==
    /\ Due(p) /\ Tap(p).say = "no"
    /\ intent' = IF intent[The(p)].kind = "entry" /\ intent[The(p)].status = "preview"
                 THEN [intent EXCEPT ![The(p)].status = "cancelled"] ELSE intent
    /\ Go(p, Handled(p))
    /\ UNCHANGED <<told, won, sends, inboxVars, account, row, limits>>

\* ey:, ms:, xx: on a row that was used: the stored text again, or "in flight".
Replay(p) ==
    /\ Due(p) /\ Tap(p).say = "yes"
    /\ intent[The(p)].status \in {"confirmed", "done", "failed", "cancelled"}
    /\ Go(p, Handled(p))
    /\ UNCHANGED <<bookVars, inboxVars, account, row, limits>>

Confirm(p) ==
    /\ Due(p) /\ Tap(p).say = "yes"
    /\ intent[The(p)].status \in {"preview", "expired"}
    /\ Go(p, At(p, IF intent[The(p)].aged /\ intent[The(p)].kind # "exit"
                   THEN "expire" ELSE "claim"))
    /\ UNCHANGED <<bookVars, inboxVars, account, row, limits>>

\* finish_exec_intent, which does not look at the status again.
Expire(p) ==
    /\ l[p].pc = "expire"
    /\ intent' = [intent EXCEPT ![The(p)].status = "expired"]
    /\ told' = [told EXCEPT ![The(p)] = "expired"]
    /\ Go(p, Handled(p))
    /\ UNCHANGED <<won, sends, inboxVars, account, row, limits>>

\* UPDATE ... SET status='confirmed' WHERE status='preview': one caller wins.  Nothing
\* looks at the age of a claimed intent any more, and it is forgotten.
CanClaim(i) == intent[i].status = "preview"

Claim(p) ==
    /\ l[p].pc = "claim"
    /\ IF CanClaim(The(p))
       THEN /\ intent' = [intent EXCEPT ![The(p)].status = "confirmed", ![The(p)].aged = FALSE]
            /\ won' = won \cup {The(p)}
            /\ Go(p, At(p, "keys"))
       ELSE UNCHANGED <<intent, won>> /\ Go(p, Handled(p))
    /\ UNCHANGED <<told, sends, inboxVars, account, row, limits>>

First(kind) == CASE kind = "entry" -> "guards" [] kind = "move" -> "mread" [] OTHER -> "xread"

\* build_trade_client and its key and account-mode checks.
Keys(p) ==
    /\ l[p].pc = "keys"
    /\ Read(p, At(p, First(intent[The(p)].kind)), End(p, "not_sent"))
    /\ UNCHANGED <<bookVars, inboxVars, account, row, crashes, manual>>

\* A mutant of Finish: an order that was refused can be confirmed again.
FinishReopening(p) ==
    /\ l[p].pc = "finish"
    /\ intent' = [intent EXCEPT ![The(p)].status =
                      IF l[p].text \in DoneTexts THEN "done" ELSE "preview"]
    /\ told' = [told EXCEPT ![The(p)] = l[p].text]
    /\ Go(p, Handled(p))
    /\ UNCHANGED <<won, sends, inboxVars, account, row, limits>>

\* finish_exec_intent: done when the text is a success, failed otherwise.
Finish(p) ==
    /\ l[p].pc = "finish"
    /\ intent' = [intent EXCEPT ![The(p)].status =
                      IF l[p].text \in DoneTexts THEN "done" ELSE "failed"]
    /\ told' = [told EXCEPT ![The(p)] = l[p].text]
    /\ Go(p, Handled(p))
    /\ UNCHANGED <<won, sends, inboxVars, account, row, limits>>
-----------------------------------------------------------------------------
(***************************************************************************)
(* run_entry_sequence                                                      *)
(***************************************************************************)
\* _confirm_guards_entry: the position again; chase, caps, pause, ...  It looks at the age
\* too, but by the clock that Confirm has read.
EntryGuards(p) ==
    /\ l[p].pc = "guards"
    /\ IF pos.qty > 0
       THEN Go(p, End(p, "guard")) /\ UNCHANGED faults
       ELSE Read(p, At(p, "clear"), End(p, "guard"))
    /\ UNCHANGED <<bookVars, inboxVars, account, row, crashes, manual>>

\* cancel_jv_orders_for_symbol, whose failures never block the entry.
ClearStale(p) ==
    /\ l[p].pc = "clear"
    /\ CancelAll(Jv(orders))
    /\ Go(p, At(p, "margin"))
    /\ UNCHANGED <<bookVars, inboxVars, pos, done, late, strays, row, crashes, manual>>

\* set_isolated and set_leverage.
Margin(p) ==
    /\ l[p].pc = "margin"
    /\ Read(p, At(p, "market"), End(p, "not_sent"))
    /\ UNCHANGED <<bookVars, inboxVars, account, row, crashes, manual>>

Sent(i) == sends' = [sends EXCEPT ![i] = @ + 1]

Market(p) ==
    /\ l[p].pc = "market" /\ Sent(The(p))
    /\ Post(p, Request(The(p), "mkt", intent[The(p)].qty, 0),
            At(p, "filled"), End(p, "refused"), At(p, "mquery"))
    /\ UNCHANGED <<intent, told, won, inboxVars, strays, row, crashes, manual>>

\* A mutant of MarketQuery: an order nobody knows is sent again.
MarketQueryResending(p) ==
    /\ l[p].pc = "mquery"
    /\ Read(p, IF done[The(p)].mkt > 0 THEN [At(p, "filled") EXCEPT !.got = done[The(p)].mkt]
               ELSE At(p, "market"), At(p, "mposition"))
    /\ UNCHANGED <<bookVars, inboxVars, account, row, crashes, manual>>

\* _query_fill_after_unknown: a failed query and an order nobody knows look the same.
MarketQuery(p) ==
    /\ l[p].pc = "mquery"
    /\ Read(p, IF done[The(p)].mkt > 0 THEN [At(p, "filled") EXCEPT !.got = done[The(p)].mkt]
               ELSE At(p, "mposition"), At(p, "mposition"))
    /\ UNCHANGED <<bookVars, inboxVars, account, row, crashes, manual>>

\* _fill_from_position: any open position is taken for the fill.
MarketPosition(p) ==
    /\ l[p].pc = "mposition"
    /\ Read(p, IF pos.qty = 0 THEN End(p, "failed")
               ELSE [At(p, "filled") EXCEPT !.got = pos.qty], End(p, "check"))
    /\ UNCHANGED <<bookVars, inboxVars, account, row, crashes, manual>>

Filled(p) ==
    /\ l[p].pc = "filled"
    /\ Go(p, IF l[p].got = 0 THEN End(p, "zero")
             ELSE [At(p, "stop") EXCEPT !.fill = l[p].got])
    /\ UNCHANGED <<bookVars, inboxVars, account, row, limits>>

StopStep(p) == IF l[p].att = 0 THEN "sl0" ELSE "sl1"
\* A mutant of NextStop: two refused stops, and on to the take-profit.
NextStopUnconfirmed(p) ==
    IF l[p].att = 0 THEN [At(p, "stop") EXCEPT !.att = 1] ELSE At(p, "tp")

NextStop(p) == IF l[p].att = 0 THEN [At(p, "stop") EXCEPT !.att = 1] ELSE At(p, "confirm")

PlaceStop(p) ==
    /\ l[p].pc = "stop"
    /\ Post(p, Request(The(p), StopStep(p), l[p].fill, 0),
            At(p, "tp"), NextStop(p), At(p, "find"))
    /\ UNCHANGED <<bookVars, inboxVars, strays, row, crashes, manual>>

\* The mark is beyond the stop, or the exchange says so (-2021): no second attempt.
WouldTrigger(p) ==
    /\ l[p].pc = "stop" /\ Fail
    /\ Go(p, At(p, "confirm"))
    /\ UNCHANGED <<bookVars, inboxVars, account, row, crashes, manual>>

\* _safe_find_algo after an unknown answer; sl0 is looked up twice.
FindStop(p) ==
    /\ l[p].pc \in {"find", "again"}
    /\ LET absent == IF l[p].pc = "find" /\ l[p].att = 0 THEN At(p, "again") ELSE NextStop(p)
       IN  Read(p, IF Rests(orders, The(p), StopStep(p)) THEN At(p, "tp") ELSE absent, absent)
    /\ UNCHANGED <<bookVars, inboxVars, account, row, crashes, manual>>

\* The last look for either stop; of two, the second is cancelled if it can be.
ConfirmStop(p) ==
    /\ l[p].pc = "confirm"
    /\ LET mine == {o \in orders : o.by = The(p) /\ o.step \in {"sl0", "sl1"}}
           out  == [At(p, "close") EXCEPT !.att = 0]
       IN  IF Cardinality(mine) = 2
           THEN \/ CancelAll({o \in mine : o.step = "sl1"}) /\ Go(p, At(p, "tp"))
                \/ orders' = orders /\ Fail /\ Go(p, out)
           ELSE orders' = orders /\ Read(p, IF mine = {} THEN out ELSE At(p, "tp"), out)
    /\ UNCHANGED <<bookVars, inboxVars, pos, done, late, strays, row, crashes, manual>>
-----------------------------------------------------------------------------
(***************************************************************************)
(* _emergency_close_verified: three reduce-only closes under one client    *)
(* id, with a look at the position after each and before the next.         *)
(***************************************************************************)
CloseSend(p) ==
    /\ l[p].pc = "close"
    /\ Post(p, Request(The(p), "cls", l[p].fill, 0),
            At(p, "orphans"), At(p, "cafter"), At(p, "cquery"))
    /\ UNCHANGED <<bookVars, inboxVars, strays, row, crashes, manual>>

CloseFilled(i) == done[i].cls > 0

CloseQuery(p) ==
    /\ l[p].pc = "cquery"
    /\ Read(p, At(p, IF CloseFilled(The(p)) THEN "orphans" ELSE "cafter"), At(p, "cafter"))
    /\ UNCHANGED <<bookVars, inboxVars, account, row, crashes, manual>>

CloseCheck(p) ==
    /\ l[p].pc \in {"cafter", "cbefore"}
    /\ LET open == IF l[p].pc = "cbefore" THEN At(p, "close")
                   ELSE IF l[p].att = 2 THEN End(p, "naked")
                   ELSE [At(p, "cbefore") EXCEPT !.att = @ + 1]
       IN  Read(p, IF pos.qty = 0 THEN At(p, "orphans") ELSE open, open)
    /\ UNCHANGED <<bookVars, inboxVars, account, row, crashes, manual>>

\* _orphan_cancel_after_close
Orphans(p) ==
    /\ l[p].pc = "orphans"
    /\ CancelAll(Jv(orders))
    /\ Go(p, End(p, "closed"))
    /\ UNCHANGED <<bookVars, inboxVars, pos, done, late, strays, row, crashes, manual>>

\* The take-profit: kept out of the way when it cannot be placed.
PlaceTP(p) ==
    /\ l[p].pc = "tp"
    /\ Post(p, Request(The(p), "tp", l[p].fill, 0),
            At(p, "link"), At(p, "link"), At(p, "link"))
    /\ UNCHANGED <<bookVars, inboxVars, strays, row, crashes, manual>>

\* The watch row; without a fill price it is left alone.  Lots that were added between the
\* fill and the link are aside: they would give the row a price that the watch job replaces.
Link(p) ==
    /\ l[p].pc = "link"
    /\ \/ row' = [NoRow EXCEPT !.state = "open", !.gen = pos.gen] /\ UNCHANGED faults
       \/ Fail /\ row' = row
    /\ Go(p, End(p, "entered"))
    /\ UNCHANGED <<bookVars, inboxVars, account, crashes, manual>>
-----------------------------------------------------------------------------
(***************************************************************************)
(* run_move_stop_sequence: the tighter stop first, then the old ones go.   *)
(***************************************************************************)
\* The position, the advice of now and the buffer to the mark.
MoveRead(p) ==
    /\ l[p].pc = "mread"
    /\ Read(p, IF pos.qty = 0 THEN End(p, "gone")
               ELSE [At(p, "morders") EXCEPT !.fill = pos.qty], End(p, "kept"))
    /\ UNCHANGED <<bookVars, inboxVars, account, row, crashes, manual>>

MoveOrders(p) ==
    /\ l[p].pc = "morders"
    /\ Read(p, IF intent[The(p)].level > Tightest(orders, 0)
               THEN [At(p, "mplace") EXCEPT !.olds = Stops(orders)]
               ELSE End(p, "kept"), End(p, "kept"))
    /\ UNCHANGED <<bookVars, inboxVars, account, row, crashes, manual>>

MovePlace(p) ==
    /\ l[p].pc = "mplace" /\ Sent(The(p))
    /\ Post(p, Request(The(p), "ms", l[p].fill, intent[The(p)].level),
            At(p, "mcancel"), End(p, "kept"), At(p, "mfind"))
    /\ UNCHANGED <<intent, told, won, inboxVars, strays, row, crashes, manual>>

\* A mutant of MoveFind: an unknown answer counts as placed.
MoveFindHopeful(p) ==
    /\ l[p].pc = "mfind"
    /\ Go(p, At(p, "mcancel"))
    /\ UNCHANGED <<bookVars, inboxVars, account, row, limits>>

\* A lookup that fails or finds nothing leaves the old stops.
MoveFind(p) ==
    /\ l[p].pc = "mfind"
    /\ Read(p, IF Rests(orders, The(p), "ms") THEN At(p, "mcancel") ELSE End(p, "kept"),
            End(p, "kept"))
    /\ UNCHANGED <<bookVars, inboxVars, account, row, crashes, manual>>

MoveCancel(p) ==
    /\ l[p].pc = "mcancel"
    /\ CancelAll(l[p].olds)
    /\ Go(p, End(p, "moved"))
    /\ UNCHANGED <<bookVars, inboxVars, pos, done, late, strays, row, crashes, manual>>
-----------------------------------------------------------------------------
(***************************************************************************)
(* run_exit_sequence: close what the advice named, then cancel every stop  *)
(* and take-profit, the owner's too.                                       *)
(***************************************************************************)
SamePosition(i) == pos.qty = intent[i].qty /\ pos.gen = intent[i].gen

ExitRead(p) ==
    /\ l[p].pc = "xread"
    /\ Read(p, IF pos.qty = 0 THEN End(p, "gone")
               ELSE IF ~SamePosition(The(p)) THEN End(p, "changed")
               ELSE [At(p, "xmarket") EXCEPT !.fill = pos.qty], End(p, "check"))
    /\ UNCHANGED <<bookVars, inboxVars, account, row, crashes, manual>>

ExitMarket(p) ==
    /\ l[p].pc = "xmarket" /\ Sent(The(p))
    /\ Post(p, Request(The(p), "ex", l[p].fill, 0),
            At(p, "xcancel"), End(p, "refused"), At(p, "xquery"))
    /\ UNCHANGED <<intent, told, won, inboxVars, strays, row, crashes, manual>>

ExitQuery(p) ==
    /\ l[p].pc = "xquery"
    /\ Read(p, At(p, IF done[The(p)].ex > 0 THEN "xcancel" ELSE "xposition"),
            At(p, "xposition"))
    /\ UNCHANGED <<bookVars, inboxVars, account, row, crashes, manual>>

ExitPosition(p) ==
    /\ l[p].pc = "xposition"
    /\ Read(p, IF pos.qty > 0 THEN End(p, "failed") ELSE At(p, "xcancel"), End(p, "failed"))
    /\ UNCHANGED <<bookVars, inboxVars, account, row, crashes, manual>>

\* A refused DELETE is logged and passed over; a network error ends in "check now".
ExitCancel(p) ==
    /\ l[p].pc = "xcancel"
    /\ \/ CancelAll(orders) /\ Go(p, End(p, "exited"))
       \/ /\ Fail /\ Go(p, End(p, "check"))
          /\ \E kept \in SUBSET orders : orders' = kept
    /\ UNCHANGED <<bookVars, inboxVars, pos, done, late, strays, row, crashes, manual>>
-----------------------------------------------------------------------------
(***************************************************************************)
(* Around the listeners: previews and advice, the owner, the exchange.     *)
(***************************************************************************)
\* insert_exec_intent: an entry needs a flat account, advice a position.
Offer(i, kind, at) ==
    /\ intent[i] = NoIntent /\ kind \in Kinds
    /\ IF kind = "entry" THEN at.qty = 0 ELSE at.qty > 0
    /\ \E level \in IF kind = "move" THEN Levels ELSE {0} :
          intent' = [intent EXCEPT ![i] =
              [kind |-> kind, status |-> "preview", aged |-> FALSE, level |-> level,
               qty |-> IF kind = "entry" THEN Size ELSE at.qty, gen |-> at.gen]]
    /\ UNCHANGED <<told, won, sends, inboxVars, l, account, row, limits>>

\* expires_at_ms passes.
Age(i) ==
    /\ intent[i].status = "preview" /\ ~intent[i].aged
    /\ intent' = [intent EXCEPT ![i].aged = TRUE]
    /\ UNCHANGED <<told, won, sends, inboxVars, l, account, row, limits>>

Press(i, say) ==
    /\ intent[i] # NoIntent /\ Len(inbox) < MaxTaps
    /\ say = "no" => intent[i].kind # "exit"
    /\ inbox' = Append(inbox, [say |-> say, i |-> i])
    /\ UNCHANGED <<bookVars, offset, l, account, row, limits>>

\* A resting order fires: it reduces the position, or is dropped when there is none.
Trigger(o) ==
    /\ o \in orders
    /\ orders' = orders \ {o}
    /\ pos' = [pos EXCEPT !.qty = @ - Least(@, o.qty)]
    /\ UNCHANGED <<bookVars, inboxVars, l, done, late, strays, row, limits>>

Asks(p, i) == l[p].pc \in {"mquery", "mposition"} /\ The(p) = i

\* A request whose answer was lost is carried out after all, or never.
Land(r) ==
    /\ r \in late
    /\ late' = late \ {r}
    /\ \/ /\ \E q \in Fills(r) : Execute(r, q)
          /\ strays' = IF r.step = "mkt" /\ ~\E p \in Listeners : Asks(p, r.by)
                       THEN strays \cup {r.by} ELSE strays
       \/ Nothing /\ strays' = strays
    /\ UNCHANGED <<bookVars, inboxVars, l, row, limits>>

\* The owner trades by hand: buys a lot, closes, or places a stop on everything.
ByHand ==
    /\ manual < MaxManual /\ manual' = manual + 1
    /\ \/ /\ pos' = [qty |-> pos.qty + 1, gen |-> pos.gen + 1] /\ orders' = orders
       \/ /\ pos.qty > 0 /\ pos' = [pos EXCEPT !.qty = 0] /\ orders' = orders
       \/ /\ pos.qty > 0 /\ pos' = pos
          /\ orders' = orders \cup {Request(Owner, "own", pos.qty, 0)}
    /\ UNCHANGED <<bookVars, inboxVars, l, done, late, strays, row, faults, crashes>>

\* The jobs process dies and comes back.
Crash(p) ==
    /\ crashes < MaxCrashes /\ l[p] # Resting
    /\ crashes' = crashes + 1
    /\ Go(p, Resting)
    /\ UNCHANGED <<bookVars, inboxVars, account, row, faults, manual>>

Entry(p) ==
    \/ EntryGuards(p) \/ ClearStale(p) \/ Margin(p) \/ Market(p) \/ MarketQuery(p)
    \/ MarketPosition(p) \/ Filled(p) \/ PlaceStop(p) \/ WouldTrigger(p) \/ FindStop(p)
    \/ ConfirmStop(p) \/ CloseSend(p) \/ CloseQuery(p) \/ CloseCheck(p) \/ Orphans(p)
    \/ PlaceTP(p) \/ Link(p)
Move(p) == MoveRead(p) \/ MoveOrders(p) \/ MovePlace(p) \/ MoveFind(p) \/ MoveCancel(p)
Exit(p) == ExitRead(p) \/ ExitMarket(p) \/ ExitQuery(p) \/ ExitPosition(p) \/ ExitCancel(p)
Listen(p) ==
    \/ Fetch(p) \/ Store(p) \/ Swallow(p) \/ Decline(p) \/ Replay(p) \/ Confirm(p)
    \/ Expire(p) \/ Claim(p) \/ Keys(p) \/ Finish(p)

Work(p) == Listen(p) \/ Entry(p) \/ Move(p) \/ Exit(p)
Outside ==
    \/ \E i \in Intents : Age(i) \/ \E say \in {"yes", "no"} : Press(i, say)
    \/ (\E o \in orders : Trigger(o)) \/ (\E r \in late : Land(r)) \/ ByHand

Next ==
    \/ (\E p \in Listeners : Work(p) \/ Crash(p)) \/ Outside
    \/ \E i \in Intents, kind \in Kinds : Offer(i, kind, pos)

Spec == Init /\ [][Next]_vars
-----------------------------------------------------------------------------
TypeOK ==
    /\ intent \in [Intents -> [kind : {"none", "entry", "move", "exit"},
                               status : {"none", "preview", "confirmed", "done", "failed",
                                         "cancelled", "expired"},
                               aged : BOOLEAN, qty : Nat, level : Nat, gen : Nat]]
    /\ won \subseteq Intents
    /\ sends \in [Intents -> Nat]
    /\ inbox \in Seq([say : {"yes", "no"}, i : Intents])
    /\ offset \in Nat
    /\ pos.qty \in Nat /\ pos.gen \in Nat
    /\ \A o \in orders \cup late : o.by \in Intents \cup {Owner} /\ o.qty \in Nat

\* Two taps on one intent, a tap delivered again after a crash, two listeners
\* side by side: whatever happens, an intent's order is POSTed at most once.
SentOnce == \A i \in Intents : sends[i] <= 1

\* store.claim_exec_intent and the status checks implement the promise of IntentBook.
Book == INSTANCE IntentBook WITH
            offered <- {i \in Intents : intent[i].status = "preview"},
            sent <- {i \in Intents : sends[i] = 1}
ImplementsBook == Book!Spec

Bare  == pos.qty > 0 /\ Coverage(orders, pos.qty, 1) # "full"
Quiet == late = {} /\ \A p \in Listeners : l[p].pc = "idle"

\* "A position must never be left without a stop": when nobody works any more, a
\* position without full stops was reported as such, or a listener died over it
\* and its intent says "in flight" for ever, or its entry was reported as failed
\* and the exchange carried it out after that.  (What the owner opens by hand is the
\* watch job's to see.)
BareIsTold ==
    Quiet /\ Bare /\ manual = 0 =>
        \E i \in Intents :
            \/ told[i] \in {"naked", "check"} \/ intent[i].status = "confirmed"
            \/ told[i] = "failed" /\ done[i].mkt > 0

\* Stops are only ever cancelled after a new one covers the position, or when it is gone:
\* unless the owner opened it by hand, or the exchange did, with an entry that was given up.
\* (An entry clears what is left of older trades, and an exit what it has closed, without
\* a further look at the position.)
CoverNeverCancelled ==
    [][pos' = pos /\ pos.qty > 0 /\ ~Bare /\ manual = 0 /\ strays = {} => ~Bare']_<<pos, orders>>

=============================================================================
