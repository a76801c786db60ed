------------------------------ MODULE LiveOrders ------------------------------
(***************************************************************************)
(* Live spot orders of one symbol (src/jarvise_trade): an approved long    *)
(* buys and then places a protective stop, an approved flat and the kill-  *)
(* switch flatten cancel the stops and sell, reconcile copies venue fills  *)
(* into live_orders.  Every order carries a client order id that names its *)
(* purpose, and before a MARKET order is POSTed the ledger and then the    *)
(* venue are asked whether they hold that id already.                      *)
(*                                                                         *)
(* A step is one call to the venue or one statement on the database.  A    *)
(* call may raise before or after the venue has carried it out, and a      *)
(* process may die between any two steps.  A POST that raises has been     *)
(* carried out by then or never will be: the signed timestamp leaves the   *)
(* venue's receive window long before the client's timeout.                *)
(***************************************************************************)
EXTENDS Integers, Sequences, SequencesExt, FiniteSetsExt

CONSTANTS
    Longs, Exits,       \* approvals whose action is long, flat
    Flatteners,         \* risk-monitor tick, "jarvise trade flatten"
    Reconcilers,
    BuyQty,             \* what a BUY fills, in lots
    MinLot,             \* the venue's smallest tradable quantity
    Spare,              \* coins of this asset that Jarvise did not buy
    Thin,               \* whether a MARKET order may expire partly filled
    Scenes,             \* bounds: the flats approved, who takes part, and what is
                        \* left of the bounds below
    MaxFaults, MaxCrashes, MaxRetries,  \* bounds
    MaxCalls,           \* bound: calls of approve at once, from any process
    MaxTime             \* bound: the times at which calls start

ASSUME LotAssumption == BuyQty \in Nat \ {0} /\ MinLot \in Nat \ {0} /\ Spare \in Nat
ASSUME CallerAssumption == MaxCalls \in Nat /\ (1..MaxCalls) \cap Flatteners = {}
ASSUME LiveBoundAssumption ==
    /\ MaxTime \in Nat \ {0}
    /\ MaxFaults \in Nat /\ MaxCrashes \in Nat /\ MaxRetries \in Nat
    /\ Scenes \subseteq [exits : SUBSET Exits, recons : SUBSET Reconcilers,
                         callers : SUBSET ((1..MaxCalls) \cup Flatteners),
                         faults : 0..MaxFaults, crashes : 0..MaxCrashes,
                         retries : 0..MaxRetries, times : 1..MaxTime]

VARIABLES
    kill,       \* the kill switch, as flatten and approve read it
    card,       \* card[a]: the approval_queue row of a
    ledger,     \* live_orders, in the order of creation
    venue,      \* the venue's orders, in the order it accepted them
    task,       \* what each approve or flatten call is doing
    recon,      \* what each reconcile call is doing
    time,       \* when the latest call started
    raced,      \* history: buys that two calls at once saw the venue without
    doubled,    \* history: approvals of which a call started beside another
    faults, crashes, retries    \* bounds used up

history == <<raced, doubled>>
budget  == <<faults, crashes, retries>>
vars == <<kill, card, ledger, venue, task, recon, time, history, budget>>

Approvals == Longs \cup Exits
Desks     == 1..MaxCalls
Caller    == Desks \cup Flatteners

\* client_order_id_for_approval.
IdOf(a) == <<"a", a>>
BuyIds  == {IdOf(a) : a \in Longs}

NoOrder == [cid |-> <<>>, type |-> "none", side |-> "none", qty |-> 0, done |-> 0,
            open |-> FALSE]
IdleTask  == [pc |-> "idle", cid |-> <<>>, at |-> 1, stops |-> {}, cancelled |-> {}, errs |-> FALSE,
              qty |-> 0, got |-> NoOrder, recovered |-> FALSE, stop |-> <<>>]
IdleRecon == [pc |-> "idle", rows |-> {}, copy |-> <<>>, at |-> 0, got |-> NoOrder]

\* A flat that is never queued, a call that is never made and a reconcile that is
\* not scheduled stay "absent".
Init ==
    /\ kill = FALSE
    /\ ledger = <<>>
    /\ venue = <<>>
    /\ raced = {} /\ doubled = {}
    /\ \E scene \in Scenes :
          /\ card = [a \in Approvals |->
                 IF a \in Longs \cup scene.exits THEN "pending" ELSE "absent"]
          /\ task = [p \in Caller |->
                 IF p \in scene.callers THEN IdleTask ELSE [IdleTask EXCEPT !.pc = "absent"]]
          /\ recon = [r \in Reconcilers |->
                 IF r \in scene.recons THEN IdleRecon ELSE [IdleRecon EXCEPT !.pc = "absent"]]
          /\ faults = MaxFaults - scene.faults
          /\ crashes = MaxCrashes - scene.crashes
          /\ retries = MaxRetries - scene.retries
          /\ time = MaxTime - scene.times + 1

-----------------------------------------------------------------------------
(* The venue.                                                              *)

Of(orders, cid) == {n \in DOMAIN orders : orders[n].cid = cid}
OpenOf(cid)     == {n \in Of(venue, cid) : venue[n].open}

\* GET /api/v3/order by client id: the latest order that carries it.
KnownTo(orders, cid) ==
    IF Of(orders, cid) = {} THEN NoOrder ELSE orders[Max(Of(orders, cid))]
Known(cid) == KnownTo(venue, cid)

\* FoldLeft from 0, as a recursive function: it is evaluated often.
Total(After(_, _), s) ==
    LET upto[n \in 0..Len(s)] == IF n = 0 THEN 0 ELSE After(upto[n - 1], s[n])
    IN  upto[Len(s)]

\* The free balance: open sell orders lock what they have yet to sell.
Free ==
    Spare + Total(LAMBDA sum, o : IF o.side = "BUY" THEN sum + o.done
                                  ELSE IF o.open THEN sum - o.qty ELSE sum - o.done, venue)

\* What Jarvise holds in truth, whether or not it is written down.
Holdings ==
    Total(LAMBDA sum, o : IF o.side = "BUY" THEN sum + o.done ELSE sum - o.done, venue)

\* A MARKET order fills at once; in a thin book the rest expires.
Fills(qty) == IF Thin THEN 0..qty ELSE {qty}

Accepts(side, cid, qty) == OpenOf(cid) = {} /\ (side = "SELL" => qty <= Free)

Ordered(cid, type, side, qty, done, open) ==
    [cid |-> cid, type |-> type, side |-> side, qty |-> qty, done |-> done, open |-> open]

\* The market reaches a stop, and takes all or part of it.
StopTriggers(n) ==
    /\ venue[n].open
    /\ \E d \in (venue[n].done + 1)..venue[n].qty :
          venue' = [venue EXCEPT ![n].done = d, ![n].open = d < venue[n].qty]
    /\ UNCHANGED <<kill, card, ledger, task, recon, time, history, budget>>

-----------------------------------------------------------------------------
(* live_orders.                                                            *)

OpenStatus == {"submitted", "partially_filled"}

\* Mutated form of VENUE_HAS_ORDER_STATUSES: a failed try counts as placed.
VenueHasOrError == {"submitted", "partially_filled", "filled", "error"}
VENUE_HAS_ORDER_STATUSES == {"submitted", "partially_filled", "filled"}

\* lifecycle_status: an order that ended with a part filled stays
\* partially_filled.
lifecycle_status(o) ==
    IF o.done = o.qty THEN "filled"
    ELSE IF o.done > 0 THEN "partially_filled"
    ELSE IF o.open THEN "submitted" ELSE "canceled"

\* "at": created_at_ms, which is when the call that writes the row started;
\* "term": the venue status is terminal; "done" is executed_qty.
RowOf(o, at) == [cid |-> o.cid, at |-> at, type |-> o.type, side |-> o.side,
                 status |-> lifecycle_status(o), done |-> o.done, term |-> ~o.open]
Noted(cid, at, type, side, status) ==
    [cid |-> cid, at |-> at, type |-> type, side |-> side, status |-> status, done |-> 0,
     term |-> FALSE]

\* Rows are appended.  A repeated note of the same failure is kept once: it moves
\* no quantity and reads the same.
Inserted(row) ==
    LET same == Of(ledger, row.cid)
    IN  IF row.status \in {"error", "skipped", "canceled"} /\ same # {}
              /\ ledger[Max(same)] = row
        THEN ledger ELSE Append(ledger, row)

\* Rows are read in the order of created_at_ms, not of their insertion: the row of
\* a call that started before another's goes before it however late it is written.
LatestIn(rows) ==
    LET t == Max({ledger[n].at : n \in rows})
    IN  Max({n \in rows : ledger[n].at = t})

\* live_spot_inventory: buys less sells, never below nothing on the way.
Inventory ==
    LET after[t \in 1..MaxTime + 1, n \in 1..Len(ledger) + 1, held \in Nat] ==
        IF t > MaxTime THEN held
        ELSE IF n > Len(ledger) THEN after[t + 1, 1, held]
        ELSE LET row == ledger[n]
             IN  after[t, n + 1, IF row.at # t THEN held
                                 ELSE IF row.side = "BUY" THEN held + row.done
                                 ELSE IF row.done < held THEN held - row.done ELSE 0]
    IN  after[1, 1, 0]

LatestStatus(cid) ==
    IF Of(ledger, cid) = {} THEN "none" ELSE ledger[LatestIn(Of(ledger, cid))].status

\* Mutated form of LedgerHolds: the ledger is not asked.
LedgerUnasked(cid) == FALSE
LedgerHolds(cid) == LatestStatus(cid) \in VENUE_HAS_ORDER_STATUSES

FilledBuys == {n \in DOMAIN ledger : ledger[n].side = "BUY" /\ ledger[n].done > 0}
OpenRows   == {n \in DOMAIN ledger : ledger[n].status \in OpenStatus}
OpenStops  == {n \in OpenRows : ledger[n].type = "STOP" /\ ~ledger[n].term}

-----------------------------------------------------------------------------
(* A call of submit_live_for_approval or sell_inventory.                   *)

Sets(p, t)  == task' = [task EXCEPT ![p] = t]
At(p, pc)   == Sets(p, [task[p] EXCEPT !.pc = pc])
Fault       == faults < MaxFaults /\ faults' = faults + 1 /\ UNCHANGED <<crashes, retries>>
NoFault     == UNCHANGED budget
IsBuy(p)    == task[p].cid \in BuyIds
SideOf(p)   == IF IsBuy(p) THEN "BUY" ELSE "SELL"

EndsOk(p) == Sets(p, IdleTask) /\ UNCHANGED card

\* _approve_live marks the card failed, whatever it is by then; a flatten only
\* reports.
EndsFailed(p) ==
    /\ Sets(p, IdleTask)
    /\ card' = [a \in Approvals |-> IF task[p].cid = IdOf(a) THEN "failed" ELSE card[a]]

\* A call starts at the time of the latest one, or later.
Starts(p, pc, cid) ==
    /\ time' \in {t \in 1..MaxTime : t >= time}
    /\ Sets(p, [IdleTask EXCEPT !.pc = pc, !.cid = cid, !.at = time'])

\* claim_approval_for_fill, after the caller has seen a clear switch.  A call takes
\* the first free desk.
ApproveClaims(p, a) ==
    /\ task[p].pc = "idle" /\ \A q \in 1..(p - 1) : task[q].pc # "idle"
    /\ card[a] = "pending"
    /\ ~kill
    /\ card' = [card EXCEPT ![a] = "claimed"]
    /\ Starts(p, IF a \in Exits THEN "inventory" ELSE "lookup", IdOf(a))
    /\ doubled' = IF \E q \in Caller : task[q].cid = IdOf(a) THEN doubled \cup {a} ELSE doubled
    /\ UNCHANGED <<kill, ledger, venue, recon, raced, budget>>

\* An enqueue that read the id of a card while it was pending puts the card back on
\* the table, whatever became of it and whoever is submitting it by now
\* (upsert_pending_approval, module PaperDesk).
Reoffered(a) ==
    /\ card[a] \in {"claimed", "failed"}
    /\ retries < MaxRetries
    /\ retries' = retries + 1
    /\ card' = [card EXCEPT ![a] = "pending"]
    /\ UNCHANGED <<kill, ledger, venue, task, recon, time, history, faults, crashes>>

\* A flat with nothing to sell is skipped.
HasInventory(p) ==
    /\ task[p].pc = "inventory"
    /\ IF Inventory = 0 THEN EndsOk(p) ELSE At(p, "lookup") /\ UNCHANGED card
    /\ UNCHANGED <<kill, ledger, venue, recon, time, history, budget>>

\* The preflight, the caps and the key audit may block; then an order that the
\* ledger holds is not sent.
LooksUp(p) ==
    /\ task[p].pc = "lookup"
    /\ \/ EndsFailed(p)
       \/ IF LedgerHolds(task[p].cid) THEN EndsOk(p) ELSE At(p, "query") /\ UNCHANGED card
    /\ UNCHANGED <<kill, ledger, venue, recon, time, history, budget>>

\* flatten_live_positions on an engaged switch.  The client id is keyed to the
\* latest filled BUY; "already_sold" and "already_recorded" go no further.
FlattenStarts(f) ==
    LET cid == <<"f", LatestIn(FilledBuys)>>
    IN  /\ task[f].pc = "idle"
        /\ kill
        /\ Inventory > 0
        /\ ~LedgerHolds(cid)
        /\ LatestStatus(cid) # "skipped"
        /\ Starts(f, "query", cid)
        /\ UNCHANGED <<kill, card, ledger, venue, recon, history, budget>>

\* Mutated form of VenueKnows: the venue is not asked before the POST.
VenueUnasked(cid) == NoOrder
VenueKnows(cid) == Known(cid)

\* _existing_venue_order: an unanswered query is no proof of absence.
Queries(p) ==
    LET cid == task[p].cid
        o == VenueKnows(cid)
        beside == {q \in Caller : task[q].cid = cid /\ task[q].pc = "post"}
    IN  /\ task[p].pc = "query"
        /\ \/ /\ Fault
              /\ ledger' = Inserted(Noted(cid, task[p].at, "MARKET", SideOf(p), "error"))
              /\ EndsFailed(p)
              /\ UNCHANGED raced
           \/ /\ o # NoOrder /\ NoFault
              /\ ledger' = Inserted(RowOf(o, task[p].at))
              /\ EndsOk(p)
              /\ UNCHANGED raced
           \/ /\ o = NoOrder /\ NoFault
              /\ At(p, IF IsBuy(p) THEN "post" ELSE "list")
              /\ raced' = {a \in Longs : a \in raced \/ (cid = IdOf(a) /\ beside # {})}
              /\ UNCHANGED <<card, ledger>>
        /\ UNCHANGED <<kill, venue, recon, time, doubled>>

\* cancel_open_stops: our stops, by the ledger.
ListsStops(p) ==
    /\ task[p].pc = "list"
    /\ Sets(p, [task[p] EXCEPT !.pc = "cancel", !.stops = OpenStops])
    /\ UNCHANGED <<kill, card, ledger, venue, recon, time, history, budget>>

Closed(cid) == [n \in DOMAIN venue |->
    IF n \in OpenOf(cid) THEN [venue[n] EXCEPT !.open = FALSE] ELSE venue[n]]

\* DELETE, and on -2011 a GET.  When either raises the row is left alone and the
\* exit will fail.
CancelsStop(p) ==
    LET n == Min(task[p].stops)
        cid == ledger[n].cid
    IN  /\ task[p].pc = "cancel"
        /\ task[p].stops # {}
        /\ \/ /\ NoFault
              /\ venue' = Closed(cid)
              /\ Sets(p, [task[p] EXCEPT !.pc = "cancelled", !.got = KnownTo(venue', cid)])
           \/ /\ Fault
              /\ venue' \in {venue, Closed(cid)}
              /\ Sets(p, [task[p] EXCEPT !.stops = @ \ {n}, !.errs = TRUE])
        /\ UNCHANGED <<kill, card, ledger, recon, time, history>>

\* update_live_order_fill; an order the venue never had is canceled.
Updated(row, o) ==
    IF o = NoOrder THEN [row EXCEPT !.status = "canceled", !.term = TRUE]
    ELSE [row EXCEPT !.status = lifecycle_status(o), !.done = o.done, !.term = ~o.open]

RecordsCancel(p) ==
    LET n == Min(task[p].stops)
    IN  /\ task[p].pc = "cancelled"
        /\ ledger' = [ledger EXCEPT ![n] = Updated(ledger[n], task[p].got)]
        /\ Sets(p, [task[p] EXCEPT !.pc = "cancel", !.stops = @ \ {n},
                                   !.cancelled = @ \cup {n}])
        /\ UNCHANGED <<kill, card, venue, recon, time, history, budget>>

\* failed(): the error is recorded; _restore_stop follows when a stop was
\* cancelled and something is left to protect.
Fails(p, l) ==
    /\ ledger' = l
    /\ IF task[p].cancelled = {} \/ Inventory' = 0
       THEN EndsFailed(p)
       ELSE /\ Sets(p, [task[p] EXCEPT !.pc = "stop", !.qty = Inventory',
                                       !.stop = <<"xr", ledger[LatestIn(task[p].cancelled)].cid[2]>>])
            /\ UNCHANGED card

SellNote(p, status) == Inserted(Noted(task[p].cid, task[p].at, "MARKET", "SELL", status))

\* sellable_qty: the ledger's inventory, capped by the free balance.
Sizes(p) ==
    LET held == Inventory
        size == Min({held, Free})
    IN  /\ task[p].pc = "cancel"
        /\ task[p].stops = {}
        /\ \/ /\ task[p].errs /\ NoFault
              /\ Fails(p, SellNote(p, "error"))
           \/ /\ ~task[p].errs /\ held > 0 /\ Fault
              /\ Fails(p, SellNote(p, "error"))
           \/ /\ ~task[p].errs /\ held < MinLot /\ NoFault
              /\ ledger' = SellNote(p, "skipped")
              /\ EndsOk(p)
           \/ /\ ~task[p].errs /\ held >= MinLot /\ size < MinLot /\ NoFault
              /\ Fails(p, SellNote(p, "error"))
           \/ /\ ~task[p].errs /\ size >= MinLot /\ NoFault
              /\ Sets(p, [task[p] EXCEPT !.pc = "post", !.qty = size])
              /\ UNCHANGED <<card, ledger>>
        /\ UNCHANGED <<kill, venue, recon, time, history>>

\* _post_market: one POST, never repeated.
Posts(p) ==
    LET cid == task[p].cid
        qty == IF IsBuy(p) THEN BuyQty ELSE task[p].qty
        side == SideOf(p)
    IN  /\ task[p].pc = "post"
        /\ \/ /\ Accepts(side, cid, qty)
              /\ \E d \in Fills(qty) :
                    LET o == Ordered(cid, "MARKET", side, qty, d, FALSE)
                    IN  /\ venue' = Append(venue, o)
                        /\ \/ NoFault /\ Sets(p, [task[p] EXCEPT !.pc = "record", !.got = o])
                           \/ Fault /\ At(p, "requery")
           \/ /\ IF Accepts(side, cid, qty) THEN Fault ELSE NoFault
              /\ At(p, "requery")
              /\ UNCHANGED venue
        /\ UNCHANGED <<kill, card, ledger, recon, time, history>>

\* The response was an error or was lost: one query decides what is recorded.
Requeries(p) ==
    LET o == Known(task[p].cid)
        note == Inserted(Noted(task[p].cid, task[p].at, "MARKET", SideOf(p), "error"))
    IN  /\ task[p].pc = "requery"
        /\ \/ /\ o # NoOrder /\ NoFault
              /\ Sets(p, [task[p] EXCEPT !.pc = "record", !.got = o, !.recovered = TRUE])
              /\ UNCHANGED <<card, ledger>>
           \/ /\ IF o = NoOrder THEN NoFault ELSE Fault
              /\ IF IsBuy(p) THEN ledger' = note /\ EndsFailed(p) ELSE Fails(p, note)
        /\ UNCHANGED <<kill, venue, recon, time, history>>

\* The fill is written down.  A BUY whose own response arrived gets its stop.
Records(p) ==
    LET row == RowOf(task[p].got, task[p].at)
    IN  /\ task[p].pc = "record"
        /\ ledger' = Inserted(row)
        /\ IF IsBuy(p) /\ ~task[p].recovered /\ row.status \in VENUE_HAS_ORDER_STATUSES
           THEN /\ Sets(p, [task[p] EXCEPT !.pc = "stop", !.qty = row.done,
                                           !.stop = <<"x", task[p].cid[2]>>])
                /\ UNCHANGED card
           ELSE EndsOk(p)
        /\ UNCHANGED <<kill, venue, recon, time, history, budget>>

StopEnds(p) == IF IsBuy(p) THEN EndsOk(p) ELSE EndsFailed(p)

\* place_protective_stop: any failure, a lost response included, is a row in
\* error.
PlacesStop(p) ==
    LET size == Min({task[p].qty, Free})
        cid == task[p].stop
        o == Ordered(cid, "STOP", "SELL", size, 0, TRUE)
        possible == size >= MinLot /\ Accepts("SELL", cid, size)
    IN  /\ task[p].pc = "stop"
        /\ \/ /\ possible /\ NoFault
              /\ venue' = Append(venue, o)
              /\ Sets(p, [task[p] EXCEPT !.pc = "stopped", !.got = o])
              /\ UNCHANGED <<card, ledger>>
           \/ /\ IF possible THEN Fault ELSE NoFault
              /\ \/ UNCHANGED venue
                 \/ possible /\ venue' = Append(venue, o)
              /\ ledger' = Inserted(Noted(cid, task[p].at, "STOP", "SELL", "error"))
              /\ StopEnds(p)
        /\ UNCHANGED <<kill, recon, time, history>>

RecordsStop(p) ==
    /\ task[p].pc = "stopped"
    /\ ledger' = Inserted(RowOf(task[p].got, task[p].at))
    /\ StopEnds(p)
    /\ UNCHANGED <<kill, venue, recon, time, history, budget>>

Dies(p) ==
    /\ task[p].pc \notin {"idle", "absent"}
    /\ crashes < MaxCrashes
    /\ crashes' = crashes + 1
    /\ Sets(p, IdleTask)
    /\ UNCHANGED <<kill, card, ledger, venue, recon, time, history, faults, retries>>

-----------------------------------------------------------------------------
(* reconcile_live_orders: the rows are listed once and then taken in turn.  *)

SetsRecon(r, t) == recon' = [recon EXCEPT ![r] = t]

ReconLists(r) ==
    /\ recon[r].pc = "idle"
    /\ OpenRows # {}
    /\ SetsRecon(r, [IdleRecon EXCEPT !.pc = "rows", !.rows = OpenRows, !.copy = ledger])
    /\ UNCHANGED <<kill, card, ledger, venue, task, time, history, budget>>

ReconQueries(r) ==
    LET n == Min(recon[r].rows)
    IN  /\ recon[r].pc = "rows"
        /\ recon[r].rows # {}
        /\ \/ /\ NoFault
              /\ SetsRecon(r, [recon[r] EXCEPT !.pc = "write", !.at = n,
                                               !.rows = @ \ {n},
                                               !.got = Known(recon[r].copy[n].cid)])
           \/ /\ Fault
              /\ SetsRecon(r, [recon[r] EXCEPT !.rows = @ \ {n}])
        /\ UNCHANGED <<kill, card, ledger, venue, task, time, history>>

\* What is written is the listed copy brought up to date, also when nothing
\* changed on the venue.
ReconWrites(r) ==
    LET n == recon[r].at
    IN  /\ recon[r].pc = "write"
        /\ ledger' = [ledger EXCEPT ![n] = Updated(recon[r].copy[n], recon[r].got)]
        /\ SetsRecon(r, [recon[r] EXCEPT !.pc = "rows", !.at = 0, !.got = NoOrder])
        /\ UNCHANGED <<kill, card, venue, task, time, history, budget>>

ReconEnds(r) ==
    /\ recon[r].pc = "rows"
    /\ recon[r].rows = {}
    /\ SetsRecon(r, IdleRecon)
    /\ UNCHANGED <<kill, card, ledger, venue, task, time, history, budget>>

-----------------------------------------------------------------------------

Toggle ==
    /\ kill' = ~kill
    /\ UNCHANGED <<card, ledger, venue, task, recon, time, history, budget>>

CallStep(p) ==
    \/ HasInventory(p) \/ LooksUp(p) \/ Queries(p) \/ ListsStops(p) \/ CancelsStop(p) \/ RecordsCancel(p) \/ Sizes(p)
    \/ Posts(p) \/ Requeries(p) \/ Records(p) \/ PlacesStop(p) \/ RecordsStop(p)

ReconStep(r) == ReconLists(r) \/ ReconQueries(r) \/ ReconWrites(r) \/ ReconEnds(r)

Next ==
    \/ \E p \in Desks, a \in Approvals : ApproveClaims(p, a)
    \/ \E a \in Approvals : Reoffered(a)
    \/ \E f \in Flatteners : FlattenStarts(f)
    \/ \E p \in Caller : CallStep(p) \/ Dies(p)
    \/ \E r \in Reconcilers : ReconStep(r)
    \/ \E n \in DOMAIN venue : StopTriggers(n)
    \/ Toggle

Spec == Init /\ [][Next]_vars

\* The scheduler keeps starting the risk monitor and reconcile, and a call that
\* has not died runs to its end.
FairSpec ==
    /\ Spec
    /\ \A f \in Flatteners : WF_vars(FlattenStarts(f)) /\ WF_vars(CallStep(f))
    /\ \A d \in Desks : WF_vars(CallStep(d))
    /\ \A r \in Reconcilers : WF_vars(ReconStep(r))

-----------------------------------------------------------------------------

BuysOf(a) == {n \in Of(venue, IdOf(a)) : venue[n].side = "BUY"}

\* "A retried approve (same id) [...] never POSTs twice": the venue gets at most one
\* BUY per approval, whatever was lost or died in the tries before and whichever
\* other call of the approval runs (_existing_venue_order), unless two calls had
\* both been told that the venue lacks the order before either sent it.
OneBuyPerApproval == \A a \in Longs \ raced : Cardinality(BuysOf(a)) <= 1

\* A BUY of the venue is written down once however often it is recovered, so that
\* the inventory every exit is sized from is not larger than what was bought, as
\* long as the calls of its approval came one after the other.
BuysCountedOnce ==
    \A a \in Longs \ doubled :
        Cardinality({n \in Of(ledger, IdOf(a)) : ledger[n].done > 0}) <= 1

\* "Every Jarvise live position is either sold, reported as dust, or left with its
\* stop in place" (flatten design, success criterion 2), once the switch stays
\* engaged, where the risk monitor is scheduled and no buy was sent twice: the row
\* of the earlier of two such calls may come so late that the flatten id it is
\* sold under is spent.
Scheduled == \E f \in Flatteners : task[f].pc # "absent"
Protected == \E n \in DOMAIN venue : venue[n].type = "STOP" /\ venue[n].open
Dust ==
    /\ Inventory < MinLot
    /\ FilledBuys # {} /\ LatestStatus(<<"f", LatestIn(FilledBuys)>>) = "skipped"
Settled == Inventory = 0 \/ Holdings = 0 \/ Protected \/ Dust
FlattenSettles == Scheduled /\ <>[]kill => <>[](Settled \/ raced # {})

=============================================================================
