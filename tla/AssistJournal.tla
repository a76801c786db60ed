--------------------------- MODULE AssistJournal ---------------------------
(***************************************************************************)
(* The journal of real trades (src/jarvise_assist/journal.py,              *)
(* real_trades.py): when the watch job sees a position gone it rebuilds    *)
(* the trades of the window from the exchange's history, adds a journal    *)
(* row to each closed one and sends its card; the weekly report rebuilds   *)
(* the whole table; the owner grades the cards.                            *)
(*                                                                         *)
(* One symbol.  The history is the sequence of its fills, and a time is a  *)
(* place in it.  What happens between two looks at the position lies       *)
(* within the hour by which a sync reaches back, what happened before the  *)
(* earlier look may not.  A step is one committed statement or one call to *)
(* Telegram or the exchange; watch job, report and listener interleave.    *)
(***************************************************************************)
EXTENDS Integers, Sequences, FiniteSets, FiniteSetsExt, Functions

CONSTANTS
    MaxFills,       \* fills in the history
    MaxAttempts,    \* SYNC_MAX_ATTEMPTS
    Size,           \* units an entry buys
    Script,         \* what the owner does with his cards, in order
    MaxEvents       \* hand trades, taps, failed or late calls, deaths, nights and lapses together

ASSUME JournalTaps == Script \in Seq({"pass", "fail", "tag", "done", "note"})
ASSUME JournalBounds == {MaxFills, MaxAttempts, Size, MaxEvents} \subseteq Nat \ {0}

Places == 1..MaxFills

VARIABLES
    hist,       \* the fills: "entry" by Jarvise, "hand" buys of the owner, "exit"
    pos,        \* the position's quantity
    row,        \* assist_watch_position, and assist_journal_sync of its close
    looked,     \* how much of the history had happened at the last look
    real,       \* assist_real_trade, by the place of the entry
    jrn,        \* assist_journal, by the place of the entry
    tick,       \* what the watch job is doing, and what it read
    report,     \* what the weekly report is doing, and how much history it read
    handled,    \* how far the listener is with the taps
    inbox,      \* the owner's taps, in order
    offset,     \* the offset stored
    sent,       \* history: cards delivered, by the place of the entry
    unsaved,    \* history: cards delivered whose message id the sender never stored
    events      \* bound used up

market == <<hist, pos>>
talk == <<handled, inbox, offset>>
vars == <<market, row, looked, real, jrn, tick, report, talk, sent, unsaved, events>>

NoRow == [state |-> "none", avg |-> 0, entry |-> 0, since |-> 0, closed |-> 0, tries |-> 0,
          rested |-> TRUE, old |-> FALSE]
NoJournal == [in |-> FALSE, card |-> 0, grade |-> "none", tag |-> FALSE, note |-> FALSE]
Asleep == [pc |-> "idle", queue |-> {}, since |-> 0, n |-> 0, e |-> 0]

Init ==
    /\ hist = <<>> /\ pos = 0
    /\ row = NoRow /\ looked = 0
    /\ real = [e \in Places |-> "none"]
    /\ jrn = [e \in Places |-> NoJournal]
    /\ tick = Asleep
    /\ report = [pc |-> "idle", n |-> 0]
    /\ handled = 0 /\ inbox = <<>> /\ offset = 0
    /\ sent = [e \in Places |-> 0] /\ unsaved = [e \in Places |-> 0]
    /\ events = 0

Now == Len(hist)
Mishap == events < MaxEvents /\ events' = events + 1
-----------------------------------------------------------------------------
(***************************************************************************)
(* build_real_rows: entries in order, each takes the exits after it that   *)
(* no earlier entry used, until its quantity is gone.  Only what lies      *)
(* between since and n is read.                                            *)
(***************************************************************************)
Entries(since, n) == {k \in since..n : hist[k].kind = "entry"}
Exits(e, n)       == {k \in (e + 1)..n : hist[k].kind = "exit"}
Sold(places)      == SumFunctionOnSet([k \in places |-> hist[k].qty], places)

Taken(exits) == {k \in exits : Sold({x \in exits : x < k}) < Size}

\* A mutant of Closed: an exit before the entry counts.
ClosedAnyExit(since, n) ==
    {e \in Entries(since, n) : Sold({k \in since..n : hist[k].kind = "exit"}) >= Size}

Closed(since, n) ==
    LET used[k \in 0..n] ==
            IF k < since THEN {}
            ELSE used[k - 1] \cup (IF hist[k].kind = "entry"
                                   THEN Taken(Exits(k, n) \ used[k - 1]) ELSE {})
    IN  {e \in Entries(since, n) : Sold(Taken(Exits(e, n) \ used[e - 1])) >= Size}

Rebuilt(since, n) ==
    LET closed == Closed(since, n)
    IN  [e \in Places |-> CASE e \in closed -> "closed" [] e \in Entries(since, n) \ closed -> "open"
                            [] OTHER -> "none"]

\* A mutant of Replaced: the rows before the window go too.
ReplacedAll(since, n) == Rebuilt(since, n)

\* sync_real_trades: the rows of the window are deleted and the built ones inserted.
Replaced(since, n) ==
    LET rebuilt == Rebuilt(since, n)
    IN  [e \in Places |-> IF e < since THEN real[e] ELSE rebuilt[e]]

\* How much of the history the calls of a build return: all of it, or the last fill lags.
Read(n) == \/ n = Now /\ UNCHANGED events
           \/ n = Now - 1 /\ Mishap
-----------------------------------------------------------------------------
(***************************************************************************)
(* The exchange and the clock.                                             *)
(***************************************************************************)
Fill(kind, qty) == Now < MaxFills /\ hist' = Append(hist, [kind |-> kind, qty |-> qty])

Enter == pos = 0 /\ Fill("entry", Size) /\ pos' = Size /\ UNCHANGED events
Buy   == Fill("hand", 1) /\ pos' = pos + 1 /\ Mishap
Sell  == \E q \in 1..pos : Fill("exit", q) /\ pos' = pos - q /\ UNCHANGED events

Trade ==
    /\ Enter \/ Buy \/ Sell
    /\ UNCHANGED <<row, looked, real, jrn, tick, report, talk, sent, unsaved>>

\* Half an hour after the last attempt, and six hours after the close.
Rest  == ~row.rested /\ row' = [row EXCEPT !.rested = TRUE] /\ UNCHANGED events
Lapse == row.state = "closed" /\ ~row.old /\ row' = [row EXCEPT !.old = TRUE] /\ Mishap

Clock ==
    /\ Rest \/ Lapse
    /\ UNCHANGED <<market, looked, real, jrn, tick, report, talk, sent, unsaved>>
-----------------------------------------------------------------------------
(***************************************************************************)
(* The watch job.                                                          *)
(***************************************************************************)
Step(state) == tick' = state
Then(pc)    == [tick EXCEPT !.pc = pc]

\* The place of the last buy: it moves the average entry.
Average == Max({0} \cup {k \in 1..Now : hist[k].kind # "exit"})

\* _ensure_watch_row, then mark_watch_positions_closed; the entry time is the update
\* time of the position as first seen.
Look ==
    /\ tick.pc = "idle"
    /\ row' = IF pos > 0
              THEN IF row.state = "open" /\ row.avg = Average THEN row
                   ELSE [NoRow EXCEPT !.state = "open", !.avg = Average, !.entry = Now,
                                      !.since = Min({looked + 1, Now})]
              ELSE IF row.state = "open" THEN [row EXCEPT !.state = "closed", !.closed = Now]
              ELSE row
    /\ looked' = Now
    /\ Step(Then("first"))
    /\ UNCHANGED <<market, real, jrn, report, talk, sent, unsaved, events>>

Pending == {e \in Places : jrn[e].in /\ jrn[e].card = 0 /\ real[e] = "closed"}

\* A mutant of HasJournal: any journaled trade of the symbol counts.
HasJournalAny == \E e \in Places : jrn[e].in /\ real[e] = "closed"

\* _symbol_has_journal
HasJournal == \E e \in row.entry..row.closed : jrn[e].in /\ real[e] = "closed"

\* _closes_needing_journal and _due_sync_closes.
Needed == row.state = "closed" /\ ~row.old /\ ~HasJournal

Due == Needed /\ row.tries < MaxAttempts /\ row.rested

\* What follows the cards of the first and of the second _send_pending.
Sent(pc) == IF pc = "send2" THEN [Asleep EXCEPT !.pc = "record"]
            ELSE IF Due THEN [Asleep EXCEPT !.pc = "build", !.since = row.since]
            ELSE Asleep

\* A mutant of Deliver: cards go out only after a sync.
DeliverSynced(from, to) ==
    /\ tick.pc = from
    /\ Step(IF from = "first" \/ Pending = {} THEN Sent(to)
            ELSE [tick EXCEPT !.pc = to, !.queue = Pending])
    /\ UNCHANGED <<market, row, looked, real, jrn, report, talk, sent, unsaved, events>>

\* _send_pending, before the sync and after it.  At night nothing goes out.
Deliver(from, to) ==
    /\ tick.pc = from
    /\ \/ Step(IF Pending = {} THEN Sent(to) ELSE [tick EXCEPT !.pc = to, !.queue = Pending])
          /\ UNCHANGED events
       \/ Pending # {} /\ Mishap /\ Step(Sent(to))
    /\ UNCHANGED <<market, row, looked, real, jrn, report, talk, sent, unsaved>>

\* On to the next card, with the one of e stored or left.
Behind(e, pc) == IF tick.queue = {e} THEN Sent(pc)
                 ELSE [tick EXCEPT !.pc = pc, !.queue = @ \ {e}, !.e = 0]

WorthSending(e) == real[e] # "none" /\ jrn[e].in /\ jrn[e].card = 0

\* _send_one: reads both rows again, formats, calls Telegram.
SendCard(e) ==
    /\ tick.pc \in {"send1", "send2"} /\ tick.e = 0
    /\ e = Min(tick.queue)
    /\ \/ ~WorthSending(e) /\ Step(Behind(e, tick.pc)) /\ UNCHANGED <<sent, unsaved, events>>
       \/ /\ WorthSending(e) /\ Step([tick EXCEPT !.e = e])
          /\ sent' = [sent EXCEPT ![e] = @ + 1]
          /\ UNCHANGED <<unsaved, events>>
       \/ /\ WorthSending(e) /\ Mishap /\ Step(Behind(e, tick.pc))
          /\ \/ UNCHANGED <<sent, unsaved>>
             \/ /\ sent' = [sent EXCEPT ![e] = @ + 1]
                /\ unsaved' = [unsaved EXCEPT ![e] = @ + 1]
    /\ UNCHANGED <<market, row, looked, real, jrn, report, talk>>

\* _set_message_id
WithCard(j, card) == IF j.card = 0 THEN [j EXCEPT !.card = card] ELSE j

StoreCard ==
    /\ tick.e # 0
    /\ jrn' = [jrn EXCEPT ![tick.e] = WithCard(@, sent[tick.e])]
    /\ Step(Behind(tick.e, tick.pc))
    /\ UNCHANGED <<market, row, looked, real, report, talk, sent, unsaved, events>>

Build ==
    /\ tick.pc = "build"
    /\ \/ \E n \in 0..Now : Read(n) /\ Step([Then("write") EXCEPT !.n = n])
       \/ Mishap /\ Step(Then("record"))
    /\ UNCHANGED <<market, row, looked, real, jrn, report, talk, sent, unsaved>>

\* The transaction, and the closed rows of the window as _insert_missing reads them.
Write ==
    /\ tick.pc = "write"
    /\ real' = Replaced(tick.since, tick.n)
    /\ LET closed == {e \in Places : e >= tick.since /\ real'[e] = "closed"}
       IN  Step([tick EXCEPT !.pc = IF closed = {} THEN "second" ELSE "insert", !.n = 0,
                             !.queue = closed])
    /\ UNCHANGED <<market, row, looked, jrn, report, talk, sent, unsaved, events>>

\* A mutant of Journaled: a row that is there is written anew.
JournaledOver(j) == [NoJournal EXCEPT !.in = TRUE]

Journaled(j) == IF j.in THEN j ELSE [NoJournal EXCEPT !.in = TRUE]

\* _insert_missing: a commit for each.
Insert ==
    /\ tick.pc = "insert"
    /\ LET e == Min(tick.queue)
       IN  /\ jrn' = [jrn EXCEPT ![e] = Journaled(@)]
           /\ Step([tick EXCEPT !.queue = @ \ {e},
                                !.pc = IF tick.queue = {e} THEN "second" ELSE @])
    /\ UNCHANGED <<market, row, looked, real, report, talk, sent, unsaved, events>>

\* _record_sync_attempts, after a failed sync too.
Record ==
    /\ tick.pc = "record"
    /\ row' = [row EXCEPT !.tries = @ + 1, !.rested = FALSE]
    /\ Step(Asleep)
    /\ UNCHANGED <<market, looked, real, jrn, report, talk, sent, unsaved, events>>

Watch ==
    \/ Look \/ Deliver("first", "send1") \/ Deliver("second", "send2")
    \/ (\E e \in Places : SendCard(e)) \/ StoreCard
    \/ Build \/ Write \/ Insert \/ Record
-----------------------------------------------------------------------------
(***************************************************************************)
(* run_real_report: weekly, and by hand.                                   *)
(***************************************************************************)
ReportBuild ==
    /\ report.pc = "idle"
    /\ report' = [pc |-> "write", n |-> Now]
    /\ UNCHANGED <<market, row, looked, real, jrn, tick, talk, sent, unsaved, events>>

ReportWrite ==
    /\ report.pc = "write"
    /\ real' = Replaced(1, report.n)
    /\ report' = [pc |-> "idle", n |-> 0]
    /\ UNCHANGED <<market, row, looked, jrn, tick, talk, sent, unsaved, events>>

Report == ReportBuild \/ ReportWrite
-----------------------------------------------------------------------------
(***************************************************************************)
(* The listener.                                                           *)
(***************************************************************************)
\* The owner uses a card that he was sent.
Tap ==
    /\ Len(inbox) < Len(Script) /\ Mishap
    /\ \E e \in Places : \E card \in 1..sent[e] :
           inbox' = Append(inbox, [e |-> e, card |-> card, kind |-> Script[Len(inbox) + 1]])
    /\ UNCHANGED <<market, row, looked, real, jrn, tick, report, handled, offset, sent, unsaved>>

\* A mutant of Graded: the first grade stays.
GradedOnce(j, kind) ==
    IF j.grade # "none" THEN j
    ELSE CASE kind = "pass" -> [j EXCEPT !.grade = "pass", !.tag = FALSE]
           [] kind = "fail" -> [j EXCEPT !.grade = "fail"]
           [] OTHER -> j

\* handle_journal_callback, by the button.
Graded(j, kind) ==
    CASE kind = "pass" -> [j EXCEPT !.grade = "pass", !.tag = FALSE]
      [] kind = "fail" -> [j EXCEPT !.grade = "fail"]
      [] kind = "tag" /\ j.grade = "fail" -> [j EXCEPT !.tag = ~@]
      [] OTHER -> j

\* A button stores the card's id when there is none; a reply needs the id (store_journal_note).
Handle ==
    /\ handled < Len(inbox)
    /\ handled' = handled + 1
    /\ LET tap == inbox[handled']
           j   == jrn[tap.e]
       IN  jrn' = [jrn EXCEPT ![tap.e] =
                      IF tap.kind # "note" THEN Graded(WithCard(j, tap.card), tap.kind)
                      ELSE IF j.card = tap.card THEN [j EXCEPT !.note = TRUE] ELSE j]
    /\ UNCHANGED <<market, row, looked, real, tick, report, inbox, offset, sent, unsaved, events>>

\* The offset moves when a batch is through; a batch is whatever had arrived.
StoreOffset ==
    /\ offset < handled /\ offset' = handled
    /\ UNCHANGED <<market, row, looked, real, jrn, tick, report, handled, inbox, sent, unsaved,
                   events>>

Listen == Handle \/ StoreOffset

\* The listener's thread dies: the batch comes again.
Redeliver ==
    /\ offset < handled /\ handled' = offset
    /\ UNCHANGED <<market, row, looked, real, jrn, tick, report, inbox, offset, sent, unsaved,
                   events>>

\* The service dies: the card just delivered keeps no id.
Die ==
    /\ Mishap
    /\ tick # Asleep \/ report.pc # "idle"
    /\ unsaved' = IF tick.e = 0 THEN unsaved ELSE [unsaved EXCEPT ![tick.e] = @ + 1]
    /\ tick' = Asleep
    /\ report' = [pc |-> "idle", n |-> 0]
    /\ UNCHANGED <<market, row, looked, real, jrn, talk, sent>>

Next == Trade \/ Clock \/ Watch \/ Report \/ Listen \/ Tap \/ Redeliver \/ Die

\* The scheduler starts a tick every few minutes and the report every week, half hours pass.
Spec ==
    /\ Init /\ [][Next]_vars
    /\ WF_tick(Watch) /\ WF_report(Report) /\ WF_row(Rest /\ Clock)
-----------------------------------------------------------------------------
(***************************************************************************)
(* Properties.                                                             *)
(***************************************************************************)
After(e) == {k \in (e + 1)..Now : hist[k].kind = "entry"}
OwnExits(e) == {k \in (e + 1)..Now : hist[k].kind = "exit" /\ \A x \in After(e) : k < x}

\* However the tables are rebuilt, in windows or whole, a trade marked closed is one that
\* the exits between its entry and the next entry sold in full.
ClosedRowsSold == \A e \in Places : real[e] = "closed" => Sold(OwnExits(e)) >= Size

\* A card is delivered once; each delivery more goes back to a send whose message id
\* was never stored, because the answer was lost or the service died.
CardOnce == \A e \in Places : sent[e] <= 1 + unsaved[e]

\* With the inbox handled, a card's grade is the last one the owner tapped, deliveries
\* handled twice included.
LastGrade(e) ==
    LET taps == {k \in 1..Len(inbox) : inbox[k].e = e /\ inbox[k].kind \in {"pass", "fail"}}
    IN  IF taps = {} THEN "none" ELSE inbox[Max(taps)].kind
GradeIsLastTap ==
    offset = Len(inbox) => \A e \in Places : jrn[e].grade = LastGrade(e)

\* A closed trade is not reopened or dropped, except by a rebuild that read the history
\* before the trade was sold.
ReopenedOnlyByOldRead ==
    [][\A e \in Places :
          real[e] = "closed" /\ real'[e] # "closed" =>
              \/ tick.pc = "write" /\ Sold(Exits(e, tick.n)) < Size
              \/ report.pc = "write" /\ Sold(Exits(e, report.n)) < Size]_vars

\* The close of a Jarvise trade gets its journal row if the watch row spans that trade and
\* no other, unless a new position takes the row, six hours pass or the attempts run out.
Spanned == IF row.state = "closed" THEN Entries(row.since, row.closed) ELSE {}
ClosedIsJournaled ==
    []<>(row.old \/ row.tries = MaxAttempts \/ \A e \in Spanned : jrn[e].in \/ Spanned # {e})

\* A journal row gets its card, also when a report wrote old rows over the trade, the
\* night held it or a send failed.
JournaledIsCarded == []<>(\A e \in Places : jrn[e].in => jrn[e].card # 0)
=============================================================================
