------------------------------ MODULE PaperDesk ------------------------------
(***************************************************************************)
(* The paper desk: the approval queue and the paper ledger, worked on at   *)
(* once by the web app, the jobs service and the CLI, which share nothing  *)
(* but one SQLite file and the kill switch in Redis.                       *)
(*                                                                         *)
(*   Owners     approve_approval behind the web button or the CLI          *)
(*   Autos      run_auto_decide, which reviews a card and then approves it *)
(*   Enqueuers  paper run, ending in upsert_pending_approval               *)
(*   Monitors   run_risk_monitor: mark, stop exits, mark, halt             *)
(*   Expirers   expire_approvals                                           *)
(*   Closers    close_position behind the web button                       *)
(*                                                                         *)
(* A step is what one process does between two points where another may    *)
(* run: one SQL statement, one transaction, one call to Redis.  Only       *)
(* approve_approval wraps apply_signal in BEGIN IMMEDIATE; the monitor, the*)
(* expirer and the closer read the ledger first and write it back later.   *)
(***************************************************************************)
EXTENDS PaperEngine, ApprovalQueue

CONSTANTS
    Owners, Autos, Enqueuers, Monitors, Expirers, Closers,
    MaxOpen,    \* max_open_positions of the portfolio caps
    MaxNow,     \* bound: clock ticks
    MaxOffers,  \* bound: cards ever put on the table
    MaxOrders   \* bound: journal rows after which no new exit is started

ASSUME IdAssumption == Id # {}
ASSUME AnalysisAssumption ==
    /\ Analysis # {}
    /\ \A a \in Analysis : a.symbol \in Symbol /\ a.action \in Actions
ASSUME CapAssumption == MaxOpen \in Nat /\ MaxNow \in Nat
ASSUME BoundAssumption == MaxOffers \in Nat /\ MaxOrders \in Nat

VARIABLES
    kill,       \* jarvise:kill_switch in Redis (an unreadable switch reads as on)
    now,        \* the wall clock
    queue,      \* the approval_queue table
    book,       \* the paper_positions table
    cash,       \* paper_account.cash
    journal,    \* the sums of the paper_orders table
    approve,    \* the approvers' local state
    enqueue,    \* the enqueuers' local state
    direct,     \* the local state of the jobs that write the ledger directly
    offers,     \* history: the number of the last card put on the table
    fills       \* history: the cards that were claimed and filled

vars == <<kill, now, queue, book, cash, journal, approve, enqueue, direct,
          offers, fills>>
ledger == <<book, cash, journal>>
history == <<offers, fills>>

Approver  == Owners \cup Autos
DirectJob == Monitors \cup Expirers \cup Closers

NoRow == VacantRow
IdleApprove == [pc |-> "idle", id |-> CHOOSE i \in Id : TRUE, ts |-> 0,
                seen |-> NoRow, expected |-> {}, reviewed |-> {}]
IdleEnqueue == [pc |-> "idle", analysis |-> NoRow.analysis, target |-> {}, ts |-> 0]
IdleDirect  == [pc |-> "idle", symbol |-> CHOOSE s \in Symbol : TRUE,
                id |-> CHOOSE i \in Id : TRUE, ts |-> 0, readCash |-> 0,
                read |-> [s \in Symbol |-> NoPosition],
                hits |-> {}, listed |-> {}, rows |-> [i \in Id |-> NoRow],
                marked |-> FALSE]

StartingCash == 10

Init ==
    /\ kill = FALSE
    /\ now = 0
    /\ queue = [i \in Id |-> NoRow]
    /\ book = [s \in Symbol |-> NoPosition]
    /\ cash = StartingCash
    /\ journal = [net |-> [s \in Symbol |-> 0], cash |-> 0, rows |-> 0]
    /\ approve = [p \in Approver |-> IdleApprove]
    /\ enqueue = [e \in Enqueuers |-> IdleEnqueue]
    /\ direct = [d \in DirectJob |-> IdleDirect]
    /\ offers = 0
    /\ fills = {}

-----------------------------------------------------------------------------
(* approve_approval.  The caller has read the kill switch and passes it in. *)
(* "expected" is the argument of that name; "reviewed" is history: what the *)
(* reviewer was shown, which no guard reads.                                *)

ApproveAt(p, pc) == approve' = [approve EXCEPT ![p].pc = pc]
ApproveEnds(p)   == approve' = [approve EXCEPT ![p] = IdleApprove]

\* The owner approves a card.  Web and CLI refuse while the switch is engaged
\* or unreadable, and name no analysis: any card under this id will do.
OwnerApproves(p, i) ==
    /\ approve[p].pc = "idle"
    /\ queue[i].status # "none"
    /\ ~kill
    /\ approve' = [approve EXCEPT ![p] =
           [IdleApprove EXCEPT !.pc = "entered", !.id = i, !.ts = now,
                               !.expected = Analysis, !.reviewed = Analysis]]
    /\ UNCHANGED <<kill, now, queue, ledger, enqueue, direct, history>>

\* run_auto_decide lists the pending cards, filters them (an idle flat with
\* nothing to close is left out) and takes one under review.
AutoReviews(p, i) ==
    /\ approve[p].pc = "idle"
    /\ ~kill
    /\ Pending(queue, i)
    /\ queue[i].expires > now
    /\ queue[i].analysis.action # "flat" \/ IsOpen(book[queue[i].analysis.symbol])
    /\ approve' = [approve EXCEPT ![p] =
           [IdleApprove EXCEPT !.pc = "reviewed", !.id = i, !.seen = queue[i],
                               !.reviewed = {queue[i].analysis}]]
    /\ UNCHANGED <<kill, now, queue, ledger, enqueue, direct, history>>

\* Mutated form of Named: the card is read again for its analysis.
NamedNow(p) == {queue[approve[p].id].analysis}

\* expected_analysis_id is the analysis of the row that was listed, however old
\* that row is when the verdict is applied.
Named(p) == {approve[p].seen.analysis}

\* flat_exit_needed, same_side_already_open: settled by rule, no second read.
RuleApplies(a) ==
    /\ IsOpen(book[a.symbol])
    /\ a.action \in {"flat", book[a.symbol].side}

AutoAppliesRule(p) ==
    /\ approve[p].pc = "reviewed"
    /\ RuleApplies(approve[p].seen.analysis)
    /\ ~kill
    /\ approve' = [approve EXCEPT ![p].pc = "entered", ![p].ts = now,
                                  ![p].expected = Named(p)]
    /\ UNCHANGED <<kill, now, queue, ledger, enqueue, direct, history>>

AutoPassesRules(p) ==
    /\ approve[p].pc = "reviewed"
    /\ ~RuleApplies(approve[p].seen.analysis)
    /\ ~kill
    /\ ApproveAt(p, "ruled")
    /\ UNCHANGED <<kill, now, queue, ledger, enqueue, direct, history>>

\* build_brief reads the position again; forced_defer_reason never asks for a
\* verdict while the other side is open.
AutoBriefs(p) ==
    LET a == approve[p].seen.analysis
    IN  /\ approve[p].pc = "ruled"
        /\ ~IsOpen(book[a.symbol]) \/ book[a.symbol].side = a.action
        /\ ApproveAt(p, "asked")
        /\ UNCHANGED <<kill, now, queue, ledger, enqueue, direct, history>>

\* The reviewer has answered.  The switch and the card are read again, and the
\* verdict is applied only to the very card that was reviewed.
AutoDecides(p) ==
    /\ approve[p].pc = "asked"
    /\ IF ~kill /\ queue[approve[p].id] = approve[p].seen
       THEN \E pc \in {"entered", "rejecting"} :
               approve' = [approve EXCEPT ![p].pc = pc, ![p].ts = now,
                                          ![p].expected = Named(p)]
       ELSE ApproveEnds(p)
    /\ UNCHANGED <<kill, now, queue, ledger, enqueue, direct, history>>

\* An engaged switch, a forced defer, a failing review or a verdict of defer
\* leaves the card alone.
AutoDefers(p) ==
    /\ approve[p].pc \in {"reviewed", "ruled", "asked"}
    /\ ApproveEnds(p)
    /\ UNCHANGED <<kill, now, queue, ledger, enqueue, direct, history>>

AutoRejects(p) ==
    /\ approve[p].pc = "rejecting"
    /\ queue' = Resolved(queue, approve[p].id, "rejected")
    /\ ApproveEnds(p)
    /\ UNCHANGED <<kill, now, ledger, enqueue, direct, history>>

\* get_approval: only a pending row goes further.
ApproveReads(p) ==
    /\ approve[p].pc = "entered"
    /\ IF Pending(queue, approve[p].id)
       THEN approve' = [approve EXCEPT ![p].pc = "checks",
                                       ![p].seen = queue[approve[p].id]]
       ELSE ApproveEnds(p)
    /\ UNCHANGED <<kill, now, queue, ledger, enqueue, direct, history>>

\* evaluate_from_db says force_flat; a critical verdict engages the switch,
\* unless Redis cannot be reached.
ApproveUnsafe(p) ==
    /\ approve[p].pc = "checks"
    /\ kill' \in {kill, TRUE}
    /\ ApproveEnds(p)
    /\ UNCHANGED <<now, queue, ledger, enqueue, direct, history>>

ApproveTooLate(p) ==
    /\ approve[p].pc = "checks"
    /\ approve[p].seen.expires <= approve[p].ts
    /\ queue' = Resolved(queue, approve[p].id, "timed_out")
    /\ ApproveEnds(p)
    /\ UNCHANGED <<kill, now, ledger, enqueue, direct, history>>

\* _risk_breach: equity, drawdown and stop distance are inputs here.  All but a
\* missing invalidation engage the switch before the row is marked failed.
ApproveRiskChecked(p) ==
    /\ approve[p].pc = "checks"
    /\ approve[p].seen.expires > approve[p].ts
    /\ \/ ApproveAt(p, "caps") /\ UNCHANGED kill
       \/ ApproveAt(p, "failing") /\ kill' \in {kill, TRUE}
    /\ UNCHANGED <<now, queue, ledger, enqueue, direct, history>>

\* check_portfolio_caps over the positions read now.  A flat signal and a
\* same-side hold are exempt; the caps on notional may refuse anything else.
AddsExposure(a) == a.action \in Sides /\ book[a.symbol].side # a.action

CapBreached(a) ==
    /\ AddsExposure(a)
    /\ Cardinality({s \in Symbol : IsOpen(book[s])} \cup {a.symbol}) > MaxOpen

ApproveCapChecked(p) ==
    /\ approve[p].pc = "caps"
    /\ \/ ~CapBreached(approve[p].seen.analysis) /\ ApproveAt(p, "commit")
       \/ AddsExposure(approve[p].seen.analysis) /\ ApproveAt(p, "failing")
    /\ UNCHANGED <<kill, now, queue, ledger, enqueue, direct, history>>

ApproveWithoutCandle(p) ==
    /\ approve[p].pc = "commit"
    /\ queue' = Resolved(queue, approve[p].id, "failed")
    /\ ApproveEnds(p)
    /\ UNCHANGED <<kill, now, ledger, enqueue, direct, history>>

\* One BEGIN IMMEDIATE transaction: claim the row, apply its signal to the
\* ledger as it stands, stamp the order ids.  What is applied is the claimed
\* row, which may be a later card than the one that was checked.
ApproveCommits(p) ==
    LET i == approve[p].id
        row == queue[i]
        s == row.analysis.symbol
        action == row.analysis.action
    IN  /\ approve[p].pc = "commit"
        /\ Claimable(queue, i, approve[p].ts, approve[p].expected)
        /\ queue' = WithStatus(queue, i, "approved")
        /\ book' = WrittenBack(book, book, s, action, row.offer)
        /\ cash' = CashAfter(cash, book[s], action)
        /\ journal' = Journaled(journal, book[s], s, action)
        /\ fills' = fills \cup
               {[id |-> i, offer |-> row.offer, reviewed |-> approve[p].reviewed,
                 analysis |-> row.analysis, opened |-> Opens(book[s], action)]}
        /\ ApproveEnds(p)
        /\ UNCHANGED <<kill, now, enqueue, direct, offers>>

\* apply_signal raises (missing invalidation, market impact, a failed upsert):
\* the transaction rolls back, claim included, and the row is marked failed.
ApproveRaises(p) ==
    /\ approve[p].pc = "commit"
    /\ Claimable(queue, approve[p].id, approve[p].ts, approve[p].expected)
    /\ ApproveAt(p, "failing")
    /\ UNCHANGED <<kill, now, queue, ledger, enqueue, direct, history>>

\* The claim matched no row; _claim_failure then looks at what became of it.
ApproveClaimLost(p) ==
    /\ approve[p].pc = "commit"
    /\ ~Claimable(queue, approve[p].id, approve[p].ts, approve[p].expected)
    /\ ApproveAt(p, "lost")
    /\ UNCHANGED <<kill, now, queue, ledger, enqueue, direct, history>>

ApproveReportsLoss(p) ==
    /\ approve[p].pc = "lost"
    /\ queue' = IF queue[approve[p].id].expires <= approve[p].ts
                THEN Resolved(queue, approve[p].id, "timed_out")
                ELSE queue
    /\ ApproveEnds(p)
    /\ UNCHANGED <<kill, now, ledger, enqueue, direct, history>>

ApproveFails(p) ==
    /\ approve[p].pc = "failing"
    /\ queue' = MarkedFailed(queue, approve[p].id)
    /\ ApproveEnds(p)
    /\ UNCHANGED <<kill, now, ledger, enqueue, direct, history>>

\* reject_approval is one statement; the expected card is not named.
OwnerRejects(i) ==
    /\ Pending(queue, i)
    /\ queue' = Resolved(queue, i, "rejected")
    /\ UNCHANGED <<kill, now, ledger, approve, enqueue, direct, history>>

-----------------------------------------------------------------------------
(* enqueue_approval and upsert_pending_approval.                           *)

EnqueueEnds(e) == enqueue' = [enqueue EXCEPT ![e] = IdleEnqueue]

\* Past the kill switch, the safety gate and the caps.  A flat signal with
\* nothing open and no card to overwrite is not enqueued.
EnqueueStarts(e, a) ==
    /\ enqueue[e].pc = "idle"
    /\ offers < MaxOffers
    /\ ~kill
    /\ ~CapBreached(a)
    /\ \/ a.action # "flat"
       \/ IsOpen(book[a.symbol])
       \/ PendingFor(queue, a) # {}
    /\ enqueue' = [enqueue EXCEPT ![e] =
           [pc |-> "select", analysis |-> a, target |-> {}, ts |-> now]]
    /\ UNCHANGED <<kill, now, queue, ledger, approve, direct, history>>

\* A critical safety verdict or a risk breach ends the run and engages the switch.
EnqueueBreaches(e) ==
    /\ enqueue[e].pc = "idle"
    /\ ~kill
    /\ kill' = TRUE
    /\ UNCHANGED <<now, queue, ledger, approve, enqueue, direct, history>>

\* SELECT the pending id of the pair.  {} stands for a fresh id.
UpsertSelects(e) ==
    /\ enqueue[e].pc = "select"
    /\ \E target \in SUBSET PendingFor(queue, enqueue[e].analysis) :
          /\ Cardinality(target) =
                IF PendingFor(queue, enqueue[e].analysis) = {} THEN 0 ELSE 1
          /\ enqueue' = [enqueue EXCEPT ![e].pc = "insert", ![e].target = target]
    /\ UNCHANGED <<kill, now, queue, ledger, approve, direct, history>>

Puts(e, i) ==
    /\ queue' = WithPending(queue, i, enqueue[e].analysis, enqueue[e].ts, offers + 1)
    /\ offers' = offers + 1
    /\ EnqueueEnds(e)

UpsertTargets(e) ==
    IF enqueue[e].target = {} THEN Vacant(queue) ELSE enqueue[e].target

UpsertInserts(e, i) ==
    /\ enqueue[e].pc = "insert"
    /\ i \in UpsertTargets(e)
    /\ ~IndexRefuses(queue, i, enqueue[e].analysis)
    /\ offers < MaxOffers
    /\ Puts(e, i)
    /\ UNCHANGED <<kill, now, ledger, approve, direct, fills>>

UpsertRefused(e, i) ==
    /\ enqueue[e].pc = "insert"
    /\ i \in UpsertTargets(e)
    /\ IndexRefuses(queue, i, enqueue[e].analysis)
    /\ enqueue' = [enqueue EXCEPT ![e].pc = "reselect"]
    /\ UNCHANGED <<kill, now, queue, ledger, approve, direct, history>>

\* After the IntegrityError the row that holds the pair is looked up; when it
\* is gone the error is raised again and the run ends.
UpsertReselects(e) ==
    /\ enqueue[e].pc = "reselect"
    /\ IF PendingFor(queue, enqueue[e].analysis) = {}
       THEN EnqueueEnds(e)
       ELSE \E i \in PendingFor(queue, enqueue[e].analysis) :
               enqueue' = [enqueue EXCEPT ![e].pc = "overwrite", ![e].target = {i}]
    /\ UNCHANGED <<kill, now, queue, ledger, approve, direct, history>>

UpsertOverwrites(e, i) ==
    /\ enqueue[e].pc = "overwrite"
    /\ i \in enqueue[e].target
    /\ ~IndexRefuses(queue, i, enqueue[e].analysis)
    /\ offers < MaxOffers
    /\ Puts(e, i)
    /\ UNCHANGED <<kill, now, ledger, approve, direct, fills>>

UpsertRaises(e, i) ==
    /\ enqueue[e].pc = "overwrite"
    /\ i \in enqueue[e].target
    /\ IndexRefuses(queue, i, enqueue[e].analysis)
    /\ EnqueueEnds(e)
    /\ UNCHANGED <<kill, now, queue, ledger, approve, direct, history>>

-----------------------------------------------------------------------------
(* The jobs that call apply_signal outside a transaction.  The SELECTs run  *)
(* before the first write takes the lock; the writes and the commit are one *)
(* step.  The two SELECTs of the positions (get_paper_position, then        *)
(* list_paper_positions) count as one.                                      *)

DirectAt(d, pc) == direct' = [direct EXCEPT ![d].pc = pc]
DirectEnds(d)   == direct' = [direct EXCEPT ![d] = IdleDirect]

\* The job goes on; what it had read is written and no longer looked at.
DirectWrote(d, pc) ==
    direct' = [direct EXCEPT ![d] = [@ EXCEPT !.pc = pc, !.read = IdleDirect.read,
                                              !.readCash = IdleDirect.readCash]]

AppliesCash(d) ==
    /\ direct[d].pc = "apply"
    /\ direct' = [direct EXCEPT ![d].pc = "apply_book", ![d].readCash = cash]
    /\ UNCHANGED <<kill, now, queue, ledger, approve, enqueue, history>>

AppliesBook(d) ==
    /\ direct[d].pc = "apply_book"
    /\ direct' = [direct EXCEPT ![d].pc = "apply_write", ![d].read = book]
    /\ UNCHANGED <<kill, now, queue, ledger, approve, enqueue, history>>

\* The exits these jobs make are all flat signals.
AppliesWrite(d) ==
    LET s == direct[d].symbol
        read == direct[d].read
    IN  /\ direct[d].pc = "apply_write"
        /\ book' = WrittenBack(book, read, s, "flat", 0)
        /\ cash' = CashAfter(direct[d].readCash, read[s], "flat")
        /\ journal' = Journaled(journal, read[s], s, "flat")
        /\ CASE d \in Monitors -> DirectWrote(d, "stops")
             [] d \in Expirers -> DirectWrote(d, "resolve")
             [] d \in Closers  -> DirectEnds(d)
        /\ UNCHANGED <<kill, now, queue, approve, enqueue, history>>

\* mark_to_market upserts the positions it read; the cash it read goes into the
\* equity snapshot only.  run_risk_monitor marks before and after the exits.
MarkReads(d) ==
    /\ direct[d].pc = IF direct[d].marked THEN "remark" ELSE "idle"
    /\ direct' = [direct EXCEPT ![d].pc = "mark_write", ![d].read = book]
    /\ UNCHANGED <<kill, now, queue, ledger, approve, enqueue, history>>

MarkWrites(d) ==
    /\ direct[d].pc = "mark_write"
    /\ book' = Remarked(book, direct[d].read)
    /\ direct' = [direct EXCEPT ![d] =
           [@ EXCEPT !.pc = IF direct[d].marked THEN "halt" ELSE "list", !.marked = TRUE,
                     !.read = IdleDirect.read]]
    /\ UNCHANGED <<kill, now, queue, cash, journal, approve, enqueue, history>>

\* run_stop_monitor lists the positions once and exits those whose stop is hit;
\* which are hit is the market's choice.
StopsListed(d) ==
    /\ direct[d].pc = "list"
    /\ \E hits \in SUBSET {s \in Symbol : IsOpen(book[s])} :
          /\ hits = {} \/ journal.rows < MaxOrders
          /\ direct' = [direct EXCEPT ![d].pc = "stops", ![d].hits = hits]
    /\ UNCHANGED <<kill, now, queue, ledger, approve, enqueue, history>>

StopHit(d, s) ==
    /\ direct[d].pc = "stops"
    /\ s \in direct[d].hits
    /\ direct' = [direct EXCEPT ![d].pc = "apply", ![d].symbol = s,
                                ![d].hits = @ \ {s}]
    /\ UNCHANGED <<kill, now, queue, ledger, approve, enqueue, history>>

StopsDone(d) ==
    /\ direct[d].pc = "stops"
    /\ direct[d].hits = {}
    /\ DirectAt(d, "remark")
    /\ UNCHANGED <<kill, now, queue, ledger, approve, enqueue, history>>

\* check_caps on the marked equity: a breach engages the switch (unless Redis is
\* down), and the pending cards are cancelled in a statement of its own.
HaltChecked(d) ==
    /\ direct[d].pc = "halt"
    /\ \/ DirectEnds(d) /\ UNCHANGED kill
       \/ DirectAt(d, "cancel") /\ kill' \in {kill, TRUE}
    /\ UNCHANGED <<now, queue, ledger, approve, enqueue, history>>

HaltCancels(d) ==
    /\ direct[d].pc = "cancel"
    /\ queue' = Cancelled(queue)
    /\ DirectEnds(d)
    /\ UNCHANGED <<kill, now, ledger, approve, enqueue, history>>

\* expire_approvals, which the job skips while the switch is engaged.
ExpiryLists(d) ==
    /\ direct[d].pc = "idle"
    /\ ~kill
    /\ Lapsed(queue, now) # {}
    /\ direct' = [direct EXCEPT ![d] =
           [IdleDirect EXCEPT !.pc = "expiring", !.ts = now,
                              !.listed = Lapsed(queue, now), !.rows = queue]]
    /\ UNCHANGED <<kill, now, queue, ledger, approve, enqueue, history>>

\* Nothing open: a no-op.  Same side: a hold.  Otherwise the position is to be
\* flattened, if the symbol has a candle.
ExpiryReads(d, i) ==
    LET a == direct[d].rows[i].analysis
        pos == book[a.symbol]
    IN  /\ direct[d].pc = "expiring"
        /\ i \in direct[d].listed
        /\ \E pc \in IF IsOpen(pos) /\ a.action # pos.side
                     THEN {"apply", "resolve"} ELSE {"resolve"} :
              direct' = [direct EXCEPT ![d] =
                              [@ EXCEPT !.pc = pc, !.id = i, !.symbol = a.symbol]]
        /\ UNCHANGED <<kill, now, queue, ledger, approve, enqueue, history>>

ExpiryResolves(d) ==
    /\ direct[d].pc = "resolve"
    /\ queue' = Resolved(queue, direct[d].id, "timed_out")
    /\ direct' = [direct EXCEPT ![d].pc = "expiring",
                                ![d].listed = @ \ {direct[d].id}]
    /\ UNCHANGED <<kill, now, ledger, approve, enqueue, history>>

ExpirySweeps(d) ==
    /\ direct[d].pc = "expiring"
    /\ direct[d].listed = {}
    /\ queue' = Expired(queue, direct[d].ts)
    /\ DirectEnds(d)
    /\ UNCHANGED <<kill, now, ledger, approve, enqueue, history>>

\* close_position, allowed while the switch is engaged.
OwnerCloses(d, s) ==
    /\ direct[d].pc = "idle"
    /\ IsOpen(book[s])
    /\ journal.rows < MaxOrders
    /\ direct' = [direct EXCEPT ![d] = [IdleDirect EXCEPT !.pc = "apply", !.symbol = s]]
    /\ UNCHANGED <<kill, now, queue, ledger, approve, enqueue, history>>

-----------------------------------------------------------------------------

OwnerTogglesKill ==
    /\ kill' = ~kill
    /\ UNCHANGED <<now, queue, ledger, approve, enqueue, direct, history>>

Tick ==
    /\ now < MaxNow
    /\ now' = now + 1
    /\ UNCHANGED <<kill, queue, ledger, approve, enqueue, direct, history>>

ApproveStep(p) ==
    \/ ApproveReads(p) \/ ApproveUnsafe(p) \/ ApproveTooLate(p)
    \/ ApproveRiskChecked(p) \/ ApproveCapChecked(p) \/ ApproveWithoutCandle(p)
    \/ ApproveCommits(p) \/ ApproveRaises(p) \/ ApproveClaimLost(p)
    \/ ApproveReportsLoss(p) \/ ApproveFails(p)

AutoStep(p) ==
    \/ \E i \in Id : AutoReviews(p, i)
    \/ AutoAppliesRule(p) \/ AutoPassesRules(p) \/ AutoBriefs(p)
    \/ AutoDecides(p) \/ AutoDefers(p) \/ AutoRejects(p)

EnqueueStep(e) ==
    \/ \E a \in Analysis : EnqueueStarts(e, a)
    \/ EnqueueBreaches(e)
    \/ UpsertSelects(e) \/ UpsertReselects(e)
    \/ \E i \in Id : \/ UpsertInserts(e, i) \/ UpsertRefused(e, i)
                     \/ UpsertOverwrites(e, i) \/ UpsertRaises(e, i)

ApplyStep(d) == AppliesCash(d) \/ AppliesBook(d) \/ AppliesWrite(d)

MonitorStep(d) ==
    \/ MarkReads(d) \/ MarkWrites(d) \/ StopsListed(d) \/ StopsDone(d)
    \/ \E s \in Symbol : StopHit(d, s)
    \/ HaltChecked(d) \/ HaltCancels(d)

ExpiryStep(d) ==
    \/ ExpiryLists(d) \/ ExpiryResolves(d) \/ ExpirySweeps(d)
    \/ \E i \in Id : ExpiryReads(d, i)

Next ==
    \/ \E p \in Owners, i \in Id : OwnerApproves(p, i)
    \/ \E p \in Autos : AutoStep(p)
    \/ \E p \in Approver : ApproveStep(p)
    \/ \E i \in Id : OwnerRejects(i)
    \/ \E e \in Enqueuers : EnqueueStep(e)
    \/ \E d \in DirectJob : ApplyStep(d)
    \/ \E d \in Monitors : MonitorStep(d)
    \/ \E d \in Expirers : ExpiryStep(d)
    \/ \E d \in Closers, s \in Symbol : OwnerCloses(d, s)
    \/ OwnerTogglesKill
    \/ Tick

Spec == Init /\ [][Next]_vars

\* The scheduler (n8n) keeps calling the expiry job and the job runs to its end.
FairSpec ==
    /\ Spec
    /\ WF_now(Tick)
    /\ \A d \in Expirers : WF_vars(ApplyStep(d)) /\ SF_vars(ExpiryStep(d))
=============================================================================
