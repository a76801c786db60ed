---------------------------- MODULE ApprovalQueue ----------------------------
(***************************************************************************)
(* The approval_queue table (src/jarvise_ingest/db.py): each operator is   *)
(* one SQL statement, as a function of the table it finds.  The statements *)
(* are atomic (SQLite serialises writers); what is not atomic is the code  *)
(* between them, which module PaperDesk models.                            *)
(***************************************************************************)
EXTENDS Integers, FiniteSets

CONSTANTS
    Id,         \* approval ids (content hashes: never handed out twice)
    Analysis,   \* the analyses that can be enqueued: [symbol, timeframe, action]
    TTL         \* approval_timeout_ms, in clock ticks

ASSUME TTLAssumption == TTL \in Nat \ {0}

Status == {"none", "pending", "approved", "rejected", "timed_out", "failed"}

\* "none" is an id no row carries yet.  "offer" numbers the writes that made a
\* row pending: it tells a card from the card that later replaced it.
Row == [status : Status, analysis : Analysis, expires : Nat, offer : Nat]
Queue == [Id -> Row]

VacantRow == [status |-> "none", analysis |-> CHOOSE a \in Analysis : TRUE,
              expires |-> 0, offer |-> 0]

Pair(a) == <<a.symbol, a.timeframe>>

Pending(q, i) == q[i].status = "pending"
PendingFor(q, a) == {i \in Id : Pending(q, i) /\ Pair(q[i].analysis) = Pair(a)}
Vacant(q) == {i \in Id : q[i].status = "none"}

\* The unique index on (symbol, timeframe) over pending rows: making row i
\* pending for analysis a is refused while another row holds the pair.
IndexRefuses(q, i, a) == PendingFor(q, a) \ {i} # {}

\* Mutated form of WithPending: the timeout is subtracted from the clock.
WithPendingBackdated(q, i, a, ts, n) ==
    [q EXCEPT ![i] = [status |-> "pending", analysis |-> a,
                      expires |-> ts - TTL, offer |-> n]]

\* INSERT .. ON CONFLICT(id) DO UPDATE, and the UPDATE by id that follows an
\* IntegrityError: whatever state the row is in, it becomes pending.
WithPending(q, i, a, ts, n) ==
    [q EXCEPT ![i] = [status |-> "pending", analysis |-> a,
                      expires |-> ts + TTL, offer |-> n]]

\* Mutated form of Claimable: without the status guard.
ClaimableAnyStatus(q, i, ts, expected) ==
    q[i].expires > ts /\ q[i].analysis \in expected

\* claim_approval_for_fill: the WHERE clause, and the row it leaves.  The auto
\* path names the analysis it was shown, the owner's path any analysis.
Claimable(q, i, ts, expected) ==
    /\ Pending(q, i)
    /\ q[i].expires > ts
    /\ q[i].analysis \in expected

WithStatus(q, i, status) == [q EXCEPT ![i].status = status]

\* resolve_approval touches a pending row only.
Resolved(q, i, status) == IF Pending(q, i) THEN WithStatus(q, i, status) ELSE q

\* mark_approval_failed has no status in its WHERE clause.
MarkedFailed(q, i) == WithStatus(q, i, "failed")

\* Mutated form of Lapsed: a card whose deadline is now has not lapsed yet.
LapsedStrictly(q, ts) == {i \in Id : Pending(q, i) /\ q[i].expires < ts}

\* list_expired_pending_approvals, expire_pending_approvals and
\* cancel_pending_approvals.
Lapsed(q, ts) == {i \in Id : Pending(q, i) /\ q[i].expires <= ts}
Swept(q, rows, status) ==
    [i \in Id |-> IF i \in rows THEN [q[i] EXCEPT !.status = status] ELSE q[i]]
Expired(q, ts) == Swept(q, Lapsed(q, ts), "timed_out")
Cancelled(q)   == Swept(q, {i \in Id : Pending(q, i)}, "rejected")
=============================================================================
