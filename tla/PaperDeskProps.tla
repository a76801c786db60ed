--------------------------- MODULE PaperDeskProps ---------------------------
(***************************************************************************)
(* What the paper desk must and must not do.                               *)
(***************************************************************************)
EXTENDS PaperDesk

Fills == [id : Id, offer : Nat, reviewed : SUBSET Analysis,
          analysis : Analysis, opened : BOOLEAN]

ApproveState == [pc : {"idle", "reviewed", "ruled", "asked", "rejecting",
                       "entered", "checks", "caps", "commit", "lost", "failing"},
                 id : Id, ts : Nat, seen : Row,
                 expected : SUBSET Analysis, reviewed : SUBSET Analysis]
EnqueueState == [pc : {"idle", "select", "insert", "reselect", "overwrite"},
                 analysis : Analysis, target : SUBSET Id, ts : Nat]
DirectState  == [pc : {"idle", "mark_write", "list", "stops", "remark", "halt",
                       "cancel", "expiring", "resolve", "apply", "apply_book",
                       "apply_write"},
                 symbol : Symbol, id : Id, ts : Nat, readCash : Int, read : Book,
                 hits : SUBSET Symbol, listed : SUBSET Id, rows : Queue,
                 marked : BOOLEAN]

\* Every table and every process holds values of its type.
TypeOK ==
    /\ kill \in BOOLEAN
    /\ now \in Nat
    /\ queue \in Queue
    /\ book \in Book
    /\ cash \in Int
    /\ journal \in Journal
    /\ approve \in [Approver -> ApproveState]
    /\ enqueue \in [Enqueuers -> EnqueueState]
    /\ direct \in [DirectJob -> DirectState]
    /\ offers \in Nat
    /\ fills \subseteq Fills

\* The position book and the cash are what the order journal nets to.
\* Approve fills claim, orders, positions and cash in one BEGIN IMMEDIATE
\* transaction (approval.py:403), and the book that metrics, caps and exits read
\* is meant to be that journal's sum.
BookMatchesJournal ==
    /\ \A s \in Symbol : Signed(book[s].side) = journal.net[s]
    /\ cash = StartingCash + journal.cash

\* An open position is the work of one claimed card of the same symbol and side,
\* named by its approval stamp: what outcome attribution relies on.
PositionsTraceToFills ==
    \A s \in Symbol : IsOpen(book[s]) =>
        \E f \in fills : /\ f.offer = book[s].opened
                         /\ f.opened
                         /\ f.analysis.symbol = s
                         /\ f.analysis.action = book[s].side

\* The auto path fills exactly the analysis that was put before it when the
\* review began, although the card can be filled, overwritten and made pending
\* anew at any point between that and the claim: what is named to the claim
\* (auto_decide.py:404, 513) and what the claim then demands of the row
\* (db.py:2551) have to fit together, and a rule is applied without a second look.
AutoFillsReviewed ==
    \A f \in fills : f.analysis \in f.reviewed

\* An approval id opens at most one position.
ApprovalFillsOnce ==
    \A f, g \in fills : f.id = g.id /\ f.opened /\ g.opened => f = g

\* The pending cards of the desk, as the abstract decision book sees them.
CardsOnTable == {queue[i].offer : i \in {j \in Id : Pending(queue, j)}}
CardsFilled  == {f.offer : f \in fills}

Decisions == INSTANCE DecisionBook WITH
    put <- offers, onTable <- CardsOnTable, filled <- CardsFilled

\* Every card meets at most one end, through every interleaving of approvers,
\* auto review, re-enqueues, rejects, expiry and the halt.
CardsDecidedOnce == Decisions!Spec

\* A card that has passed its deadline does not stay pending for ever, provided
\* the kill switch is off again and again (the expiry job is skipped while it is
\* engaged).
LapsedCardsResolved ==
    []<>(~kill) =>
        \A i \in Id :
            (Pending(queue, i) /\ queue[i].expires <= now)
                ~> ~(Pending(queue, i) /\ queue[i].expires <= now)
=============================================================================
