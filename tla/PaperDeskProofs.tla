--------------------------- MODULE PaperDeskProofs ---------------------------
(***************************************************************************)
(* Theorems about the paper desk, for every set of processes, symbols,     *)
(* analyses and ids, and then about the rules that it goes by.             *)
(***************************************************************************)
EXTENDS PaperDeskProps, AnalysisRules, Feedback, TLAPS

-----------------------------------------------------------------------------
(* The ledger's arithmetic.                                                *)

\* A signal applied to a position leaves a position.
LEMMA AfterType ==
    ASSUME NEW pos \in Position, NEW action \in Actions, NEW n \in Nat
    PROVE  After(pos, action, n) \in Position
BY DEF After, Position, NoPosition, Opens, Closes, IsOpen, Actions, Sides

\* The legs of one call are a whole quantity, and what the position's signed
\* quantity moves by.
LEMMA DeltaType ==
    ASSUME NEW pos \in Position, NEW action \in Actions
    PROVE  /\ NetDelta(pos, action) \in Int
           /\ LegCount(pos, action) \in Nat
           /\ Signed(pos.side) \in Int
BY DEF NetDelta, LegCount, Signed, Position, Opens, Closes, IsOpen, Actions, Sides

LEMMA DeltaIsMove ==
    ASSUME NEW pos \in Position, NEW action \in Actions, NEW n \in Nat
    PROVE  Signed(After(pos, action, n).side) = Signed(pos.side) + NetDelta(pos, action)
BY DEF NetDelta, After, Signed, Position, NoPosition, Opens, Closes, IsOpen,
       Actions, Sides

\* Writing a copy of the book back gives a book.
LEMMA WrittenBackType ==
    ASSUME NEW b \in Book, NEW read \in Book, NEW s \in Symbol,
           NEW action \in Actions, NEW n \in Nat
    PROVE  WrittenBack(b, read, s, action, n) \in Book
BY AfterType DEF WrittenBack, Book

LEMMA JournaledType ==
    ASSUME NEW j \in Journal, NEW pos \in Position, NEW s \in Symbol,
           NEW action \in Actions
    PROVE  Journaled(j, pos, s, action) \in Journal
BY DeltaType DEF Journaled, Journal

LEMMA CashAfterType ==
    ASSUME NEW c \in Int, NEW pos \in Position, NEW action \in Actions
    PROVE  /\ CashAfter(c, pos, action) \in Int
           /\ CashAfter(c, pos, action) = c - NetDelta(pos, action)
BY DeltaType DEF CashAfter

-----------------------------------------------------------------------------
(* Type correctness.                                                       *)

LEMMA NoRowType == NoRow \in Row
BY AnalysisAssumption DEF NoRow, VacantRow, Row, Status

LEMMA IdleTypes ==
    /\ IdleApprove \in ApproveState
    /\ IdleEnqueue \in EnqueueState
    /\ IdleDirect \in DirectState
    /\ [s \in Symbol |-> NoPosition] \in Book
    /\ [i \in Id |-> NoRow] \in Queue
<1>1. PICK a \in Analysis : a.symbol \in Symbol
  BY AnalysisAssumption
<1>2. (CHOOSE s \in Symbol : TRUE) \in Symbol
  BY <1>1
<1>3. (CHOOSE i \in Id : TRUE) \in Id
  BY IdAssumption
<1>4. [s \in Symbol |-> NoPosition] \in Book
  BY DEF NoPosition, Position, Sides, Book
<1>5. [i \in Id |-> NoRow] \in Queue
  BY NoRowType DEF Queue
<1>6. IdleApprove \in ApproveState
  BY <1>3, NoRowType DEF IdleApprove, ApproveState
<1>7. IdleEnqueue \in EnqueueState
  BY NoRowType DEF IdleEnqueue, EnqueueState, Row
<1>8. IdleDirect \in DirectState
  BY <1>2, <1>3, <1>4, <1>5 DEF IdleDirect, DirectState
<1> QED
  BY <1>4, <1>5, <1>6, <1>7, <1>8

LEMMA InitType == Init => TypeOK
<1> SUFFICES ASSUME Init PROVE TypeOK
  OBVIOUS
<1>1. journal \in Journal
  BY DEF Init, Journal
<1>2. queue \in Queue /\ book \in Book
  BY IdleTypes, Zenon DEF Init
<1>3. approve \in [Approver -> ApproveState]
  BY IdleTypes DEF Init
<1>4. enqueue \in [Enqueuers -> EnqueueState]
  BY IdleTypes DEF Init
<1>5. direct \in [DirectJob -> DirectState]
  BY IdleTypes DEF Init
<1>6. kill \in BOOLEAN
  BY Zenon DEF Init
<1>7. now \in Nat /\ cash \in Int /\ offers \in Nat /\ fills \subseteq Fills
  BY DEF Init, StartingCash
<1> QED
  BY <1>1, <1>2, <1>3, <1>4, <1>5, <1>6, <1>7, Zenon DEF TypeOK

LEMMA SweptType ==
    ASSUME NEW q \in Queue, NEW rows, NEW st \in Status
    PROVE  Swept(q, rows, st) \in Queue
BY DEF Swept, Queue, Row

LEMMA QueueTypes ==
    ASSUME NEW q \in Queue, NEW i \in Id, NEW st \in Status
    PROVE  /\ WithStatus(q, i, st) \in Queue
           /\ Resolved(q, i, st) \in Queue
BY DEF WithStatus, Resolved, Queue, Row

LEMMA PutType ==
    ASSUME NEW q \in Queue, NEW i \in Id, NEW a \in Analysis,
           NEW ts \in Nat, NEW n \in Nat
    PROVE  WithPending(q, i, a, ts, n) \in Queue
BY TTLAssumption DEF WithPending, Queue, Row, Status

\* Changes of one process's state keep the type of the whole.
LEMMA ApproveEndsType ==
    ASSUME TypeOK, NEW p \in Approver, ApproveEnds(p)
    PROVE  approve' \in [Approver -> ApproveState]
BY IdleTypes DEF TypeOK, ApproveEnds

LEMMA ApproveAtType ==
    ASSUME TypeOK, NEW p \in Approver, NEW pc, ApproveAt(p, pc),
           pc \in {"idle", "reviewed", "ruled", "asked", "rejecting", "entered",
                   "checks", "caps", "commit", "lost", "failing"}
    PROVE  approve' \in [Approver -> ApproveState]
BY DEF TypeOK, ApproveAt, ApproveState

LEMMA ApproveMovesType ==
    ASSUME TypeOK, NEW p \in Approver, NEW pc,
           pc \in {"entered", "rejecting"},
           approve' = [approve EXCEPT ![p].pc = pc, ![p].ts = now, ![p].expected = Named(p)]
    PROVE  approve' \in [Approver -> ApproveState]
<1>1. approve \in [Approver -> ApproveState] /\ now \in Nat BY DEF TypeOK
<1>2. approve[p] \in ApproveState BY <1>1
<1>3. Named(p) \in SUBSET Analysis BY <1>2 DEF Named, ApproveState, Row
<1>4. [approve[p] EXCEPT !.pc = pc, !.ts = now, !.expected = Named(p)] \in ApproveState
  BY <1>1, <1>2, <1>3 DEF ApproveState
<1> QED BY <1>1, <1>4

LEMMA DirectEndsType ==
    ASSUME TypeOK, NEW d \in DirectJob, DirectEnds(d)
    PROVE  direct' \in [DirectJob -> DirectState]
BY IdleTypes DEF TypeOK, DirectEnds

LEMMA DirectAtType ==
    ASSUME TypeOK, NEW d \in DirectJob, NEW pc, DirectAt(d, pc),
           pc \in {"idle", "mark_write", "list", "stops", "remark", "halt",
                   "cancel", "expiring", "resolve", "apply", "apply_book",
                   "apply_write"}
    PROVE  direct' \in [DirectJob -> DirectState]
BY DEF TypeOK, DirectAt, DirectState

LEMMA DirectWroteType ==
    ASSUME TypeOK, NEW d \in DirectJob, NEW pc \in {"stops", "resolve"}, DirectWrote(d, pc)
    PROVE  direct' \in [DirectJob -> DirectState]
<1>1. direct \in [DirectJob -> DirectState] BY DEF TypeOK
<1>2. direct[d] \in DirectState BY <1>1
<1>3. IdleDirect.read \in Book /\ IdleDirect.readCash \in Int
  BY IdleTypes DEF DirectState
<1>4. [direct[d] EXCEPT !.pc = pc, !.read = IdleDirect.read,
                        !.readCash = IdleDirect.readCash] \in DirectState
  BY <1>2, <1>3 DEF DirectState
<1> QED BY <1>1, <1>4 DEF DirectWrote

LEMMA DirectCopiesType ==
    ASSUME NEW f \in [DirectJob -> DirectState], NEW d \in DirectJob,
           NEW pc \in {"mark_write", "apply_write"}, NEW b \in Book
    PROVE  [f EXCEPT ![d].pc = pc, ![d].read = b] \in [DirectJob -> DirectState]
<1>1. f[d] \in DirectState OBVIOUS
<1>2. [f[d] EXCEPT !.pc = pc, !.read = b] \in DirectState
  BY <1>1 DEF DirectState
<1> QED BY <1>1, <1>2

LEMMA DirectCashType ==
    ASSUME NEW f \in [DirectJob -> DirectState], NEW d \in DirectJob, NEW c \in Int
    PROVE  [f EXCEPT ![d].pc = "apply_book", ![d].readCash = c]
               \in [DirectJob -> DirectState]
<1>1. f[d] \in DirectState OBVIOUS
<1>2. [f[d] EXCEPT !.pc = "apply_book", !.readCash = c] \in DirectState
  BY <1>1 DEF DirectState
<1> QED BY <1>1, <1>2

LEMMA DirectHitsType ==
    ASSUME NEW f \in [DirectJob -> DirectState], NEW d \in DirectJob,
           NEW hits \in SUBSET Symbol
    PROVE  [f EXCEPT ![d].pc = "stops", ![d].hits = hits] \in [DirectJob -> DirectState]
<1>1. f[d] \in DirectState OBVIOUS
<1>2. [f[d] EXCEPT !.pc = "stops", !.hits = hits] \in DirectState
  BY <1>1 DEF DirectState
<1> QED BY <1>1, <1>2

LEMMA DirectTargetType ==
    ASSUME NEW f \in [DirectJob -> DirectState], NEW d \in DirectJob,
           NEW pc \in {"apply", "resolve"}, NEW i \in Id, NEW s \in Symbol
    PROVE  [f EXCEPT ![d] = [@ EXCEPT !.pc = pc, !.id = i, !.symbol = s]]
               \in [DirectJob -> DirectState]
<1>1. f[d] \in DirectState OBVIOUS
<1>2. [f[d] EXCEPT !.pc = pc, !.id = i, !.symbol = s] \in DirectState
  BY <1>1 DEF DirectState
<1> QED BY <1>1, <1>2

LEMMA ApproveStepType ==
    ASSUME TypeOK, NEW p \in Approver, ApproveStep(p)
    PROVE  TypeOK'
<1> USE DEF ledger, history
<1>1. CASE ApproveReads(p)
  <2>1. approve' \in [Approver -> ApproveState]
    <3>1. CASE ApproveEnds(p) BY <3>1, ApproveEndsType
    <3>2. CASE ~ApproveEnds(p)
      <4>1. approve[p] \in ApproveState BY DEF TypeOK
      <4>2. queue[approve[p].id] \in Row BY <4>1 DEF TypeOK, ApproveState, Queue
      <4>3. [approve[p] EXCEPT !.pc = "checks", !.seen = queue[approve[p].id]] \in ApproveState
        BY <4>1, <4>2 DEF ApproveState
      <4> QED BY <1>1, <3>2, <4>3 DEF ApproveReads, TypeOK
    <3> QED BY <3>1, <3>2
  <2> QED
    BY <1>1, <2>1 DEF ApproveReads, TypeOK
<1>2. CASE ApproveUnsafe(p)
  BY <1>2, ApproveEndsType DEF ApproveUnsafe, TypeOK
<1>3. CASE ApproveTooLate(p)
  BY <1>3, ApproveEndsType, QueueTypes DEF ApproveTooLate, TypeOK, ApproveState, Status
<1>4. CASE ApproveRiskChecked(p)
  BY <1>4, ApproveAtType DEF ApproveRiskChecked, TypeOK
<1>5. CASE ApproveCapChecked(p)
  BY <1>5, ApproveAtType DEF ApproveCapChecked, TypeOK
<1>6. CASE ApproveWithoutCandle(p)
  BY <1>6, ApproveEndsType, QueueTypes DEF ApproveWithoutCandle, TypeOK, ApproveState, Status
<1>7. CASE ApproveCommits(p)
  <2> DEFINE i == approve[p].id
             row == queue[i]
             s == row.analysis.symbol
             action == row.analysis.action
  <2>1. approve[p] \in ApproveState /\ i \in Id
    BY DEF TypeOK, ApproveState
  <2>2. row \in Row
    BY <2>1 DEF TypeOK, Queue
  <2>3. row.analysis \in Analysis /\ row.offer \in Nat
    BY <2>2 DEF Row
  <2>4. s \in Symbol /\ action \in Actions
    BY <2>3, AnalysisAssumption
  <2>5. book[s] \in Position
    BY <2>4 DEF TypeOK, Book
  <2>6. queue' \in Queue
    BY <1>7, <2>1, QueueTypes DEF ApproveCommits, TypeOK, Status
  <2>0. /\ book' = WrittenBack(book, book, s, action, row.offer)
        /\ cash' = CashAfter(cash, book[s], action)
        /\ journal' = Journaled(journal, book[s], s, action)
    BY <1>7 DEF ApproveCommits
  <2>00. book \in Book /\ cash \in Int /\ journal \in Journal
    BY DEF TypeOK
  <2> HIDE DEF row, s, action
  <2>7. book' \in Book
    BY <2>0, <2>00, <2>3, <2>4, WrittenBackType
  <2>8. journal' \in Journal
    BY <2>0, <2>00, <2>4, <2>5, JournaledType
  <2>9. cash' \in Int
    BY <2>0, <2>00, <2>4, <2>5, CashAfterType
  <2> USE DEF row, s, action
  <2>10. fills' \subseteq Fills
    <3>1. Opens(book[s], action) \in BOOLEAN
      BY DEF Opens
    <3>2. [id |-> i, offer |-> row.offer, reviewed |-> approve[p].reviewed,
           analysis |-> row.analysis, opened |-> Opens(book[s], action)] \in Fills
      BY <2>1, <2>3, <3>1 DEF Fills, ApproveState
    <3> QED
      BY <1>7, <3>2 DEF ApproveCommits, TypeOK
  <2>11. approve' \in [Approver -> ApproveState]
    BY <1>7, ApproveEndsType DEF ApproveCommits
  <2> QED
    BY <1>7, <2>6, <2>7, <2>8, <2>9, <2>10, <2>11 DEF ApproveCommits, TypeOK
<1>8. CASE ApproveRaises(p)
  BY <1>8, ApproveAtType DEF ApproveRaises, TypeOK
<1>9. CASE ApproveClaimLost(p)
  BY <1>9, ApproveAtType DEF ApproveClaimLost, TypeOK
<1>10. CASE ApproveReportsLoss(p)
  BY <1>10, ApproveEndsType, QueueTypes DEF ApproveReportsLoss, TypeOK, ApproveState, Status
<1>11. CASE ApproveFails(p)
  BY <1>11, ApproveEndsType, QueueTypes DEF ApproveFails, TypeOK, ApproveState, Status, MarkedFailed
<1> QED
  BY <1>1, <1>2, <1>3, <1>4, <1>5, <1>6, <1>7, <1>8, <1>9, <1>10, <1>11
     DEF ApproveStep

LEMMA AutoStepType ==
    ASSUME TypeOK, NEW p \in Autos, AutoStep(p)
    PROVE  TypeOK'
<1> USE DEF ledger, history
<1> p \in Approver
  BY DEF Approver
<1>1. ASSUME NEW i \in Id, AutoReviews(p, i) PROVE TypeOK'
  <2>1. queue[i] \in Row /\ queue[i].analysis \in Analysis
    BY DEF TypeOK, Queue, Row
  <2>2. approve' \in [Approver -> ApproveState]
    BY <1>1, <2>1, IdleTypes DEF AutoReviews, TypeOK, ApproveState
  <2> QED
    BY <1>1, <2>2 DEF AutoReviews, TypeOK
<1>2. CASE AutoAppliesRule(p)
  BY <1>2, ApproveMovesType DEF AutoAppliesRule, TypeOK
<1>3. CASE AutoDecides(p)
  <2>1. approve' \in [Approver -> ApproveState]
    <3>1. CASE ApproveEnds(p)
      BY <3>1, ApproveEndsType
    <3>2. CASE \E pc \in {"entered", "rejecting"} :
                  approve' = [approve EXCEPT ![p].pc = pc, ![p].ts = now,
                                             ![p].expected = Named(p)]
      <4>1. PICK pc \in {"entered", "rejecting"} :
                   approve' = [approve EXCEPT ![p].pc = pc, ![p].ts = now,
                                             ![p].expected = Named(p)]
        BY <3>2
      <4> QED
        BY <4>1, ApproveMovesType
    <3> QED
      BY <1>3, <3>1, <3>2 DEF AutoDecides
  <2> QED
    BY <1>3, <2>1 DEF AutoDecides, TypeOK
<1>4. CASE AutoDefers(p)
  BY <1>4, ApproveEndsType DEF AutoDefers, TypeOK
<1>6. CASE AutoPassesRules(p) \/ AutoBriefs(p)
  BY <1>6, ApproveAtType DEF AutoPassesRules, AutoBriefs, TypeOK
<1>5. CASE AutoRejects(p)
  BY <1>5, ApproveEndsType, QueueTypes DEF AutoRejects, TypeOK, ApproveState, Status
<1> QED
  BY <1>1, <1>2, <1>3, <1>4, <1>5, <1>6 DEF AutoStep

LEMMA EnqueueStepType ==
    ASSUME TypeOK, NEW e \in Enqueuers, EnqueueStep(e)
    PROVE  TypeOK'
<1> USE DEF ledger, history
<1>0. enqueue[e] \in EnqueueState
  BY DEF TypeOK
<1>1. ASSUME NEW a \in Analysis, EnqueueStarts(e, a) PROVE TypeOK'
  BY <1>1 DEF EnqueueStarts, TypeOK, EnqueueState
<1>2. CASE EnqueueBreaches(e)
  BY <1>2 DEF EnqueueBreaches, TypeOK
<1>3. CASE UpsertSelects(e)
  <2>1. enqueue' \in [Enqueuers -> EnqueueState]
    <3>1. PICK target \in SUBSET PendingFor(queue, enqueue[e].analysis) :
                 enqueue' = [enqueue EXCEPT ![e].pc = "insert", ![e].target = target]
      BY <1>3 DEF UpsertSelects
    <3>2. target \in SUBSET Id
      BY DEF PendingFor
    <3>3. enqueue \in [Enqueuers -> EnqueueState]
      BY DEF TypeOK
    <3>4. [enqueue[e] EXCEPT !.pc = "insert", !.target = target] \in EnqueueState
      BY <1>0, <3>2 DEF EnqueueState
    <3> QED BY <3>1, <3>3, <3>4
  <2> QED
    BY <1>3, <2>1 DEF UpsertSelects, TypeOK
<1>4. CASE UpsertReselects(e)
  <2>1. enqueue' \in [Enqueuers -> EnqueueState]
    BY <1>4, IdleTypes DEF UpsertReselects, TypeOK, EnqueueState, PendingFor, EnqueueEnds
  <2> QED
    BY <1>4, <2>1 DEF UpsertReselects, TypeOK
<1>5. ASSUME NEW i \in Id, Puts(e, i)
      PROVE  /\ queue' \in Queue
             /\ offers' \in Nat
             /\ enqueue' \in [Enqueuers -> EnqueueState]
  <2>1. enqueue[e].analysis \in Analysis /\ enqueue[e].ts \in Nat /\ offers + 1 \in Nat
    BY <1>0 DEF EnqueueState, TypeOK
  <2> QED
    BY <1>5, <2>1, PutType, IdleTypes DEF Puts, TypeOK, EnqueueEnds
<1>6. ASSUME NEW i \in Id, UpsertInserts(e, i) PROVE TypeOK'
  BY <1>5, <1>6 DEF UpsertInserts, TypeOK
<1>7. ASSUME NEW i \in Id, UpsertOverwrites(e, i) PROVE TypeOK'
  BY <1>5, <1>7 DEF UpsertOverwrites, TypeOK
<1>8. ASSUME NEW i \in Id, UpsertRefused(e, i) PROVE TypeOK'
  BY <1>8 DEF UpsertRefused, TypeOK, EnqueueState
<1>9. ASSUME NEW i \in Id, UpsertRaises(e, i) PROVE TypeOK'
  BY <1>9, IdleTypes DEF UpsertRaises, TypeOK, EnqueueEnds
<1> QED
  BY <1>1, <1>2, <1>3, <1>4, <1>6, <1>7, <1>8, <1>9 DEF EnqueueStep

LEMMA ApplyStepType ==
    ASSUME TypeOK, NEW d \in DirectJob, ApplyStep(d)
    PROVE  TypeOK'
<1> USE DEF ledger, history
<1>0. direct[d] \in DirectState
  BY DEF TypeOK
<1>1. CASE AppliesCash(d)
  <2>1. direct' \in [DirectJob -> DirectState]
    BY <1>1, DirectCashType DEF AppliesCash, TypeOK
  <2> QED
    BY <1>1, <2>1 DEF AppliesCash, TypeOK
<1>2. CASE AppliesBook(d)
  <2>1. direct' \in [DirectJob -> DirectState]
    BY <1>2, DirectCopiesType DEF AppliesBook, TypeOK
  <2> QED
    BY <1>2, <2>1 DEF AppliesBook, TypeOK
<1>3. CASE AppliesWrite(d)
  <2> DEFINE s == direct[d].symbol
             read == direct[d].read
  <2>1. s \in Symbol /\ read \in Book /\ direct[d].readCash \in Int
    BY <1>0 DEF DirectState
  <2>2. read[s] \in Position /\ "flat" \in Actions
    BY <2>1 DEF Book, Actions
  <2>3. book' \in Book
    BY <1>3, <2>1, <2>2, WrittenBackType DEF AppliesWrite, TypeOK
  <2>4. journal' \in Journal
    BY <1>3, <2>1, <2>2, JournaledType DEF AppliesWrite, TypeOK
  <2>5. cash' \in Int
    BY <1>3, <2>1, <2>2, CashAfterType DEF AppliesWrite
  <2>6. direct' \in [DirectJob -> DirectState]
    <3>1. DirectWrote(d, "stops") \/ DirectWrote(d, "resolve") \/ DirectEnds(d)
      BY <1>3 DEF AppliesWrite, DirectJob
    <3> QED
      BY <3>1, DirectWroteType, DirectEndsType
  <2> QED
    BY <1>3, <2>3, <2>4, <2>5, <2>6 DEF AppliesWrite, TypeOK
<1> QED
  BY <1>1, <1>2, <1>3 DEF ApplyStep

LEMMA MonitorStepType ==
    ASSUME TypeOK, NEW d \in Monitors, MonitorStep(d)
    PROVE  TypeOK'
<1> USE DEF ledger, history
<1> d \in DirectJob
  BY DEF DirectJob
<1>0. direct[d] \in DirectState
  BY DEF TypeOK
<1>1. CASE MarkReads(d)
  <2>1. direct' \in [DirectJob -> DirectState]
    BY <1>1, DirectCopiesType DEF MarkReads, TypeOK
  <2> QED
    BY <1>1, <2>1 DEF MarkReads, TypeOK
<1>2. CASE MarkWrites(d)
  <2>1. book' \in Book
    BY <1>0, <1>2 DEF MarkWrites, TypeOK, DirectState, Book, Remarked
  <2>2. direct' \in [DirectJob -> DirectState]
    <3>1. IdleDirect.read \in Book
      BY IdleTypes DEF DirectState
    <3>2. [direct[d] EXCEPT !.pc = IF direct[d].marked THEN "halt" ELSE "list",
                            !.marked = TRUE, !.read = IdleDirect.read] \in DirectState
      BY <1>0, <3>1 DEF DirectState
    <3> QED
      BY <1>2, <3>2 DEF MarkWrites, TypeOK
  <2> QED
    BY <1>2, <2>1, <2>2 DEF MarkWrites, TypeOK
<1>3. CASE StopsListed(d)
  <2>1. PICK hits \in SUBSET {s \in Symbol : IsOpen(book[s])} :
               direct' = [direct EXCEPT ![d].pc = "stops", ![d].hits = hits]
    BY <1>3 DEF StopsListed
  <2>2. direct' \in [DirectJob -> DirectState]
    BY <2>1, DirectHitsType DEF TypeOK
  <2> QED
    BY <1>3, <2>2 DEF StopsListed, TypeOK
<1>4. CASE StopsDone(d)
  BY <1>4, DirectAtType DEF StopsDone, TypeOK
<1>5. ASSUME NEW s \in Symbol, StopHit(d, s) PROVE TypeOK'
  BY <1>5 DEF StopHit, TypeOK, DirectState
<1>6. CASE HaltChecked(d)
  BY <1>6, DirectAtType, DirectEndsType DEF HaltChecked, TypeOK
<1>7. CASE HaltCancels(d)
  BY <1>7, DirectEndsType, SweptType DEF HaltCancels, TypeOK, Cancelled, Status
<1> QED
  BY <1>1, <1>2, <1>3, <1>4, <1>5, <1>6, <1>7 DEF MonitorStep

LEMMA ExpiryStepType ==
    ASSUME TypeOK, NEW d \in Expirers, ExpiryStep(d)
    PROVE  TypeOK'
<1> USE DEF ledger, history
<1> d \in DirectJob
  BY DEF DirectJob
<1>0. direct[d] \in DirectState
  BY DEF TypeOK
<1>1. CASE ExpiryLists(d)
  BY <1>1, IdleTypes DEF ExpiryLists, TypeOK, DirectState, Lapsed
<1>2. ASSUME NEW i \in Id, ExpiryReads(d, i) PROVE TypeOK'
  <2>1. direct[d].rows[i].analysis.symbol \in Symbol
    BY <1>0, AnalysisAssumption DEF DirectState, Queue, Row
  <2>2. direct' \in [DirectJob -> DirectState]
    <3>1. PICK pc \in {"apply", "resolve"} :
               direct' = [direct EXCEPT ![d] =
                   [@ EXCEPT !.pc = pc, !.id = i,
                             !.symbol = direct[d].rows[i].analysis.symbol]]
      BY <1>2 DEF ExpiryReads
    <3> QED
      BY <3>1, <2>1, DirectTargetType DEF TypeOK
  <2> QED
    BY <1>2, <2>2 DEF ExpiryReads, TypeOK
<1>3. CASE ExpiryResolves(d)
  <2>1. queue' \in Queue
    BY <1>0, <1>3, QueueTypes DEF ExpiryResolves, TypeOK, DirectState, Status
  <2>2. direct' \in [DirectJob -> DirectState]
    BY <1>0, <1>3 DEF ExpiryResolves, TypeOK, DirectState
  <2> QED
    BY <1>3, <2>1, <2>2 DEF ExpiryResolves, TypeOK
<1>4. CASE ExpirySweeps(d)
  BY <1>4, DirectEndsType, SweptType DEF ExpirySweeps, TypeOK, Expired, Status
<1> QED
  BY <1>1, <1>2, <1>3, <1>4 DEF ExpiryStep

LEMMA NextType == TypeOK /\ [Next]_vars => TypeOK'
<1> SUFFICES ASSUME TypeOK, [Next]_vars PROVE TypeOK'
  OBVIOUS
<1> USE DEF ledger, history
<1>1. ASSUME NEW p \in Owners, NEW i \in Id, OwnerApproves(p, i) PROVE TypeOK'
  <2>1. p \in Approver
    BY DEF Approver
  <2> QED
    BY <1>1, <2>1, IdleTypes DEF OwnerApproves, TypeOK, ApproveState
<1>2. ASSUME NEW i \in Id, OwnerRejects(i) PROVE TypeOK'
  BY <1>2, QueueTypes DEF OwnerRejects, TypeOK, Status
<1>3. ASSUME NEW d \in Closers, NEW s \in Symbol, OwnerCloses(d, s) PROVE TypeOK'
  <2>1. d \in DirectJob
    BY DEF DirectJob
  <2> QED
    BY <1>3, <2>1, IdleTypes DEF OwnerCloses, TypeOK, DirectState
<1>4. CASE OwnerTogglesKill
  <2>1. kill' \in BOOLEAN
    BY <1>4, Zenon DEF OwnerTogglesKill
  <2> QED
    BY <1>4, <2>1 DEF OwnerTogglesKill, TypeOK
<1>5. CASE Tick
  BY <1>5 DEF Tick, TypeOK
<1>6. CASE UNCHANGED vars
  BY <1>6 DEF vars, TypeOK
<1> QED
  BY <1>1, <1>2, <1>3, <1>4, <1>5, <1>6, ApproveStepType, AutoStepType,
     EnqueueStepType, ApplyStepType, MonitorStepType, ExpiryStepType DEF Next

\* Every state of the desk is well typed, however many processes work on it.
THEOREM TypeCorrect == Spec => []TypeOK
BY InitType, NextType, PTL DEF Spec

-----------------------------------------------------------------------------
(* The ledger.  Only three kinds of step write it.                          *)

LEMMA LedgerSteps ==
    ASSUME [Next]_vars
    PROVE  \/ UNCHANGED <<ledger, fills>>
           \/ \E p \in Approver : ApproveCommits(p)
           \/ \E d \in DirectJob : AppliesWrite(d)
           \/ \E d \in Monitors : MarkWrites(d)
<1> USE DEF ledger, history
<1>1. ASSUME NEW p \in Owners, NEW i \in Id, OwnerApproves(p, i)
      PROVE  UNCHANGED <<ledger, fills>>
  BY <1>1 DEF OwnerApproves
<1>2. ASSUME NEW p \in Autos, AutoStep(p) PROVE UNCHANGED <<ledger, fills>>
  BY <1>2 DEF AutoStep, AutoReviews, AutoAppliesRule, AutoPassesRules, AutoBriefs,
              AutoDecides, AutoDefers, AutoRejects
<1>3. ASSUME NEW p \in Approver, ApproveStep(p), ~ApproveCommits(p)
      PROVE  UNCHANGED <<ledger, fills>>
  BY <1>3 DEF ApproveStep, ApproveReads, ApproveUnsafe, ApproveTooLate,
              ApproveRiskChecked, ApproveCapChecked, ApproveWithoutCandle,
              ApproveRaises, ApproveClaimLost, ApproveReportsLoss, ApproveFails
<1>4. ASSUME NEW e \in Enqueuers, EnqueueStep(e) PROVE UNCHANGED <<ledger, fills>>
  BY <1>4 DEF EnqueueStep, EnqueueStarts, EnqueueBreaches, UpsertSelects,
              UpsertReselects, UpsertInserts, UpsertRefused, UpsertOverwrites,
              UpsertRaises
<1>5. ASSUME NEW d \in DirectJob, ApplyStep(d), ~AppliesWrite(d)
      PROVE  UNCHANGED <<ledger, fills>>
  BY <1>5 DEF ApplyStep, AppliesCash, AppliesBook
<1>6. ASSUME NEW d \in Monitors, MonitorStep(d), ~MarkWrites(d)
      PROVE  UNCHANGED <<ledger, fills>>
  BY <1>6 DEF MonitorStep, MarkReads, StopsListed, StopsDone, StopHit, HaltChecked,
              HaltCancels
<1>7. ASSUME NEW d \in Expirers, ExpiryStep(d) PROVE UNCHANGED <<ledger, fills>>
  BY <1>7 DEF ExpiryStep, ExpiryLists, ExpiryReads, ExpiryResolves, ExpirySweeps
<1>8. CASE (\E i \in Id : OwnerRejects(i)) \/ OwnerTogglesKill \/ Tick
           \/ (\E d \in Closers, s \in Symbol : OwnerCloses(d, s)) \/ UNCHANGED vars
  BY <1>8 DEF OwnerRejects, OwnerTogglesKill, Tick, OwnerCloses, vars
<1> QED
  BY <1>1, <1>2, <1>3, <1>4, <1>5, <1>6, <1>7, <1>8 DEF Next

LEMMA CommitKeepsLedger ==
    ASSUME TypeOK, BookMatchesJournal, NEW p \in Approver, ApproveCommits(p)
    PROVE  BookMatchesJournal'
<1> DEFINE row == queue[approve[p].id]
           s == row.analysis.symbol
           action == row.analysis.action
<1>1. row \in Row /\ row.offer \in Nat
  BY DEF TypeOK, ApproveState, Queue, Row
<1>2. s \in Symbol /\ action \in Actions
  BY <1>1, AnalysisAssumption DEF Row
<1>3. book[s] \in Position
  BY <1>2 DEF TypeOK, Book
<1>4. /\ book' = WrittenBack(book, book, s, action, row.offer)
      /\ cash' = CashAfter(cash, book[s], action)
      /\ journal' = Journaled(journal, book[s], s, action)
  BY DEF ApproveCommits
<1>5. ASSUME NEW t \in Symbol PROVE Signed(book'[t].side) = journal'.net[t]
  <2>1. CASE t # s
    BY <2>1, <1>4 DEF WrittenBack, Journaled, TypeOK, Journal, BookMatchesJournal
  <2>2. CASE t = s
    <3>1. book'[s].side = After(book[s], action, row.offer).side
      BY <1>2, <1>4 DEF WrittenBack, After
    <3>2. journal'.net[s] = journal.net[s] + NetDelta(book[s], action)
      <4>1. journal.net \in [Symbol -> Int] BY DEF TypeOK, Journal
      <4> QED BY <1>2, <1>4, <4>1 DEF Journaled
    <3> QED
      BY <2>2, <3>1, <3>2, <1>1, <1>2, <1>3, DeltaIsMove DEF BookMatchesJournal
  <2> QED
    BY <2>1, <2>2
<1>6. cash' = StartingCash + journal'.cash
  <2>1. cash \in Int /\ journal.cash \in Int BY DEF TypeOK, Journal
  <2>2. cash = StartingCash + journal.cash BY DEF BookMatchesJournal
  <2>3. journal'.cash = journal.cash - NetDelta(book[s], action)
    BY <1>4 DEF Journaled
  <2>4. cash' = cash - NetDelta(book[s], action)
    <3> HIDE DEF s, action
    <3> QED BY <1>2, <1>3, <1>4, <2>1, CashAfterType
  <2>5. NetDelta(book[s], action) \in Int
    <3> HIDE DEF s, action
    <3> QED BY <1>2, <1>3, DeltaType
  <2> HIDE DEF s, action
  <2> QED BY <2>1, <2>2, <2>3, <2>4, <2>5 DEF StartingCash
<1> QED
  BY <1>5, <1>6 DEF BookMatchesJournal

\* While every writer of the ledger is a transactional approve, positions and
\* cash are the sum of the order journal, for any number of owners, auto
\* reviewers and enqueuers, whatever they read before the transaction.
THEOREM TransactionalLedger ==
    ASSUME DirectJob = {}
    PROVE  Spec => []BookMatchesJournal
<1>1. Init => BookMatchesJournal
  BY DEF Init, BookMatchesJournal, NoPosition, Signed, StartingCash
<1>2. TypeOK /\ BookMatchesJournal /\ [Next]_vars => BookMatchesJournal'
  <2> SUFFICES ASSUME TypeOK, BookMatchesJournal, [Next]_vars
               PROVE  BookMatchesJournal'
    OBVIOUS
  <2>1. CASE UNCHANGED <<ledger, fills>>
    BY <2>1 DEF ledger, BookMatchesJournal
  <2>2. CASE \E p \in Approver : ApproveCommits(p)
    BY <2>2, CommitKeepsLedger
  <2>3. Monitors = {}
    BY DEF DirectJob
  <2> QED
    BY <2>1, <2>2, <2>3, LedgerSteps
<1> QED
  BY <1>1, <1>2, TypeCorrect, PTL DEF Spec

-----------------------------------------------------------------------------
(* Open positions trace to fills.  The invariant must also cover the copies *)
(* of the book that the jobs carry from their reads to their writes.        *)

Traced(b, F) ==
    \A s \in Symbol : IsOpen(b[s]) =>
        \E f \in F : /\ f.offer = b[s].opened
                     /\ f.opened
                     /\ f.analysis.symbol = s
                     /\ f.analysis.action = b[s].side

TraceInv ==
    /\ TypeOK
    /\ Traced(book, fills)
    /\ \A d \in DirectJob : Traced(direct[d].read, fills)

\* What a job carries after a step is what it carried before, the book, or
\* nothing.
LEMMA ReadSteps ==
    ASSUME TypeOK, [Next]_vars, NEW d \in DirectJob
    PROVE  direct'[d].read \in {direct[d].read, book, [s \in Symbol |-> NoPosition]}
<1> USE DEF ledger, history
<1> DEFINE Kept == direct'[d].read \in
                       {direct[d].read, book, [s \in Symbol |-> NoPosition]}
<1>0. direct \in [DirectJob -> DirectState]
  BY DEF TypeOK
<1>1. CASE UNCHANGED direct
  BY <1>1
<1>2. ASSUME NEW c \in DirectJob, DirectEnds(c) PROVE Kept
  BY <1>0, <1>2 DEF DirectEnds, IdleDirect
<1>3. ASSUME NEW c \in DirectJob, NEW pc, DirectAt(c, pc) PROVE Kept
  BY <1>0, <1>3 DEF DirectAt, DirectState
<1>4. ASSUME NEW c \in DirectJob, ApplyStep(c) PROVE Kept
  <2>1. CASE AppliesCash(c)
    BY <1>0, <2>1 DEF AppliesCash, DirectState
  <2>2. CASE AppliesBook(c)
    BY <1>0, <2>2 DEF AppliesBook, DirectState
  <2>3. CASE AppliesWrite(c)
    <3>1. DirectWrote(c, "stops") \/ DirectWrote(c, "resolve") \/ DirectEnds(c)
      BY <2>3 DEF AppliesWrite, DirectJob
    <3>2. ASSUME NEW pc, DirectWrote(c, pc) PROVE Kept
      BY <1>0, <3>2 DEF DirectWrote, DirectState, IdleDirect
    <3> QED
      BY <3>1, <3>2, <1>2
  <2> QED
    BY <1>4, <2>1, <2>2, <2>3 DEF ApplyStep
<1>5. ASSUME NEW c \in Monitors, MonitorStep(c) PROVE Kept
  <2>0. c \in DirectJob
    BY DEF DirectJob
  <2>1. CASE MarkReads(c)
    BY <1>0, <2>0, <2>1 DEF MarkReads, DirectState
  <2>2. CASE MarkWrites(c)
    BY <1>0, <2>0, <2>2 DEF MarkWrites, DirectState, IdleDirect
  <2>3. CASE StopsListed(c)
    BY <1>0, <2>0, <2>3 DEF StopsListed, DirectState
  <2>4. CASE StopsDone(c) \/ HaltChecked(c) \/ HaltCancels(c)
    BY <1>2, <1>3, <2>0, <2>4 DEF StopsDone, HaltChecked, HaltCancels
  <2>5. ASSUME NEW s \in Symbol, StopHit(c, s) PROVE Kept
    BY <1>0, <2>0, <2>5 DEF StopHit, DirectState
  <2> QED
    BY <1>5, <2>1, <2>2, <2>3, <2>4, <2>5 DEF MonitorStep
<1>6. ASSUME NEW c \in Expirers, ExpiryStep(c) PROVE Kept
  <2>0. c \in DirectJob
    BY DEF DirectJob
  <2>1. CASE ExpiryLists(c)
    BY <1>0, <2>0, <2>1 DEF ExpiryLists, IdleDirect
  <2>2. ASSUME NEW i \in Id, ExpiryReads(c, i) PROVE Kept
    BY <1>0, <2>0, <2>2 DEF ExpiryReads, DirectState
  <2>3. CASE ExpiryResolves(c)
    BY <1>0, <2>0, <2>3 DEF ExpiryResolves, DirectState
  <2>4. CASE ExpirySweeps(c)
    BY <1>2, <2>0, <2>4 DEF ExpirySweeps
  <2> QED
    BY <1>6, <2>1, <2>2, <2>3, <2>4 DEF ExpiryStep
<1>7. ASSUME NEW c \in Closers, NEW s \in Symbol, OwnerCloses(c, s) PROVE Kept
  BY <1>0, <1>7 DEF OwnerCloses, IdleDirect, DirectJob
<1>8. ASSUME NEW p \in Approver, ApproveStep(p) PROVE UNCHANGED direct
  BY <1>8 DEF ApproveStep, ApproveReads, ApproveUnsafe, ApproveTooLate,
              ApproveRiskChecked, ApproveCapChecked, ApproveWithoutCandle,
              ApproveCommits, ApproveRaises, ApproveClaimLost, ApproveReportsLoss,
              ApproveFails
<1>9. ASSUME NEW p \in Autos, AutoStep(p) PROVE UNCHANGED direct
  BY <1>9 DEF AutoStep, AutoReviews, AutoAppliesRule, AutoPassesRules, AutoBriefs,
              AutoDecides, AutoDefers, AutoRejects
<1>10. ASSUME NEW e \in Enqueuers, EnqueueStep(e) PROVE UNCHANGED direct
  BY <1>10 DEF EnqueueStep, EnqueueStarts, EnqueueBreaches, UpsertSelects,
               UpsertReselects, UpsertInserts, UpsertRefused, UpsertOverwrites,
               UpsertRaises
<1>11. CASE (\E i \in Id : OwnerRejects(i)) \/ OwnerTogglesKill \/ Tick
            \/ (\E p \in Owners, i \in Id : OwnerApproves(p, i)) \/ UNCHANGED vars
  BY <1>1, <1>11 DEF OwnerRejects, OwnerTogglesKill, Tick, OwnerApproves, vars
<1> QED
  BY <1>1, <1>4, <1>5, <1>6, <1>7, <1>8, <1>9, <1>10, <1>11 DEF Next

LEMMA TracedMore ==
    ASSUME NEW b, NEW F, NEW G, Traced(b, F), F \subseteq G
    PROVE  Traced(b, G)
BY DEF Traced

LEMMA TracedFill ==
    ASSUME NEW b \in Book, NEW F, NEW s \in Symbol, NEW action \in Actions,
           NEW n \in Nat, NEW f, f.offer = n, f.analysis.symbol = s,
           f.analysis.action = action, f.opened = Opens(b[s], action), Traced(b, F)
    PROVE  Traced(WrittenBack(b, b, s, action, n), F \cup {f})
<1> DEFINE c == WrittenBack(b, b, s, action, n)
           G == F \cup {f}
<1>1. SUFFICES ASSUME NEW t \in Symbol, IsOpen(c[t])
               PROVE  \E g \in G : /\ g.offer = c[t].opened
                                   /\ g.opened
                                   /\ g.analysis.symbol = t
                                   /\ g.analysis.action = c[t].side
  BY DEF Traced
<1>2. CASE t = s /\ Opens(b[s], action)
  BY <1>2 DEF WrittenBack, After
<1>3. CASE ~(t = s /\ Opens(b[s], action))
  <2>1. c[t] = b[t]
    BY <1>1, <1>3 DEF WrittenBack, After, IsOpen, NoPosition
  <2> QED
    BY <1>1, <2>1 DEF Traced
<1> QED
  BY <1>2, <1>3

LEMMA TraceStep == TraceInv /\ [Next]_vars => TraceInv'
<1> SUFFICES ASSUME TraceInv, [Next]_vars PROVE TraceInv'
  OBVIOUS
<1>1. TypeOK /\ TypeOK'
  BY NextType DEF TraceInv
<1>2. Traced(book', fills') /\ fills \subseteq fills'
  <2>1. CASE UNCHANGED <<ledger, fills>>
    BY <2>1 DEF ledger, TraceInv
  <2>2. ASSUME NEW p \in Approver, ApproveCommits(p)
        PROVE  Traced(book', fills') /\ fills \subseteq fills'
    <3> DEFINE row == queue[approve[p].id]
               s == row.analysis.symbol
               action == row.analysis.action
               f == [id |-> approve[p].id, offer |-> row.offer,
                     reviewed |-> approve[p].reviewed, analysis |-> row.analysis,
                     opened |-> Opens(book[s], action)]
    <3>1. row \in Row /\ row.offer \in Nat
      BY <1>1 DEF TypeOK, ApproveState, Queue, Row
    <3>2. s \in Symbol /\ action \in Actions
      BY <3>1, AnalysisAssumption DEF Row
    <3>3. /\ book' = WrittenBack(book, book, s, action, row.offer)
          /\ fills' = fills \cup {f}
      BY <2>2 DEF ApproveCommits
    <3> QED
      BY <1>1, <3>1, <3>2, <3>3, TracedFill DEF TraceInv, TypeOK
  <2>3. ASSUME NEW d \in DirectJob, AppliesWrite(d)
        PROVE  Traced(book', fills') /\ fills \subseteq fills'
    <3>1. Traced(direct[d].read, fills) /\ Traced(book, fills)
      BY DEF TraceInv
    <3>2. book' = WrittenBack(book, direct[d].read, direct[d].symbol, "flat", 0)
          /\ fills' = fills
      BY <2>3 DEF AppliesWrite, history
    <3>3. ASSUME NEW t \in Symbol
          PROVE  \/ book'[t] = book[t]
                 \/ book'[t] = direct[d].read[t]
                 \/ ~IsOpen(book'[t])
      BY <3>2 DEF WrittenBack, After, Opens, Sides, NoPosition, IsOpen
    <3> QED
      BY <3>1, <3>2, <3>3 DEF Traced
  <2>4. ASSUME NEW d \in Monitors, MarkWrites(d)
        PROVE  Traced(book', fills') /\ fills \subseteq fills'
    <3>1. Traced(direct[d].read, fills) /\ Traced(book, fills)
      BY DEF TraceInv, DirectJob
    <3>2. book' = Remarked(book, direct[d].read) /\ fills' = fills
      BY <2>4 DEF MarkWrites, history
    <3>3. ASSUME NEW t \in Symbol
          PROVE  book'[t] = book[t] \/ book'[t] = direct[d].read[t]
      BY <3>2 DEF Remarked
    <3> QED
      BY <3>1, <3>2, <3>3 DEF Traced
  <2> QED
    BY <2>1, <2>2, <2>3, <2>4, LedgerSteps
<1>3. ASSUME NEW d \in DirectJob PROVE Traced(direct'[d].read, fills')
  <2>1. Traced([s \in Symbol |-> NoPosition], fills')
    BY DEF Traced, NoPosition, IsOpen
  <2>2. Traced(direct[d].read, fills') /\ Traced(book, fills')
    BY <1>2, TracedMore DEF TraceInv
  <2> QED
    BY <1>1, <2>1, <2>2, ReadSteps
<1> QED
  BY <1>1, <1>2, <1>3 DEF TraceInv

\* An open position is always the work of one claimed card, even when a stale
\* copy of the book has been written over a newer one.
THEOREM PositionsTraced == Spec => []PositionsTraceToFills
<1>1. Init => TraceInv
  <2> SUFFICES ASSUME Init PROVE TraceInv
    OBVIOUS
  <2>1. Traced([s \in Symbol |-> NoPosition], fills)
    BY DEF Traced, NoPosition, IsOpen
  <2>2. book = [s \in Symbol |-> NoPosition]
    BY DEF Init
  <2>3. \A d \in DirectJob : direct[d].read = [s \in Symbol |-> NoPosition]
    BY DEF Init, IdleDirect
  <2> QED
    BY <2>1, <2>2, <2>3, InitType DEF TraceInv
<1>2. TraceInv => PositionsTraceToFills
  BY DEF TraceInv, Traced, PositionsTraceToFills
<1> QED
  BY <1>1, <1>2, TraceStep, PTL DEF Spec

-----------------------------------------------------------------------------
(* What is filled, and how often.                                          *)

\* What is under review, and what is then named to the claim, is what was shown.
ReviewInv ==
    /\ TypeOK
    /\ AutoFillsReviewed
    /\ \A p \in Approver :
         /\ approve[p].pc \in {"reviewed", "ruled", "asked"} =>
                approve[p].seen.analysis \in approve[p].reviewed
         /\ approve[p].pc \in {"entered", "checks", "caps", "commit"} =>
                approve[p].expected \subseteq approve[p].reviewed

\* An approver that sits down, ends, or goes one step further keeps to it.
LEMMA ReviewMoves ==
    ASSUME ReviewInv, TypeOK', AutoFillsReviewed',
           NEW p \in Approver, NEW local \in ApproveState,
           approve' = [approve EXCEPT ![p] = local],
           local.pc \in {"reviewed", "ruled", "asked"} =>
               local.seen.analysis \in local.reviewed,
           local.pc \in {"entered", "checks", "caps", "commit"} =>
               local.expected \subseteq local.reviewed
    PROVE  ReviewInv'
<1>1. approve \in [Approver -> ApproveState] BY DEF ReviewInv, TypeOK
<1>2. ASSUME NEW q \in Approver
      PROVE  /\ approve'[q].pc \in {"reviewed", "ruled", "asked"} =>
                    approve'[q].seen.analysis \in approve'[q].reviewed
             /\ approve'[q].pc \in {"entered", "checks", "caps", "commit"} =>
                    approve'[q].expected \subseteq approve'[q].reviewed
  <2>1. CASE q = p BY <1>1, <2>1
  <2>2. CASE q # p
    <3>1. approve'[q] = approve[q] BY <1>1, <2>2
    <3> QED BY <3>1 DEF ReviewInv
  <2> QED BY <2>1, <2>2
<1> QED BY <1>2 DEF ReviewInv

LEMMA ReviewEnds ==
    ASSUME ReviewInv, TypeOK', AutoFillsReviewed', NEW p \in Approver, ApproveEnds(p)
    PROVE  ReviewInv'
<1>1. IdleApprove \in ApproveState BY IdleTypes
<1>2. IdleApprove.pc = "idle" BY DEF IdleApprove
<1> QED BY <1>1, <1>2, ReviewMoves DEF ApproveEnds

LEMMA ReviewGoesOn ==
    ASSUME ReviewInv, TypeOK', AutoFillsReviewed', NEW p \in Approver, NEW pc,
           ApproveAt(p, pc),
           \/ approve[p].pc \in {"reviewed", "ruled"} /\ pc \in {"ruled", "asked"}
           \/ approve[p].pc \in {"checks", "caps"} /\ pc \in {"caps", "commit"}
           \/ pc \in {"lost", "failing"}
    PROVE  ReviewInv'
<1> DEFINE local == [approve[p] EXCEPT !.pc = pc]
<1>1. approve[p] \in ApproveState BY DEF ReviewInv, TypeOK
<1>2. local \in ApproveState BY <1>1 DEF ApproveState
<1>3. /\ local.pc = pc /\ local.seen = approve[p].seen
      /\ local.expected = approve[p].expected /\ local.reviewed = approve[p].reviewed
  BY <1>1 DEF ApproveState
<1>4. approve' = [approve EXCEPT ![p] = local] BY DEF ApproveAt
<1> HIDE DEF local
<1> QED BY <1>2, <1>3, <1>4, ReviewMoves DEF ReviewInv

\* The verdict, or the rule, hands over the analysis of the row it was shown.
LEMMA ReviewNames ==
    ASSUME ReviewInv, TypeOK', AutoFillsReviewed', NEW p \in Approver,
           approve[p].pc \in {"reviewed", "asked"}, NEW pc \in {"entered", "rejecting"},
           approve' = [approve EXCEPT ![p].pc = pc, ![p].ts = now, ![p].expected = Named(p)]
    PROVE  ReviewInv'
<1> DEFINE local == [approve[p] EXCEPT !.pc = pc, !.ts = now, !.expected = Named(p)]
<1>1. approve[p] \in ApproveState /\ now \in Nat BY DEF ReviewInv, TypeOK
<1>2. Named(p) \in SUBSET Analysis BY <1>1 DEF Named, ApproveState, Row
<1>3. local \in ApproveState BY <1>1, <1>2 DEF ApproveState
<1>4. local.pc = pc /\ local.expected = Named(p) /\ local.reviewed = approve[p].reviewed
  BY <1>1 DEF ApproveState
<1>5. Named(p) \subseteq approve[p].reviewed BY DEF Named, ReviewInv
<1>6. approve' = [approve EXCEPT ![p] = local] OBVIOUS
<1> HIDE DEF local
<1> QED BY <1>3, <1>4, <1>5, <1>6, ReviewMoves

LEMMA ReviewStarts ==
    ASSUME ReviewInv, TypeOK', NEW p \in Approver, NEW i \in Id, UNCHANGED fills,
           OwnerApproves(p, i) \/ AutoReviews(p, i)
    PROVE  ReviewInv'
<1>0. AutoFillsReviewed' BY DEF ReviewInv, AutoFillsReviewed
<1>1. queue[i] \in Row /\ queue[i].analysis \in Analysis /\ now \in Nat
  BY DEF ReviewInv, TypeOK, Queue, Row
<1>2. IdleApprove \in ApproveState BY IdleTypes
<1>3. CASE OwnerApproves(p, i)
  <2> DEFINE local == [IdleApprove EXCEPT !.pc = "entered", !.id = i, !.ts = now,
                                          !.expected = Analysis, !.reviewed = Analysis]
  <2>1. /\ local \in ApproveState /\ local.pc = "entered"
        /\ local.expected = Analysis /\ local.reviewed = Analysis
    BY <1>1, <1>2 DEF ApproveState
  <2>2. approve' = [approve EXCEPT ![p] = local] BY <1>3 DEF OwnerApproves
  <2> HIDE DEF local
  <2> QED BY <1>0, <2>1, <2>2, ReviewMoves
<1>4. CASE AutoReviews(p, i)
  <2> DEFINE local == [IdleApprove EXCEPT !.pc = "reviewed", !.id = i, !.seen = queue[i],
                                          !.reviewed = {queue[i].analysis}]
  <2>1. /\ local \in ApproveState /\ local.pc = "reviewed"
        /\ local.seen = queue[i] /\ local.reviewed = {queue[i].analysis}
    BY <1>1, <1>2 DEF ApproveState
  <2>2. approve' = [approve EXCEPT ![p] = local] BY <1>4 DEF AutoReviews
  <2> HIDE DEF local
  <2> QED BY <1>0, <2>1, <2>2, ReviewMoves
<1> QED BY <1>3, <1>4

LEMMA AutoKeepsReview ==
    ASSUME ReviewInv, TypeOK', NEW p \in Autos, AutoStep(p)
    PROVE  ReviewInv'
<1> p \in Approver BY DEF Approver
<1> USE DEF history
<1>1. UNCHANGED fills
  BY DEF AutoStep, AutoReviews, AutoAppliesRule, AutoPassesRules, AutoBriefs,
         AutoDecides, AutoDefers, AutoRejects
<1>2. AutoFillsReviewed' BY <1>1 DEF ReviewInv, AutoFillsReviewed
<1>3. ASSUME NEW i \in Id, AutoReviews(p, i) PROVE ReviewInv'
  BY <1>1, <1>3, ReviewStarts
<1>4. CASE AutoAppliesRule(p)
  BY <1>2, <1>4, ReviewNames DEF AutoAppliesRule
<1>5. CASE AutoPassesRules(p) \/ AutoBriefs(p)
  BY <1>2, <1>5, ReviewGoesOn DEF AutoPassesRules, AutoBriefs
<1>6. CASE AutoDecides(p)
  BY <1>2, <1>6, ReviewNames, ReviewEnds DEF AutoDecides
<1>7. CASE AutoDefers(p) \/ AutoRejects(p)
  BY <1>2, <1>7, ReviewEnds DEF AutoDefers, AutoRejects
<1> QED BY <1>3, <1>4, <1>5, <1>6, <1>7 DEF AutoStep

LEMMA ApproveKeepsReview ==
    ASSUME ReviewInv, TypeOK', NEW p \in Approver, ApproveStep(p)
    PROVE  ReviewInv'
<1> USE DEF history
<1>1. CASE ApproveCommits(p)
  <2> DEFINE row == queue[approve[p].id]
             f == [id |-> approve[p].id, offer |-> row.offer,
                   reviewed |-> approve[p].reviewed, analysis |-> row.analysis,
                   opened |-> Opens(book[row.analysis.symbol], row.analysis.action)]
  <2>1. fills' = fills \cup {f}
    BY <1>1 DEF ApproveCommits
  <2>2. row.analysis \in approve[p].expected /\ approve[p].expected \subseteq approve[p].reviewed
    BY <1>1 DEF ApproveCommits, Claimable, ReviewInv
  <2>3. AutoFillsReviewed'
    BY <2>1, <2>2 DEF ReviewInv, AutoFillsReviewed
  <2> QED
    BY <1>1, <2>3, ReviewEnds DEF ApproveCommits
<1>2. CASE ~ApproveCommits(p)
  <2>1. UNCHANGED fills
    BY <1>2 DEF ApproveStep, ApproveReads, ApproveUnsafe, ApproveTooLate,
                ApproveRiskChecked, ApproveCapChecked, ApproveWithoutCandle,
                ApproveRaises, ApproveClaimLost, ApproveReportsLoss, ApproveFails
  <2>2. AutoFillsReviewed' BY <2>1 DEF ReviewInv, AutoFillsReviewed
  <2>3. CASE ApproveReads(p)
    <3>1. CASE ApproveEnds(p) BY <2>2, <3>1, ReviewEnds
    <3>2. CASE ~ApproveEnds(p)
      <4> DEFINE local == [approve[p] EXCEPT !.pc = "checks", !.seen = queue[approve[p].id]]
      <4>1. approve[p] \in ApproveState BY DEF ReviewInv, TypeOK
      <4>2. queue[approve[p].id] \in Row
        BY <4>1 DEF ReviewInv, TypeOK, ApproveState, Queue
      <4>3. /\ local \in ApproveState /\ local.pc = "checks"
            /\ local.expected = approve[p].expected /\ local.reviewed = approve[p].reviewed
        BY <4>1, <4>2 DEF ApproveState
      <4>4. approve' = [approve EXCEPT ![p] = local] /\ approve[p].pc = "entered"
        BY <2>3, <3>2 DEF ApproveReads
      <4> HIDE DEF local
      <4> QED BY <2>2, <4>3, <4>4, ReviewMoves DEF ReviewInv
    <3> QED BY <3>1, <3>2
  <2>4. CASE ApproveRiskChecked(p) \/ ApproveCapChecked(p) \/ ApproveRaises(p) \/ ApproveClaimLost(p)
    BY <2>2, <2>4, ReviewGoesOn
       DEF ApproveRiskChecked, ApproveCapChecked, ApproveRaises, ApproveClaimLost
  <2>5. CASE \/ ApproveUnsafe(p) \/ ApproveTooLate(p) \/ ApproveWithoutCandle(p)
             \/ ApproveReportsLoss(p) \/ ApproveFails(p)
    BY <2>2, <2>5, ReviewEnds
       DEF ApproveUnsafe, ApproveTooLate, ApproveWithoutCandle, ApproveReportsLoss, ApproveFails
  <2> QED BY <1>2, <2>3, <2>4, <2>5 DEF ApproveStep
<1> QED BY <1>1, <1>2

\* Whatever happens to the card while it is under review, the auto path fills
\* the analysis it was shown when the review began.
THEOREM ReviewedFills == Spec => []AutoFillsReviewed
<1>1. Init => ReviewInv
  <2> SUFFICES ASSUME Init PROVE ReviewInv
    OBVIOUS
  <2>1. \A p \in Approver : approve[p].pc = "idle"
    BY DEF Init, IdleApprove
  <2> QED
    BY <2>1, InitType DEF Init, ReviewInv, AutoFillsReviewed
<1>2. ReviewInv /\ [Next]_vars => ReviewInv'
  <2> SUFFICES ASSUME ReviewInv, [Next]_vars PROVE ReviewInv'
    OBVIOUS
  <2> USE DEF history
  <2>1. TypeOK'
    BY NextType DEF ReviewInv
  <2>2. CASE \E p \in Approver : ApproveStep(p)
    BY <2>1, <2>2, ApproveKeepsReview
  <2>3. CASE \E p \in Autos : AutoStep(p)
    BY <2>1, <2>3, AutoKeepsReview
  <2>4. CASE \E p \in Owners, i \in Id : OwnerApproves(p, i)
    BY <2>1, <2>4, ReviewStarts DEF Approver, OwnerApproves
  <2>5. CASE UNCHANGED <<approve, fills>>
    BY <2>1, <2>5 DEF ReviewInv, AutoFillsReviewed
  <2>6. ASSUME NEW e \in Enqueuers, EnqueueStep(e) PROVE UNCHANGED <<approve, fills>>
    BY <2>6 DEF EnqueueStep, EnqueueStarts, EnqueueBreaches, UpsertSelects, UpsertReselects,
                UpsertInserts, UpsertRefused, UpsertOverwrites, UpsertRaises
  <2>7. ASSUME NEW d \in DirectJob, ApplyStep(d) PROVE UNCHANGED <<approve, fills>>
    BY <2>7 DEF ApplyStep, AppliesCash, AppliesBook, AppliesWrite
  <2>8. ASSUME NEW d \in Monitors, MonitorStep(d) PROVE UNCHANGED <<approve, fills>>
    BY <2>8 DEF MonitorStep, MarkReads, MarkWrites, StopsListed, StopsDone, StopHit,
                HaltChecked, HaltCancels
  <2>9. ASSUME NEW d \in Expirers, ExpiryStep(d) PROVE UNCHANGED <<approve, fills>>
    BY <2>9 DEF ExpiryStep, ExpiryLists, ExpiryReads, ExpiryResolves, ExpirySweeps
  <2> QED
    BY <2>2, <2>3, <2>4, <2>5, <2>6, <2>7, <2>8, <2>9
       DEF Next, OwnerRejects, OwnerCloses, OwnerTogglesKill, Tick, vars
<1>3. ReviewInv => AutoFillsReviewed
  BY DEF ReviewInv
<1> QED
  BY <1>1, <1>2, <1>3, PTL DEF Spec

\* Pending cards carry different numbers, all handed out already, and none of
\* them was filled.
OfferInv ==
    /\ TypeOK
    /\ \A i \in Id : Pending(queue, i) => queue[i].offer \in 1..offers
    /\ \A i, j \in Id : Pending(queue, i) /\ Pending(queue, j)
                          /\ queue[i].offer = queue[j].offer => i = j
    /\ \A f \in fills : /\ f.offer \in 1..offers
                        /\ \A i \in Id : Pending(queue, i) => queue[i].offer # f.offer

\* The three things a step can do to the cards on the table.
LeavesTable ==
    /\ UNCHANGED history
    /\ \A i \in Id : queue'[i] = queue[i] \/ ~Pending(queue', i)

PutsOn ==
    /\ offers' = offers + 1
    /\ UNCHANGED fills
    /\ \E i \in Id : /\ Pending(queue', i) /\ queue'[i].offer = offers + 1
                     /\ \A j \in Id \ {i} : queue'[j] = queue[j]

LEMMA ResolvedLeaves ==
    ASSUME TypeOK, NEW i \in Id, NEW st \in Status \ {"pending"},
           queue' \in {WithStatus(queue, i, st), Resolved(queue, i, st), queue},
           UNCHANGED history
    PROVE  LeavesTable
BY DEF LeavesTable, WithStatus, Resolved, Pending, TypeOK, Queue, Row

LEMMA SweptLeaves ==
    ASSUME TypeOK, NEW rows, NEW st \in Status \ {"pending"},
           queue' = Swept(queue, rows, st), UNCHANGED history
    PROVE  LeavesTable
BY DEF LeavesTable, Swept, Pending, TypeOK, Queue, Row

LEMMA PutPuts ==
    ASSUME TypeOK, NEW e \in Enqueuers, NEW i \in Id, Puts(e, i), UNCHANGED fills
    PROVE  PutsOn
BY DEF PutsOn, Puts, WithPending, Pending, TypeOK, Queue, Row

LEMMA TableSteps ==
    ASSUME TypeOK, [Next]_vars
    PROVE  LeavesTable \/ PutsOn \/ \E p \in Approver : ApproveCommits(p)
<1>0. UNCHANGED <<queue, history>> => LeavesTable
  BY DEF LeavesTable
<1>1. ASSUME NEW p \in Approver, ApproveStep(p), ~ApproveCommits(p)
      PROVE  LeavesTable
  <2>1. approve[p].id \in Id
    BY DEF TypeOK, ApproveState
  <2>2. CASE ApproveTooLate(p) \/ ApproveWithoutCandle(p)
             \/ ApproveReportsLoss(p) \/ ApproveFails(p)
    BY <2>1, <2>2, ResolvedLeaves
       DEF ApproveTooLate, ApproveWithoutCandle, ApproveReportsLoss, ApproveFails,
           MarkedFailed, Status
  <2>3. CASE ApproveReads(p) \/ ApproveUnsafe(p) \/ ApproveRiskChecked(p)
             \/ ApproveCapChecked(p) \/ ApproveRaises(p) \/ ApproveClaimLost(p)
    BY <1>0, <2>3 DEF ApproveReads, ApproveUnsafe, ApproveRiskChecked,
                      ApproveCapChecked, ApproveRaises, ApproveClaimLost
  <2> QED
    BY <1>1, <2>2, <2>3 DEF ApproveStep
<1>2. ASSUME NEW p \in Autos, AutoStep(p) PROVE LeavesTable
  <2>1. approve[p].id \in Id
    BY DEF TypeOK, ApproveState, Approver
  <2>2. CASE AutoRejects(p)
    BY <2>1, <2>2, ResolvedLeaves DEF AutoRejects, Status
  <2> QED
    BY <1>0, <1>2, <2>2
       DEF AutoStep, AutoReviews, AutoAppliesRule, AutoPassesRules, AutoBriefs,
           AutoDecides, AutoDefers
<1>3. ASSUME NEW e \in Enqueuers, EnqueueStep(e) PROVE LeavesTable \/ PutsOn
  <2>1. ASSUME NEW i \in Id, UpsertInserts(e, i) \/ UpsertOverwrites(e, i)
        PROVE  PutsOn
    BY <2>1, PutPuts DEF UpsertInserts, UpsertOverwrites
  <2> QED
    BY <1>0, <1>3, <2>1 DEF EnqueueStep, EnqueueStarts, EnqueueBreaches,
          UpsertSelects, UpsertReselects, UpsertRefused, UpsertRaises
<1>4. ASSUME NEW d \in DirectJob, ApplyStep(d) PROVE LeavesTable
  BY <1>0, <1>4 DEF ApplyStep, AppliesCash, AppliesBook, AppliesWrite
<1>5. ASSUME NEW d \in Monitors, MonitorStep(d) PROVE LeavesTable
  <2>1. CASE HaltCancels(d)
    BY <2>1, SweptLeaves DEF HaltCancels, Cancelled, Status
  <2> QED
    BY <1>0, <1>5, <2>1 DEF MonitorStep, MarkReads, MarkWrites, StopsListed,
          StopsDone, StopHit, HaltChecked
<1>6. ASSUME NEW d \in Expirers, ExpiryStep(d) PROVE LeavesTable
  <2>1. direct[d].id \in Id
    BY DEF TypeOK, DirectState, DirectJob
  <2>2. CASE ExpiryResolves(d)
    BY <2>1, <2>2, ResolvedLeaves DEF ExpiryResolves, Status
  <2>3. CASE ExpirySweeps(d)
    BY <2>3, SweptLeaves DEF ExpirySweeps, Expired, Status
  <2> QED
    BY <1>0, <1>6, <2>2, <2>3 DEF ExpiryStep, ExpiryLists, ExpiryReads
<1>7. ASSUME NEW i \in Id, OwnerRejects(i) PROVE LeavesTable
  BY <1>7, ResolvedLeaves DEF OwnerRejects, Status
<1>8. CASE OwnerTogglesKill \/ Tick \/ UNCHANGED vars
           \/ (\E p \in Owners, i \in Id : OwnerApproves(p, i))
           \/ (\E d \in Closers, s \in Symbol : OwnerCloses(d, s))
  BY <1>0, <1>8 DEF OwnerTogglesKill, Tick, OwnerApproves, OwnerCloses, vars, history
<1> QED
  BY <1>1, <1>2, <1>3, <1>4, <1>5, <1>6, <1>7, <1>8 DEF Next

\* A commit takes one pending card off the table and adds it to the fills.
CommitTakes(i) ==
    /\ Pending(queue, i)
    /\ ~Pending(queue', i)
    /\ \A j \in Id \ {i} : queue'[j] = queue[j]
    /\ \E f : fills' = fills \cup {f} /\ f.offer = queue[i].offer
    /\ offers' = offers

LEMMA CommitTakesOne ==
    ASSUME TypeOK, NEW p \in Approver, ApproveCommits(p)
    PROVE  approve[p].id \in Id /\ CommitTakes(approve[p].id)
<1>1. approve[p].id \in Id
  BY DEF TypeOK, ApproveState
<1>2. \E f : fills' = fills \cup {f} /\ f.offer = queue[approve[p].id].offer
  <2> DEFINE row == queue[approve[p].id]
             f == [id |-> approve[p].id, offer |-> row.offer,
                   reviewed |-> approve[p].reviewed, analysis |-> row.analysis,
                   opened |-> Opens(book[row.analysis.symbol], row.analysis.action)]
  <2>1. fills' = fills \cup {f} /\ f.offer = row.offer
    BY DEF ApproveCommits
  <2> QED
    BY <2>1
<1>3. Pending(queue, approve[p].id) /\ offers' = offers
  BY DEF ApproveCommits, Claimable
<1>4. queue' = WithStatus(queue, approve[p].id, "approved")
  BY DEF ApproveCommits
<1>5. ~Pending(queue', approve[p].id)
      /\ \A j \in Id \ {approve[p].id} : queue'[j] = queue[j]
  BY <1>1, <1>4 DEF WithStatus, Pending, TypeOK, Queue, Row
<1> QED
  BY <1>1, <1>2, <1>3, <1>5 DEF CommitTakes

LEMMA OfferStep == OfferInv /\ [Next]_vars => OfferInv'
<1> SUFFICES ASSUME OfferInv, [Next]_vars PROVE OfferInv'
  OBVIOUS
<1>1. TypeOK /\ TypeOK'
  BY NextType DEF OfferInv
<1>2. offers \in Nat
  BY <1>1 DEF TypeOK
<1>3. CASE LeavesTable
  <2>1. \A i \in Id : Pending(queue', i) => queue'[i] = queue[i] /\ Pending(queue, i)
    BY <1>3 DEF LeavesTable, Pending
  <2>2. offers' = offers /\ fills' = fills
    BY <1>3 DEF LeavesTable, history
  <2> QED
    BY <1>1, <2>1, <2>2 DEF OfferInv
<1>4. CASE PutsOn
  <2>1. PICK i \in Id : /\ Pending(queue', i) /\ queue'[i].offer = offers + 1
                        /\ \A j \in Id \ {i} : queue'[j] = queue[j]
    BY <1>4 DEF PutsOn
  <2>2. offers' = offers + 1 /\ fills' = fills
    BY <1>4 DEF PutsOn
  <2>3. \A j \in Id \ {i} : Pending(queue', j) =>
            Pending(queue, j) /\ queue'[j].offer \in 1..offers
    BY <2>1 DEF OfferInv, Pending
  <2>4. \A j \in Id : Pending(queue', j) => queue'[j].offer \in 1..offers'
    BY <1>2, <2>1, <2>2, <2>3
  <2>5. \A j, k \in Id : Pending(queue', j) /\ Pending(queue', k)
                            /\ queue'[j].offer = queue'[k].offer => j = k
    BY <1>2, <2>1, <2>3 DEF OfferInv
  <2>6. \A f \in fills' : /\ f.offer \in 1..offers'
                         /\ \A j \in Id : Pending(queue', j) => queue'[j].offer # f.offer
    BY <1>2, <2>1, <2>2, <2>3 DEF OfferInv
  <2> QED
    BY <1>1, <2>4, <2>5, <2>6 DEF OfferInv
<1>5. ASSUME NEW i \in Id, CommitTakes(i) PROVE OfferInv'
  <2>1. PICK f : fills' = fills \cup {f} /\ f.offer = queue[i].offer
    BY <1>5 DEF CommitTakes
  <2>2. \A j \in Id : Pending(queue', j) =>
            j # i /\ queue'[j] = queue[j] /\ Pending(queue, j)
    BY <1>5 DEF CommitTakes, Pending
  <2>3. f.offer \in 1..offers /\ offers' = offers
    BY <1>5, <2>1 DEF CommitTakes, OfferInv
  <2>4. \A j \in Id : Pending(queue', j) => queue'[j].offer # f.offer
    BY <1>5, <2>1, <2>2 DEF CommitTakes, OfferInv
  <2> QED
    BY <1>1, <2>1, <2>2, <2>3, <2>4 DEF OfferInv
<1> QED
  BY <1>1, <1>3, <1>4, <1>5, TableSteps, CommitTakesOne

\* The desk implements the decision book: whatever the interleaving of owners,
\* auto review, re-enqueues, rejects, expiry and halts, a card meets at most one
\* end, and only a card on the table is filled.
THEOREM DeskImplementsDecisions == Spec => CardsDecidedOnce
<1>1. Init => Decisions!Init
  <2> SUFFICES ASSUME Init PROVE Decisions!Init
    OBVIOUS
  <2>1. \A i \in Id : ~Pending(queue, i)
    BY DEF Init, Pending, NoRow, VacantRow
  <2> QED
    BY <2>1 DEF Init, Decisions!Init, CardsOnTable, CardsFilled
<1>2. Init => OfferInv
  <2> SUFFICES ASSUME Init PROVE OfferInv
    OBVIOUS
  <2>1. \A i \in Id : ~Pending(queue, i)
    BY DEF Init, Pending, NoRow, VacantRow
  <2> QED
    BY <2>1, InitType DEF Init, OfferInv
<1>3. OfferInv /\ [Next]_vars => [Decisions!Next]_(Decisions!vars)
  <2> SUFFICES ASSUME OfferInv, [Next]_vars
               PROVE  [Decisions!Next]_(Decisions!vars)
    OBVIOUS
  <2>0. TypeOK
    BY DEF OfferInv
  <2>1. CASE LeavesTable
    <3>1. offers' = offers /\ CardsFilled' = CardsFilled
      BY <2>1 DEF LeavesTable, history, CardsFilled
    <3>2. \A i \in Id : Pending(queue', i) => queue'[i] = queue[i] /\ Pending(queue, i)
      BY <2>1 DEF LeavesTable, Pending
    <3>3. CardsOnTable' \subseteq CardsOnTable
      BY <3>2 DEF CardsOnTable
    <3>4. CASE CardsOnTable' = CardsOnTable
      BY <3>1, <3>4 DEF Decisions!vars
    <3>5. CASE CardsOnTable' # CardsOnTable
      <4>1. CardsOnTable \ CardsOnTable' \in (SUBSET CardsOnTable) \ {{}}
        BY <3>3, <3>5
      <4>2. CardsOnTable' = CardsOnTable \ (CardsOnTable \ CardsOnTable')
        BY <3>3
      <4> QED
        BY <3>1, <4>1, <4>2 DEF Decisions!Next, Decisions!Drop
    <3> QED
      BY <3>4, <3>5
  <2>2. CASE PutsOn
    <3>1. PICK i \in Id : /\ Pending(queue', i) /\ queue'[i].offer = offers + 1
                          /\ \A j \in Id \ {i} : queue'[j] = queue[j]
      BY <2>2 DEF PutsOn
    <3>2. offers' = offers + 1 /\ CardsFilled' = CardsFilled
      BY <2>2 DEF PutsOn, CardsFilled
    <3> DEFINE kept == {queue[j].offer : j \in {k \in Id \ {i} : Pending(queue, k)}}
    <3>3. kept \subseteq CardsOnTable
      BY DEF CardsOnTable
    <3>4. CardsOnTable' = kept \cup {offers + 1}
      BY <3>1 DEF CardsOnTable, Pending
    <3>5. CardsOnTable' = (CardsOnTable \ (CardsOnTable \ kept)) \cup {offers + 1}
      BY <3>3, <3>4
    <3>6. CardsOnTable \ kept \in SUBSET CardsOnTable
      OBVIOUS
    <3> QED
      BY <3>2, <3>5, <3>6 DEF Decisions!Next, Decisions!Put
  <2>3. ASSUME NEW i \in Id, CommitTakes(i)
        PROVE  [Decisions!Next]_(Decisions!vars)
    <3> DEFINE n == queue[i].offer
    <3>1. n \in CardsOnTable
      BY <2>3 DEF CardsOnTable, CommitTakes
    <3>2. CardsOnTable' = CardsOnTable \ {n}
      BY <2>3 DEF CardsOnTable, CommitTakes, OfferInv, Pending
    <3>3. CardsFilled' = CardsFilled \cup {n} /\ offers' = offers
      BY <2>3 DEF CardsFilled, CommitTakes
    <3> QED
      BY <3>1, <3>2, <3>3 DEF Decisions!Next, Decisions!Fill
  <2> QED
    BY <2>0, <2>1, <2>2, <2>3, TableSteps, CommitTakesOne
<1> QED
  BY <1>1, <1>2, <1>3, OfferStep, PTL DEF Spec, CardsDecidedOnce, Decisions!Spec

-----------------------------------------------------------------------------
(* What the caps, the kill switch and the safety gate promise for every    *)
(* account, setting and snapshot, what the analysis promises for every     *)
(* bar, and the gate of auto-decide for every table of outcomes.           *)


Redis == [url : BOOLEAN, up : BOOLEAN, text : Text, on : BOOLEAN]
Caps == [max_notional_per_order : Int, max_daily_loss_usd : Int, drawdown_lock_pct : Int]
Account == [equity : Int, start : Nat, realised : Int, marked : SUBSET Int]
Order == [action : Directions \cup {"flat"}, sized : BOOLEAN, size : Int, entry : SUBSET Int, stop : SUBSET Int]
Verdict == [action : Directions \cup {"flat"}, size : Int, stop : SUBSET Int, confidence : Int]

\* Whatever Redis and the environment hold, the ceiling is at most one percent.
THEOREM CeilingHolds ==
    ASSUME NEW redis \in Redis, NEW env \in Text
    PROVE  max_risk_per_trade_pct(redis, env) \in 0..HARD_MAX_RISK_PER_TRADE_PCT
<1> DEFINE raw == IF Answers(redis) /\ redis.text.kind # "blank" THEN redis.text ELSE env
<1>1. raw \in Text BY DEF Redis
<1>2. _fenv(raw, HARD_MAX_RISK_PER_TRADE_PCT) \in Int
  BY <1>1 DEF _fenv, Text, HARD_MAX_RISK_PER_TRADE_PCT
<1> QED
  BY <1>2 DEF max_risk_per_trade_pct, AtMost, NotNegative, HARD_MAX_RISK_PER_TRADE_PCT

\* The loss at the stop: a notional of equity * size / Whole over a distance of entry - stop.
LossAtStop(account, order, entry, stop) ==
    estimated_notional(account.equity, order.size) * Distance(entry, stop)

LEMMA ScaledBound ==
    ASSUME NEW e \in Nat, NEW s \in Nat, NEW d \in Nat, NEW c \in Nat, NEW p \in Nat, s * d <= c * p
    PROVE  (e * s) * d <= c * (e * p)
<1>1. e * (s * d) <= e * (c * p) BY Z3
<1>2. (e * s) * d = e * (s * d) /\ c * (e * p) = e * (c * p) BY Z3
<1> QED BY <1>1, <1>2

\* An order that opens something of a given size passes only with a stop, and loses no more than one
\* percent of the equity there.
THEOREM StopWithinDoctrine ==
    ASSUME NEW caps \in Caps, NEW redis \in Redis, NEW env \in Text, NEW account \in Account,
           NEW order \in Order, Sized(order),
           check_caps(caps, max_risk_per_trade_pct(redis, env), account, order) = "ok"
    PROVE  /\ order.stop # {}
           /\ \A entry \in order.entry, stop \in order.stop : entry > 0 =>
                LossAtStop(account, order, entry, stop)
                    <= HARD_MAX_RISK_PER_TRADE_PCT * (NotNegative(account.equity) * entry)
<1> DEFINE ceiling == max_risk_per_trade_pct(redis, env)
<1>1. ceiling \in 0..HARD_MAX_RISK_PER_TRADE_PCT BY CeilingHolds
<1>2. order.stop # {} /\ ~RisksTooMuch(order, ceiling)
  <2> HIDE DEF ceiling
  <2>1. check_caps(caps, ceiling, account, order) = "ok" BY DEF ceiling
  <2> QED BY <2>1 DEF check_caps, Sized
<1> HIDE DEF ceiling
<1>3. ASSUME NEW entry \in order.entry, NEW stop \in order.stop, entry > 0
      PROVE  LossAtStop(account, order, entry, stop)
                <= HARD_MAX_RISK_PER_TRADE_PCT * (NotNegative(account.equity) * entry)
  <2> DEFINE d == Distance(entry, stop)
             s == NotNegative(order.size)
             e == NotNegative(account.equity)
  <2>1. entry \in Nat /\ stop \in Int BY <1>3 DEF Order
  <2>2. d \in Nat /\ s \in Nat /\ e \in Nat BY <2>1 DEF Distance, NotNegative, Order, Account
  <2>3. ~(s * d > ceiling * entry) BY <1>2, <1>3 DEF RisksTooMuch
  <2>4. LossAtStop(account, order, entry, stop) = (e * s) * d BY DEF LossAtStop, estimated_notional
  <2> HIDE DEF d, s, e
  <2>5. s * d <= HARD_MAX_RISK_PER_TRADE_PCT * entry
    <3>1. ceiling * entry <= HARD_MAX_RISK_PER_TRADE_PCT * entry
      BY <1>1, <2>1, Z3 DEF HARD_MAX_RISK_PER_TRADE_PCT
    <3>2. s * d \in Int /\ ceiling * entry \in Int BY <1>1, <2>1, <2>2, Z3 DEF HARD_MAX_RISK_PER_TRADE_PCT
    <3> QED BY <3>1, <3>2, <2>1, <2>3, Z3 DEF HARD_MAX_RISK_PER_TRADE_PCT
  <2>6. HARD_MAX_RISK_PER_TRADE_PCT \in Nat BY DEF HARD_MAX_RISK_PER_TRADE_PCT
  <2>7. (e * s) * d <= HARD_MAX_RISK_PER_TRADE_PCT * (e * entry)
    BY <2>1, <2>2, <2>5, <2>6, ScaledBound
  <2> QED BY <2>4, <2>7 DEF e
<1> QED BY <1>2, <1>3

-----------------------------------------------------------------------------
\* Every cap of the one is no larger than that of the other.
Tighter(a, b) ==
    /\ a.max_notional_per_order <= b.max_notional_per_order
    /\ a.max_daily_loss_usd <= b.max_daily_loss_usd
    /\ a.drawdown_lock_pct <= b.drawdown_lock_pct

\* Tightening a cap lets nothing through that was refused before.
THEOREM TighterRefusesMore ==
    ASSUME NEW tight \in Caps, NEW loose \in Caps, Tighter(tight, loose),
           NEW low \in Nat, NEW high \in Nat, low <= high,
           NEW account \in Account, NEW order \in Order,
           check_caps(tight, low, account, order) = "ok"
    PROVE  check_caps(loose, high, account, order) = "ok"
<1>1. ~AccountBreach(loose, account)
  <2>1. ~AccountBreach(tight, account) BY DEF check_caps
  <2> DEFINE start == account.start
             fall == Drawdown(account) * Whole
  <2>2. start \in Nat /\ fall \in Int BY DEF Account, Drawdown, NotNegative, Whole
  <2>3. ~(start > 0 /\ fall >= loose.drawdown_lock_pct * start)
    <3>1. ~(start > 0 /\ fall >= tight.drawdown_lock_pct * start) BY <2>1 DEF AccountBreach
    <3> HIDE DEF start, fall
    <3>2. tight.drawdown_lock_pct * start <= loose.drawdown_lock_pct * start
      <4> DEFINE a == tight.drawdown_lock_pct
                 b == loose.drawdown_lock_pct
      <4>1. a \in Int /\ b \in Int /\ a <= b BY DEF Caps, Tighter
      <4> HIDE DEF a, b
      <4>2. a * start <= b * start BY <4>1, <2>2, Z3
      <4> QED BY <4>2 DEF a, b
    <3>3. tight.drawdown_lock_pct * start \in Int /\ loose.drawdown_lock_pct * start \in Int
      BY <2>2 DEF Caps
    <3> QED BY <3>1, <3>2, <3>3, <2>2
  <2>4. account.realised > -loose.max_daily_loss_usd
    BY <2>1 DEF AccountBreach, Account, Caps, Tighter
  <2>5. \A marked \in account.marked : marked > -loose.max_daily_loss_usd
    BY <2>1 DEF AccountBreach, Account, Caps, Tighter
  <2>6. \A marked \in account.marked : marked \in Int BY DEF Account
  <2> QED BY <2>3, <2>4, <2>5, <2>6 DEF AccountBreach, Account, Caps
<1>2. CASE ~Sized(order) BY <1>1, <1>2 DEF check_caps
<1>3. CASE Sized(order)
  <2>1. /\ ~(estimated_notional(account.equity, order.size) > Whole * tight.max_notional_per_order)
        /\ order.stop # {} /\ ~RisksTooMuch(order, low)
    BY <1>3 DEF check_caps
  <2>2. ~(estimated_notional(account.equity, order.size) > Whole * loose.max_notional_per_order)
    <3> DEFINE n == estimated_notional(account.equity, order.size)
    <3>1. n \in Int BY Z3 DEF estimated_notional, NotNegative, Account, Order
    <3> HIDE DEF n
    <3>2. ~(n > Whole * tight.max_notional_per_order) BY <2>1 DEF n
    <3>3. ~(n > Whole * loose.max_notional_per_order) BY <3>1, <3>2 DEF Caps, Tighter, Whole
    <3> QED BY <3>3 DEF n
  <2>3. ~RisksTooMuch(order, high)
    <3> SUFFICES ASSUME NEW entry \in order.entry, NEW stop \in order.stop, entry > 0
                 PROVE  ~(NotNegative(order.size) * Distance(entry, stop) > high * entry)
      BY DEF RisksTooMuch
    <3> DEFINE r == NotNegative(order.size) * Distance(entry, stop)
    <3>1. entry \in Nat /\ stop \in Int BY DEF Order
    <3>2. r \in Int
      <4>1. NotNegative(order.size) \in Int /\ Distance(entry, stop) \in Int
        BY <3>1 DEF NotNegative, Distance, Order
      <4> QED BY <4>1, Z3
    <3>3. ~(r > low * entry) BY <2>1 DEF RisksTooMuch
    <3> HIDE DEF r
    <3>4. low * entry <= high * entry /\ low * entry \in Int /\ high * entry \in Int BY <3>1, Z3
    <3>5. ~(r > high * entry) BY <3>2, <3>3, <3>4
    <3> QED BY <3>5 DEF r
  <2> QED BY <1>1, <1>3, <2>1, <2>2, <2>3 DEF check_caps
<1> QED BY <1>2, <1>3

\* Caps of the owner's form let a fresh account trade; a daily loss of zero, which the form
\* refuses, halts every account that has made nothing.
THEOREM ZeroHalts ==
    ASSUME NEW caps \in Caps, NEW account \in Account, account.realised <= 0,
           account.equity = account.start
    PROVE  /\ caps.max_daily_loss_usd = 0 => AccountBreach(caps, account)
           /\ caps.max_daily_loss_usd > 0 /\ caps.drawdown_lock_pct > 0
                  /\ account.realised = 0 /\ account.marked = {}
              => ~AccountBreach(caps, account)
<1>1. ASSUME caps.max_daily_loss_usd = 0 PROVE AccountBreach(caps, account)
  BY <1>1 DEF AccountBreach, Account
<1>2. ASSUME caps.max_daily_loss_usd > 0, caps.drawdown_lock_pct > 0, account.realised = 0,
             account.marked = {}
      PROVE  ~AccountBreach(caps, account)
  <2>1. Drawdown(account) * Whole = 0 BY DEF Drawdown, NotNegative, Whole, Account
  <2>2. account.start > 0 => caps.drawdown_lock_pct * account.start > 0
    <3> DEFINE a == caps.drawdown_lock_pct
               b == account.start
    <3>1. a \in Int /\ b \in Nat /\ a > 0 BY <1>2 DEF Caps, Account
    <3> HIDE DEF a, b
    <3>2. b > 0 => a * b > 0 BY <3>1, Z3
    <3> QED BY <3>2 DEF a, b
  <2>3. caps.drawdown_lock_pct * account.start \in Int BY DEF Caps, Account
  <2> QED BY <1>2, <2>1, <2>2, <2>3 DEF AccountBreach, Account, Caps
<1> QED BY <1>1, <1>2

-----------------------------------------------------------------------------
\* What set_risk_cap wrote to Redis is read by every process that reaches it, whatever its
\* own environment holds; what the owner's form takes is not clamped.
THEOREM TightenedIsRead ==
    ASSUME NEW redis \in Redis, Answers(redis), NEW name \in STRING, NEW x \in Int, NEW env \in Text,
           NEW default \in Int, validate_risk_cap_updates(name, x)
    PROVE  LET after == set_risk_cap(redis, name, x)
           IN  /\ _read_cap_float(after.redis, env, default) = x
               /\ name = "max_risk_per_trade_pct" => max_risk_per_trade_pct(after.redis, env) = x
<1> DEFINE after == set_risk_cap(redis, name, x)
<1>1. Clamped(name, x) = x
  BY DEF Clamped, validate_risk_cap_updates, AtMost, NotNegative, Whole, HARD_MAX_RISK_PER_TRADE_PCT
<1>2. after.redis = [redis EXCEPT !.text = Number(x)] BY <1>1 DEF set_risk_cap
<1>3. after.redis.url /\ after.redis.up /\ after.redis.text = Number(x)
  BY <1>2 DEF Redis, Answers
<1>4. _read_cap_float(after.redis, env, default) = x
  BY <1>3 DEF _read_cap_float, Answers, Number
<1>5. ASSUME name = "max_risk_per_trade_pct" PROVE max_risk_per_trade_pct(after.redis, env) = x
  <2>1. 0 < x /\ x <= HARD_MAX_RISK_PER_TRADE_PCT BY <1>5 DEF validate_risk_cap_updates
  <2> QED
    BY <1>3, <2>1 DEF max_risk_per_trade_pct, Answers, Number, _fenv, AtMost, NotNegative,
                      HARD_MAX_RISK_PER_TRADE_PCT
<1> QED BY <1>4, <1>5

\* A strict reader trades only on a Redis that answers that the switch is off.  Who was told
\* that it is engaged can rely on it, through any outage that follows.
THEOREM SwitchFailsClosed ==
    ASSUME NEW redis \in Redis
    PROVE  /\ ~kill_switch_state(redis, TRUE).engaged <=> Answers(redis) /\ ~redis.on
           /\ \A outcome \in engage_kill_switch(redis) :
                outcome.ok => \A up, strict \in BOOLEAN :
                    kill_switch_state([outcome.redis EXCEPT !.up = up], strict).engaged
<1>1. ~kill_switch_state(redis, TRUE).engaged <=> Answers(redis) /\ ~redis.on
  BY DEF kill_switch_state, Answers, Redis
<1>2. ASSUME NEW outcome \in engage_kill_switch(redis), outcome.ok, NEW up \in BOOLEAN, NEW strict \in BOOLEAN
      PROVE  kill_switch_state([outcome.redis EXCEPT !.up = up], strict).engaged
  <2> DEFINE on == [redis EXCEPT !.on = TRUE]
             told(r, ok) == [redis |-> r, ok |-> ok]
  <2>0. engage_kill_switch(redis) =
            {told(redis, FALSE)} \cup (IF Answers(redis) THEN {told(on, FALSE), told(on, TRUE)} ELSE {})
    BY DEF engage_kill_switch
  <2>1. Answers(redis) /\ outcome.redis = on
    <3> HIDE DEF on
    <3> QED BY <1>2, <2>0
  <2>2. outcome.redis \in Redis /\ outcome.redis.url /\ outcome.redis.on BY <2>1 DEF Redis, Answers
  <2> DEFINE later == [outcome.redis EXCEPT !.up = up]
  <2>3. later.url /\ later.on BY <2>2 DEF Redis
  <2> HIDE DEF later
  <2>4. kill_switch_state(later, strict).engaged BY <2>3 DEF kill_switch_state
  <2> QED BY <2>4 DEF later
<1> QED BY <1>1, <1>2

-----------------------------------------------------------------------------
\* What is unsafe without a side (the analysis) is unsafe for each side (the queue).
THEOREM SideIsStricter ==
    ASSUME NEW cfg, NEW latest, NEW errors, NEW side \in Directions,
           evaluate_market_safety(cfg, latest, errors, side) = {}
    PROVE  evaluate_market_safety(cfg, latest, errors, "flat") = {}
<1>1. CASE ~cfg.enabled BY <1>1 DEF evaluate_market_safety
<1>2. CASE cfg.enabled
  <2> DEFINE Faults(s) == UNION {BookReasons(b, cfg, s) : b \in Required("book", latest, cfg)}
  <2>1. ASSUME NEW b, BookReasons(b, cfg, side) = {} PROVE BookReasons(b, cfg, "flat") = {}
    <3>1. ~Thin(b, cfg, side) BY <2>1 DEF BookReasons, Reason
    <3>2. ~Thin(b, cfg, "flat") BY <3>1 DEF Thin, Directions
    <3> QED BY <2>1, <3>2 DEF BookReasons, Reason
  <2>2. Faults(side) = {} BY <1>2 DEF evaluate_market_safety
  <2>3. Faults("flat") = {} BY <2>1, <2>2
  <2> HIDE DEF Faults
  <2>4. /\ Reason("provider_error", \E e \in errors : provider_error_is_required(e, cfg)) = {}
        /\ Reason("missing", \E stream \in cfg.required : latest[stream] = {}) = {}
        /\ UNION {DerivativesReasons(d, cfg) : d \in Required("derivatives", latest, cfg)} = {}
        /\ UNION {MacroReasons(x, cfg) : x \in Required("macro", latest, cfg)} = {}
    BY <1>2 DEF evaluate_market_safety
  <2> QED BY <1>2, <2>3, <2>4 DEF evaluate_market_safety, Faults
<1> QED BY <1>1, <1>2

\* An unsafe analysis opens nothing, is too weak for any queue, and stays so.
THEOREM UnsafeActsOnNothing ==
    ASSUME NEW a \in Verdict, NEW reasons, NEW later, reasons # {}
    PROVE  LET vetoed == apply_safety_to_analysis(a, reasons)
           IN  /\ vetoed.action = "flat" /\ vetoed.stop = {}
               /\ vetoed.confidence < CONFIDENCE_THRESHOLD /\ vetoed.confidence <= a.confidence
               /\ apply_safety_to_analysis(vetoed, later) = vetoed
<1> DEFINE low == AtMost(a.confidence, CONFIDENCE_THRESHOLD - 1)
           vetoed == [action |-> "flat", size |-> 0, stop |-> {}, confidence |-> low]
<1>1. low \in Int /\ low < CONFIDENCE_THRESHOLD /\ low <= a.confidence
  BY DEF AtMost, CONFIDENCE_THRESHOLD, Verdict
<1>2. apply_safety_to_analysis(a, reasons) = vetoed
  BY DEF apply_safety_to_analysis, force_flat, Verdict
<1>3. AtMost(low, CONFIDENCE_THRESHOLD - 1) = low BY <1>1 DEF AtMost, CONFIDENCE_THRESHOLD
<1> HIDE DEF low
<1>4. apply_safety_to_analysis(vetoed, later) = vetoed
  BY <1>3 DEF apply_safety_to_analysis, force_flat
<1> QED BY <1>1, <1>2, <1>4

-----------------------------------------------------------------------------
(* The analysis.                                                           *)

Maybe(S) == {{}} \cup {{x} : x \in S}
Candle == [bar : Int, low : Maybe(Int), high : Maybe(Int), close : Maybe(Int), atr : Maybe(Nat),
           rsi : Maybe(Int), ema20 : Maybe(Int), ema200 : Maybe(Int)]

LEMMA TheOne ==
    ASSUME NEW S, NEW s \in Maybe(S), s # {}
    PROVE  The(s) \in S /\ s = {The(s)}
<1>1. PICK x \in S : s = {x} BY DEF Maybe
<1>2. The(s) = x BY <1>1 DEF The
<1> QED BY <1>1, <1>2

\* A trend whose momentum contradicts it has a low confidence.
LEMMA TrendConfidence ==
    ASSUME NEW side \in Directions, NEW rsi \in Maybe(Int)
    PROVE  /\ _trend_confidence(side, rsi) \in {25, 50, 60, 75}
           /\ _rsi_conflicts(side, rsi) => _trend_confidence(side, rsi) = 25
<1>1. CASE rsi = {} BY <1>1 DEF _trend_confidence, _rsi_conflicts
<1>2. CASE rsi # {}
  <2>1. PICK r \in Int : rsi = {r} BY <1>2 DEF Maybe
  <2>2. CASE side = "long" BY <2>1, <2>2 DEF _trend_confidence, _rsi_conflicts
  <2>3. CASE side = "short" BY <2>1, <2>3 DEF _trend_confidence, _rsi_conflicts
  <2> QED BY <2>2, <2>3 DEF Directions
<1> QED BY <1>1, <1>2

\* What is at or above the threshold is a trend whose momentum does not contradict it, and is one of
\* three values.
LEMMA ConfidenceIs ==
    ASSUME NEW c \in Candle
    PROVE  /\ Confidence(c) \in Nat
           /\ Confidence(c) >= CONFIDENCE_THRESHOLD =>
                /\ Confidence(c) \in {60, 65, 75}
                /\ Ready(c) /\ Lean(Regime(c)) \in Directions
                /\ ~_rsi_conflicts(Lean(Regime(c)), c.rsi)
<1> DEFINE side == Lean(Regime(c))
           trend == _trend_confidence(side, c.rsi)
           OffTrend == ~Ready(c) \/ Regime(c) = "chaotic" \/ Regime(c) = "range"
<1>1. CASE OffTrend
  <2>1. Confidence(c) \in {10, 25, 40} BY <1>1 DEF Confidence
  <2> QED BY <2>1 DEF CONFIDENCE_THRESHOLD
<1>2. CASE ~OffTrend
  <2>1. side \in Directions BY <1>2 DEF Regime, Lean, Directions
  <2>2. c.rsi \in Maybe(Int) BY DEF Candle
  <2>3. trend \in {25, 50, 60, 75} /\ (_rsi_conflicts(side, c.rsi) => trend = 25)
    BY <2>1, <2>2, TrendConfidence
  <2>4. Confidence(c) = IF AgainstEma20(c, side) THEN AtLeast(trend - 10, 5) ELSE trend
    BY <1>2 DEF Confidence
  <2>5. AtLeast(trend - 10, 5) = trend - 10
    <3> HIDE DEF trend
    <3> QED BY <2>3 DEF AtLeast
  <2>6. Confidence(c) = trend - 10 \/ Confidence(c) = trend BY <2>4, <2>5
  <2> HIDE DEF trend, side, OffTrend
  <2>7. Ready(c) BY <1>2 DEF OffTrend
  <2>8. /\ Confidence(c) \in Nat
        /\ Confidence(c) >= 55 =>
             Confidence(c) \in {60, 65, 75} /\ ~_rsi_conflicts(side, c.rsi)
    BY <2>3, <2>6
  <2> QED BY <2>1, <2>7, <2>8 DEF CONFIDENCE_THRESHOLD, side
<1> QED BY <1>1, <1>2

\* An analysis acts (engine.py:38) only on averages that are stacked its way and momentum that does
\* not contradict them, at no less than the threshold it was given, with a stop on the losing side.
THEOREM ActsOnItsTrend ==
    ASSUME NEW c \in Candle, NEW threshold \in Int, threshold >= CONFIDENCE_THRESHOLD,
           NEW side \in Directions, analyze_snapshot(c, threshold).action = side
    PROVE  LET a == analyze_snapshot(c, threshold)
           IN  /\ Ready(c) /\ Stack(c) = side /\ ~_rsi_conflicts(side, c.rsi)
               /\ a.confidence >= threshold /\ a.confidence \in {60, 65, 75}
               /\ a.stop = {StopOf(c, side)} /\ a.size = SizeOf(a.confidence)
               /\ The(c.atr) > 0 =>
                    IF side = "long" THEN StopOf(c, side) < The(c.close)
                    ELSE StopOf(c, side) > The(c.close)
<1> DEFINE a == analyze_snapshot(c, threshold)
<1>0. Confidence(c) \in Nat BY ConfidenceIs
<1>1. Confidence(c) >= threshold /\ Lean(Regime(c)) = side
  BY DEF analyze_snapshot, _result, Directions
<1>2. Confidence(c) >= CONFIDENCE_THRESHOLD BY <1>0, <1>1 DEF CONFIDENCE_THRESHOLD
<1>3. Confidence(c) \in {60, 65, 75} /\ Ready(c) /\ ~_rsi_conflicts(side, c.rsi)
  BY <1>1, <1>2, ConfidenceIs
<1>4. a = _result(c, Regime(c), side, Confidence(c)) BY <1>1 DEF analyze_snapshot
<1>5. a.confidence = Confidence(c) /\ a.stop = {StopOf(c, side)} /\ a.size = SizeOf(a.confidence)
  BY <1>4 DEF _result, Directions
<1>6. Stack(c) = side
  <2>1. c.ema20 \in Maybe(Int) /\ c.ema200 \in Maybe(Int) /\ c.close \in Maybe(Int) BY DEF Candle
  <2>2. The(c.ema20) \in Int /\ The(c.ema200) \in Int /\ The(c.close) \in Int
    BY <1>3, <2>1, TheOne DEF Ready
  <2>3. Regime(c) = IF Stack(c) = "long" THEN "trend_up" ELSE "trend_down"
    BY <1>1 DEF Regime, Lean, Directions
  <2>4. 1000 * Distance(The(c.ema20), The(c.ema200)) >= 15 * The(c.close)
    <3>1. Regime(c) \in {"trend_up", "trend_down"} BY <1>1 DEF Lean, Directions
    <3>2. ~(1000 * Distance(The(c.ema20), The(c.ema200)) < 15 * The(c.close)) BY <3>1 DEF Regime
    <3>3. Distance(The(c.ema20), The(c.ema200)) \in Int BY <2>2 DEF Distance
    <3> QED BY <2>2, <3>2, <3>3
  <2>5. The(c.close) > 0 BY <1>3 DEF Ready
  <2>6. The(c.ema20) # The(c.ema200)
    <3>1. SUFFICES ASSUME The(c.ema20) = The(c.ema200) PROVE FALSE OBVIOUS
    <3>2. Distance(The(c.ema20), The(c.ema200)) = 0 BY <2>2, <3>1 DEF Distance
    <3> QED BY <2>2, <2>4, <2>5, <3>2
  <2>7. Stack(c) \in Directions BY <2>2, <2>6 DEF Stack, Directions
  <2> QED BY <1>1, <2>3, <2>7 DEF Lean, Directions
<1>7. ASSUME The(c.atr) > 0
      PROVE  IF side = "long" THEN StopOf(c, side) < The(c.close) ELSE StopOf(c, side) > The(c.close)
  <2>1. c.atr \in Maybe(Nat) /\ c.close \in Maybe(Int) BY DEF Candle
  <2>2. The(c.atr) \in Nat /\ The(c.close) \in Int BY <1>3, <2>1, TheOne DEF Ready
  <2>3. (3 * The(c.atr)) \div 2 > 0 /\ (3 * The(c.atr)) \div 2 \in Int BY <1>7, <2>2, Z3
  <2> QED BY <2>2, <2>3 DEF StopOf
<1> QED BY <1>1, <1>3, <1>5, <1>6, <1>7

LEMMA StopDistance ==
    ASSUME NEW close \in Int, NEW gap \in Nat
    PROVE  Distance(close, close - gap) = gap /\ Distance(close, close + gap) = gap
BY DEF Distance

LEMMA HalfTwice ==
    ASSUME NEW n \in Nat
    PROVE  n \div 2 \in Nat /\ 2 * (n \div 2) <= n
BY Z3

\* What the largest size stays below, every size stays below.
LEMMA SmallerStaysBelow ==
    ASSUME NEW most \in Nat, NEW size \in 0..most, NEW away \in Nat,
           NEW room \in Nat, most * away <= room
    PROVE  size * away <= room
<1>1. PICK rest \in Nat : size + rest = most
  <2> WITNESS most - size \in Nat
  <2> QED OBVIOUS
<1> DEFINE part == size * away
           over == rest * away
<1>2. most * away = part + over BY <1>1
<1>3. part \in Nat /\ over \in Nat OBVIOUS
<1> HIDE DEF part, over
<1>4. part <= part + over BY <1>3
<1>5. part <= room BY <1>2, <1>3, <1>4
<1> QED BY <1>5 DEF part

\* The ceiling of risk per trade refuses none of the analyses at the price they were made at, unless
\* an ATR is more than half of that price: the size and the stop of engine.py:109 stay below the
\* doctrine of caps.py by themselves.
THEOREM OwnRiskIsSmall ==
    ASSUME NEW c \in Candle, NEW threshold \in Int, threshold >= CONFIDENCE_THRESHOLD,
           NEW side \in Directions, analyze_snapshot(c, threshold).action = side,
           2 * The(c.atr) <= The(c.close)
    PROVE  analyze_snapshot(c, threshold).size * Distance(The(c.close), StopOf(c, side))
               <= 100 * HARD_MAX_RISK_PER_TRADE_PCT * The(c.close)
<1> DEFINE size == analyze_snapshot(c, threshold).size
           away == Distance(The(c.close), StopOf(c, side))
           atr == The(c.atr)
           close == The(c.close)
<1>1. size \in 0..11250
  <2>1. /\ analyze_snapshot(c, threshold).confidence \in {60, 65, 75}
        /\ size = SizeOf(analyze_snapshot(c, threshold).confidence)
    BY ActsOnItsTrend
  <2>2. SizeOf(60) = 9000 /\ SizeOf(65) = 9750 /\ SizeOf(75) = 11250
    BY Z3 DEF SizeOf, AtMost, BASE_SIZE_PCT, MAX_SIZE_PCT
  <2>3. size \in {9000, 9750, 11250}
    <3> HIDE DEF size
    <3> QED BY <2>1, <2>2
  <2> HIDE DEF size
  <2> QED BY <2>3
<1>2. atr \in Nat /\ close \in Int /\ close > 0
  <2>1. Ready(c) BY ActsOnItsTrend
  <2>2. c.atr \in Maybe(Nat) /\ c.close \in Maybe(Int) BY DEF Candle
  <2> QED BY <2>1, <2>2, TheOne DEF Ready
<1>3. away \in Nat /\ 4 * away <= 3 * close
  <2>1. (3 * atr) \div 2 \in Nat /\ 2 * ((3 * atr) \div 2) <= 3 * atr
    <3>1. PICK thrice \in Nat : thrice = 3 * atr BY <1>2
    <3>2. thrice \div 2 \in Nat /\ 2 * (thrice \div 2) <= thrice
      BY <3>1, HalfTwice
    <3> QED BY <3>1, <3>2
  <2>2. away = (3 * atr) \div 2
    BY <1>2, <2>1, StopDistance DEF StopOf
  <2> QED BY <1>2, <2>1, <2>2
<1>4. PICK most \in Nat : most = 11250 OBVIOUS
<1>5. PICK room \in Nat : room = 10000 * close BY <1>2
<1>6. size \in 0..most /\ most * away <= room
  <2> HIDE DEF size, away, close
  <2>1. 11250 * away <= 10000 * close BY <1>2, <1>3
  <2> QED BY <1>1, <2>1, <1>4, <1>5
<1>7. size * away <= room BY <1>3, <1>6, SmallerStaysBelow
<1> QED BY <1>5, <1>7 DEF HARD_MAX_RISK_PER_TRADE_PCT

\* The higher timeframe (engine.py:124) only ever flattens: what still acts is the analysis it was,
\* and the higher bar leans its way.  What it flattens carries neither size nor stop, but keeps its
\* confidence.
THEOREM HigherOnlyNarrows ==
    ASSUME NEW c, NEW higher, NEW threshold
    PROVE  LET alone == analyze_snapshot(c, threshold)
               a == analyze_mtf(c, higher, threshold)
           IN  /\ a.action \in Directions =>
                    a = alone /\ higher # {} /\ Lean(Regime(The(higher))) = a.action
               /\ a.action \notin Directions => a.size = 0 /\ a.stop = {}
               /\ a.confidence = alone.confidence
<1> DEFINE alone == analyze_snapshot(c, threshold)
           a == analyze_mtf(c, higher, threshold)
<1>1. /\ alone.action \in Directions \cup {"flat"}
      /\ alone.action = "flat" => alone.size = 0 /\ alone.stop = {}
      /\ \A reason : LET forced == _force_flat(alone, reason)
                     IN  /\ forced.action = "flat" /\ forced.size = 0 /\ forced.stop = {}
                         /\ forced.confidence = alone.confidence
  BY DEF analyze_snapshot, _result, _force_flat, Lean, Directions
<1>2. "flat" \notin Directions BY DEF Directions
<1>3. \/ \E reason : a = _force_flat(alone, reason)
      \/ a = alone /\ higher # {} /\ (alone.action = "flat" \/ alone.action = Lean(Regime(The(higher))))
  BY DEF analyze_mtf
<1> HIDE DEF a, alone
<1> QED BY <1>1, <1>2, <1>3 DEF a, alone

\* The channel of the replay's strategy (strategies.py:66) leaves room: on no bar would it enter a
\* position that, if it were held already, it would leave.
THEOREM EntryIsNoExit ==
    ASSUME NEW past \in Seq(Candle),
           \A i \in DOMAIN past :
               \A low \in past[i].low, high \in past[i].high : low <= high,
           \A i \in DOMAIN past : past[i].low # {},
           _donchian_long(past, "none").action = "long"
    PROVE  _donchian_long(past, "long").action = "long"
<1> DEFINE n == Len(past)
           c == past[n]
           close == The(c.close)
<1>1. n \in Nat /\ n > DONCHIAN_LOOKBACK /\ AboveChannel(past)
      /\ (\E x \in c.close : x > 0) /\ (\E x \in c.atr : x > 0)
  BY DEF _donchian_long, _result
<1>2. close \in Int
  <2>1. c \in Candle BY <1>1 DEF DONCHIAN_LOOKBACK
  <2>2. c.close \in Maybe(Int) BY <2>1 DEF Candle
  <2> QED BY <1>1, <2>2, TheOne
<1>3. PICK i \in DOMAIN past : i = n - 1 BY <1>1 DEF DONCHIAN_LOOKBACK
<1>4. past[i] \in Before(past, DONCHIAN_EXIT_LOOKBACK) /\ past[i] \in Before(past, DONCHIAN_LOOKBACK)
  BY <1>1, <1>3 DEF Before, DONCHIAN_LOOKBACK, DONCHIAN_EXIT_LOOKBACK
<1>5. \A b \in Before(past, DONCHIAN_EXIT_LOOKBACK) : b.low # {} BY DEF Before
<1>6. ~(close < The(past[i].low))
  <2>1. PICK high \in past[i].high : close > high BY <1>1, <1>4 DEF AboveChannel
  <2>2. past[i] \in Candle BY <1>3
  <2>3. past[i].low \in Maybe(Int) /\ past[i].high \in Maybe(Int) BY <2>2 DEF Candle
  <2>4. The(past[i].low) \in past[i].low /\ The(past[i].low) \in Int
    BY <1>5, <1>4, <2>3, TheOne
  <2>5. high \in Int BY <2>1, <2>3 DEF Maybe
  <2>6. The(past[i].low) <= high BY <2>1, <2>4
  <2> QED BY <1>2, <2>1, <2>4, <2>5, <2>6
<1>7. ~BelowChannel(past) BY <1>4, <1>5, <1>6 DEF BelowChannel
<1> QED BY <1>1, <1>7 DEF _donchian_long, _result

\* A replay (replay.py:31) knows of the higher timeframe what had closed by then: bars that close
\* later do not change what it is told.  And once every bar that is stored has closed and is warm,
\* it asks the bar the live rule asks.
THEOREM ReplaySeesThePast ==
    ASSUME NEW bars \in Seq(Candle), NEW at \in Int, NEW lasting \in Nat
    PROVE  /\ \A bar \in Candle : bar.bar + lasting > at =>
                closed_htf_candle(Append(bars, bar), at, lasting) = closed_htf_candle(bars, at, lasting)
           /\ (\A i \in DOMAIN bars : bars[i].bar + lasting <= at /\ bars[i].ema200 # {}) =>
                closed_htf_candle(bars, at, lasting) = load_latest_candle(bars)
<1> DEFINE Closed(s) == {i \in DOMAIN s : s[i].ema200 # {} /\ s[i].bar + lasting <= at}
           Newest(S) == {j \in S : \A k \in S : k <= j}
<1>0. \A s : closed_htf_candle(s, at, lasting) = {s[i] : i \in Newest(Closed(s))}
  BY DEF closed_htf_candle
<1>1. ASSUME NEW bar \in Candle, bar.bar + lasting > at
      PROVE  closed_htf_candle(Append(bars, bar), at, lasting) = closed_htf_candle(bars, at, lasting)
  <2> DEFINE more == Append(bars, bar)
  <2>1. /\ Len(bars) \in Nat /\ DOMAIN bars = 1..Len(bars)
        /\ DOMAIN more = 1..(Len(bars) + 1)
        /\ more[Len(bars) + 1] = bar
        /\ \A i \in 1..Len(bars) : more[i] = bars[i]
    OBVIOUS
  <2>2. ~(bar.bar + lasting <= at)
    <3>1. bar.bar \in Int BY DEF Candle
    <3> QED BY <1>1, <3>1
  <2>3. Closed(more) = Closed(bars) BY <2>1, <2>2
  <2>4. \A i \in Newest(Closed(bars)) : more[i] = bars[i] BY <2>1
  <2>5. closed_htf_candle(more, at, lasting) = {more[i] : i \in Newest(Closed(bars))}
    BY <1>0, <2>3
  <2>6. {more[i] : i \in Newest(Closed(bars))} = {bars[i] : i \in Newest(Closed(bars))} BY <2>4
  <2> HIDE DEF Newest, Closed, more
  <2>7. closed_htf_candle(more, at, lasting) = closed_htf_candle(bars, at, lasting)
    BY <1>0, <2>5, <2>6
  <2> QED BY <2>7 DEF more
<1>2. ASSUME \A i \in DOMAIN bars : bars[i].bar + lasting <= at /\ bars[i].ema200 # {}
      PROVE  closed_htf_candle(bars, at, lasting) = load_latest_candle(bars)
  <2>1. Closed(bars) = 1..Len(bars) BY <1>2
  <2>2. CASE bars = <<>> BY <1>0, <2>1, <2>2 DEF load_latest_candle
  <2>3. CASE bars # <<>>
    <3>1. Len(bars) \in Nat /\ Len(bars) > 0 BY <2>3
    <3>2. Newest(1..Len(bars)) = {Len(bars)} BY <3>1
    <3> QED BY <1>0, <2>1, <2>3, <3>2 DEF load_latest_candle
  <2> QED BY <2>2, <2>3
<1> QED BY <1>1, <1>2

-----------------------------------------------------------------------------
(* The gate of auto-decide.                                                *)

Latch == [latched : BOOLEAN, at : SUBSET Int, n : SUBSET Int, pnl : SUBSET Int]

\* Only the owner opens the gate (feedback.py:285): once latched it stays, with the time and the
\* sample of its first block, however the sample, the settings and the time go on, the gate switched
\* off included.  It does not latch on fewer trips than the settings ask for, nor while it is off.
THEOREM GateWaitsForOwner ==
    ASSUME NEW latch \in Latch, NEW gate, NEW outcomes, NEW t
    PROVE  LET status == auto_ev_gate_status(latch, gate, outcomes, t)
               sample == AutoSince(outcomes, t - gate.window)
           IN  /\ latch.latched => status.latch = latch /\ status.blocked /\ status.enabled
               /\ ~latch.latched /\ (gate.min_ev = {} \/ ~(Cardinality(sample) >= gate.min_n)) =>
                    status.latch = latch /\ ~status.blocked
<1>1. \A sample : SampleBlocks(gate, sample) => gate.min_ev # {} /\ Cardinality(sample) >= gate.min_n
  BY DEF SampleBlocks
<1> QED BY <1>1 DEF auto_ev_gate_status, AskedGate, latch_ev_gate, read_ev_gate_latch

\* The reset of the owner (feedback.py:250) lasts as long as nobody asks, while the trips that closed
\* the gate are within its window: whoever asks next, the answer of the reset first of all, latches
\* it again.
THEOREM ResetNeedsBetterSample ==
    ASSUME NEW latch \in Latch, NEW reason \in Int, NEW gate, NEW outcomes, NEW t,
           SampleBlocks(gate, AutoSince(outcomes, t - gate.window))
    PROVE  /\ auto_ev_gate_status(reset_ev_gate_latch(latch), gate, outcomes, t).blocked
           /\ reason >= OWNER_REASON_MIN =>
                api_paper_ev_gate_reset(latch, reason, gate, outcomes, t).latched
<1>1. ASSUME NEW any \in Latch PROVE auto_ev_gate_status(any, gate, outcomes, t).latch.latched
  BY DEF auto_ev_gate_status, AskedGate, latch_ev_gate, read_ev_gate_latch
<1>2. reset_ev_gate_latch(latch) \in Latch BY DEF reset_ev_gate_latch, Latch
<1>3. auto_ev_gate_status(reset_ev_gate_latch(latch), gate, outcomes, t).latch.latched
  BY <1>1, <1>2
<1>4. auto_ev_gate_status(reset_ev_gate_latch(latch), gate, outcomes, t).blocked
  BY <1>3 DEF auto_ev_gate_status, read_ev_gate_latch
<1>5. ASSUME reason >= OWNER_REASON_MIN
      PROVE  api_paper_ev_gate_reset(latch, reason, gate, outcomes, t).latched
  <2>1. ~(reason < OWNER_REASON_MIN) BY <1>5 DEF OWNER_REASON_MIN
  <2> QED BY <1>3, <2>1 DEF api_paper_ev_gate_reset
<1> QED BY <1>4, <1>5
==============================================================================
