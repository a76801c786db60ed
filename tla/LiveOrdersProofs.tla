-------------------------- MODULE LiveOrdersProofs --------------------------
(***************************************************************************)
(* OneBuyPerApproval and BuysCountedOnce for any number of approvals,      *)
(* calls of one approval, sellers and reconciles, whatever is lost or      *)
(* dies.  What carries them: between the query that found the venue        *)
(* without an id and the POST, no order of it appears unless another call  *)
(* of the approval stands at its POST too; and where the calls of an       *)
(* approval came one after the other, the row that holds its fill is the   *)
(* last one of that id, by its place and by its time, agrees with the      *)
(* venue, and reconcile can only write the same fill again.                *)
(***************************************************************************)
EXTENDS LiveOrders, SequenceTheorems, FiniteSetTheorems, TLAPS

Fields  == {"pc", "cid", "at", "stops", "cancelled", "errs", "qty", "got", "recovered", "stop"}
RFields == {"pc", "rows", "copy", "at", "got"}
Columns == {"cid", "at", "type", "side", "status", "done", "term"}

\* The buys that no two calls saw the venue without at once, and those whose calls
\* came one after the other.
Alone == {IdOf(a) : a \in Longs \ raced}
Clean == {IdOf(a) : a \in Longs \ doubled}

SeqLike(s) == s \in Seq({s[n] : n \in DOMAIN s})
Filled(s)  == s \in {"filled", "partially_filled"}

\* An order and a row that carry a buy's id.
OrderOK(o) ==
    o.cid \in BuyIds =>
        o.type = "MARKET" /\ o.qty = BuyQty /\ o.done \in 0..BuyQty /\ o.open = FALSE

RowOK(row) ==
    /\ DOMAIN row = Columns
    /\ row.cid \in BuyIds =>
          /\ row.type = "MARKET"
          /\ row.at \in 1..time
          /\ row.done \in 0..BuyQty
          /\ row.done > 0 => Filled(row.status)
          /\ row.status \in OpenStatus => row.done > 0

VenueShape ==
    /\ SeqLike(venue)
    /\ \A m \in DOMAIN venue : DOMAIN venue[m] = DOMAIN NoOrder /\ OrderOK(venue[m])

OneOrder ==
    \A m, k \in DOMAIN venue : venue[m].cid = venue[k].cid /\ venue[m].cid \in Alone => m = k

LedgerShape == SeqLike(ledger) /\ \A n \in DOMAIN ledger : RowOK(ledger[n])

\* The venue has an order for every fill that is written down, and where the calls
\* came one after the other it is this fill.
Backed ==
    \A n \in DOMAIN ledger : ledger[n].cid \in BuyIds /\ ledger[n].done > 0 =>
        Of(venue, ledger[n].cid) # {}
FillBacked ==
    \A n \in DOMAIN ledger : ledger[n].cid \in Clean /\ ledger[n].done > 0 =>
        \E m \in DOMAIN venue : /\ venue[m].cid = ledger[n].cid
                                /\ venue[m].done = ledger[n].done

\* No row of the same id follows it.
FillIsLast ==
    \A n, k \in DOMAIN ledger :
        /\ ledger[n].cid \in Clean /\ ledger[k].cid = ledger[n].cid
        /\ ledger[n].done > 0
        => k <= n /\ ledger[k].at <= ledger[n].at

Facts == OneOrder /\ Backed /\ FillBacked /\ FillIsLast

NoFill(cid)    == \A n \in DOMAIN ledger : ledger[n].cid = cid => ledger[n].done = 0
Since(cid, at) == \A n \in DOMAIN ledger : ledger[n].cid = cid => ledger[n].at <= at
Listed(o)      == \E m \in DOMAIN venue : venue[m] = o

\* A call under a buy's id has found what it goes by; a call under another id
\* handles no row, order or stop of a buy.
BuySteps == {"inventory", "lookup", "query", "post", "requery", "record", "stop", "stopped"}
Buying(p) ==
    task[p].cid \in BuyIds =>
        /\ task[p].pc \in BuySteps
        /\ task[p].at \in 1..time
        /\ task[p].pc = "post" /\ task[p].cid \in Alone => Of(venue, task[p].cid) = {}
        /\ task[p].pc = "record" => Listed(task[p].got)
        /\ task[p].cid \in Clean =>
               /\ task[p].pc \in {"query", "post", "requery", "record"} => NoFill(task[p].cid)
               /\ Since(task[p].cid, task[p].at)

Selling(p) ==
    /\ task[p].pc = "record" => task[p].got.cid = task[p].cid
    /\ task[p].pc = "cancelled" => task[p].stops # {}
    /\ task[p].pc \in {"cancel", "cancelled"} =>
           task[p].stops \subseteq {n \in DOMAIN ledger : ledger[n].cid \notin BuyIds}
    /\ task[p].pc \in {"stop", "stopped"} => task[p].stop \notin BuyIds
    /\ task[p].pc = "stopped" => task[p].got.cid \notin BuyIds

TaskOK(p) == DOMAIN task[p] = Fields /\ Buying(p) /\ Selling(p)
Tasks == DOMAIN task = Caller /\ task = [p \in Caller |-> task[p]] /\ \A p \in Caller : TaskOK(p)

\* What the history says of the calls that run.
OneCall ==
    \A p, q \in Caller : task[p].cid \in Clean /\ task[q].cid = task[p].cid => p = q
OnePost ==
    \A p, q \in Caller :
        /\ task[p].cid \in Alone /\ task[q].cid = task[p].cid
        /\ task[p].pc = "post" /\ task[q].pc = "post"
        => p = q
Calls == OneCall /\ OnePost /\ Clean \subseteq Alone

Clock == time \in 1..MaxTime

\* A listed row is an older reading of the row it will be written to.
CopyOK(r) ==
    \A n \in DOMAIN recon[r].copy :
        /\ n \in DOMAIN ledger
        /\ DOMAIN recon[r].copy[n] = Columns
        /\ recon[r].copy[n].cid = ledger[n].cid
        /\ recon[r].copy[n].at = ledger[n].at
        /\ ledger[n].cid \in BuyIds => recon[r].copy[n].type = "MARKET"
        /\ ledger[n].cid \in BuyIds /\ recon[r].copy[n].status \in OpenStatus =>
               /\ Of(venue, ledger[n].cid) # {}
               /\ ledger[n].cid \in Clean => ledger[n].done > 0

ToWrite(r) == {n \in DOMAIN recon[r].copy : recon[r].copy[n].status \in OpenStatus}

ReconOK(r) ==
    /\ DOMAIN recon[r] = RFields
    /\ CopyOK(r)
    /\ recon[r].rows \subseteq ToWrite(r)
    /\ recon[r].pc = "write" =>
           /\ recon[r].at \in ToWrite(r)
           /\ recon[r].copy[recon[r].at].cid \in BuyIds =>
                  /\ Listed(recon[r].got)
                  /\ recon[r].got.cid = recon[r].copy[recon[r].at].cid

Recons ==
    /\ DOMAIN recon = Reconcilers /\ recon = [r \in Reconcilers |-> recon[r]]
    /\ \A r \in Reconcilers : ReconOK(r)

LiveInv ==
    /\ Clock /\ Calls
    /\ VenueShape /\ LedgerShape /\ Facts
    /\ Tasks /\ Recons
-----------------------------------------------------------------------------
(***************************************************************************)
(* Ids, extremes of sets of positions, and what a sequence grows to.       *)
(***************************************************************************)
LEMMA OtherTags ==
    /\ <<>> \notin BuyIds
    /\ \A x : <<"f", x>> \notin BuyIds /\ <<"x", x>> \notin BuyIds
              /\ <<"xr", x>> \notin BuyIds
    /\ \A a : IdOf(a) \in BuyIds => a \in Longs
    /\ \A a, b : IdOf(a) = IdOf(b) => a = b
    /\ Alone \subseteq BuyIds /\ Clean \subseteq BuyIds
    /\ \A a : /\ IdOf(a) \in Alone <=> a \in Longs /\ a \notin raced
             /\ IdOf(a) \in Clean <=> a \in Longs /\ a \notin doubled
BY DEF BuyIds, IdOf, Alone, Clean

LEMMA MinIn ==
    ASSUME NEW S \in SUBSET Nat, S # {}
    PROVE  Min(S) \in S /\ \A n \in S : Min(S) <= n
<1> DEFINE Upto == {0..n : n \in S}
<1>1. \A n \in S : IsFiniteSet(0..n) /\ 0..n \in SUBSET Nat
  BY FS_Interval
<1>2. Upto \subseteq FiniteSubsetsOf(Nat) /\ Upto # {}
  BY <1>1 DEF FiniteSubsetsOf
<1> HIDE DEF Upto
<1>3. PICK x \in Upto : \A y \in Upto : <<y, x>> \notin StrictSubsetOrdering(Nat)
  BY <1>2, FS_StrictSubsetOrderingWellFounded, WFMin
<1>4. PICK m \in S : x = 0..m BY DEF Upto
<1>5. ASSUME NEW n \in S, n < m PROVE FALSE
  <2>1. 0..n \in Upto BY DEF Upto
  <2>2. 0..n \subseteq 0..m /\ m \in 0..m /\ m \notin 0..n BY <1>5
  <2>3. <<0..n, 0..m>> \in StrictSubsetOrdering(Nat)
    BY <1>1, <2>2 DEF StrictSubsetOrdering
  <2> QED BY <1>3, <1>4, <2>1, <2>3
<1>6. \A n \in S : m <= n BY <1>5
<1> QED BY <1>6 DEF Min

LEMMA MaxIn ==
    ASSUME NEW N \in Nat, NEW S \in SUBSET (0..N), S # {}
    PROVE  Max(S) \in S /\ \A n \in S : n <= Max(S)
<1> DEFINE R == {N - n : n \in S}
<1>1. R \in SUBSET Nat /\ R # {}
  <2>1. \A n \in S : N - n \in Nat /\ N - n \in R OBVIOUS
  <2>2. R \subseteq Nat BY <2>1
  <2> QED BY <2>1, <2>2
<1>2. PICK r \in R : \A q \in R : r <= q
  BY <1>1, MinIn
<1>3. PICK m \in S : r = N - m OBVIOUS
<1>4. \A n \in S : m >= n
  <2> TAKE n \in S
  <2>1. N - n \in R OBVIOUS
  <2>2. N - m <= N - n BY <1>2, <1>3, <2>1
  <2> QED BY <2>2
<1> HIDE DEF R
<1> QED BY <1>4 DEF Max

LEMMA Positions ==
    ASSUME NEW s, SeqLike(s)
    PROVE  Len(s) \in Nat /\ DOMAIN s = 1..Len(s)
BY LenProperties DEF SeqLike

LEMMA Grown ==
    ASSUME NEW s, SeqLike(s), NEW e
    PROVE  /\ SeqLike(Append(s, e))
           /\ DOMAIN Append(s, e) = DOMAIN s \cup {Len(s) + 1}
           /\ Len(s) + 1 \notin DOMAIN s
           /\ \A n \in DOMAIN s : n < Len(s) + 1
           /\ \A n \in DOMAIN s : Append(s, e)[n] = s[n]
           /\ Append(s, e)[Len(s) + 1] = e
<1> DEFINE S == {s[n] : n \in DOMAIN s}
           T == S \cup {e}
<1>1. s \in Seq(T) /\ e \in T
  BY SeqMonotonic DEF SeqLike
<1>2. /\ Append(s, e) \in Seq(T)
      /\ Len(Append(s, e)) = Len(s) + 1
      /\ \A n \in 1..Len(s) : Append(s, e)[n] = s[n]
      /\ Append(s, e)[Len(s) + 1] = e
  BY <1>1, AppendProperties
<1>3. Len(s) \in Nat /\ DOMAIN s = 1..Len(s) BY Positions
<1>4. DOMAIN Append(s, e) = 1..(Len(s) + 1)
  BY <1>2, LenProperties
<1>5. {Append(s, e)[n] : n \in DOMAIN Append(s, e)} = T
  BY <1>2, <1>3, <1>4
<1> QED BY <1>2, <1>3, <1>4, <1>5 DEF SeqLike

LEMMA Rewritten ==
    ASSUME NEW s, SeqLike(s), NEW t, DOMAIN t = DOMAIN s, t = [n \in DOMAIN s |-> t[n]]
    PROVE  SeqLike(t)
<1> DEFINE T == {t[n] : n \in DOMAIN t}
<1>1. Len(s) \in Nat /\ DOMAIN s = 1..Len(s) BY Positions
<1>2. t \in [1..Len(s) -> T] BY <1>1
<1>3. t \in Seq(T) BY <1>1, <1>2, SeqDef
<1> QED BY <1>3 DEF SeqLike

\* The order an id is answered with is the venue's, and carries it.
LEMMA Answered ==
    ASSUME VenueShape, NEW cid
    PROVE  /\ KnownTo(venue, cid) # NoOrder => Of(venue, cid) # {}
           /\ cid # <<>> /\ Of(venue, cid) # {} => KnownTo(venue, cid) # NoOrder
           /\ Of(venue, cid) # {} => /\ Listed(KnownTo(venue, cid))
                                     /\ KnownTo(venue, cid).cid = cid
<1>1. Len(venue) \in Nat /\ DOMAIN venue = 1..Len(venue)
  BY Positions DEF VenueShape
<1>2. Of(venue, cid) \in SUBSET (0..Len(venue)) BY <1>1 DEF Of
<1>3. Of(venue, cid) # {} => Max(Of(venue, cid)) \in Of(venue, cid)
  BY <1>1, <1>2, MaxIn
<1>4. NoOrder.cid = <<>> BY DEF NoOrder
<1> QED BY <1>3, <1>4 DEF KnownTo, Of, Listed

\* The latest of some rows of a buy, where the last one is none before the others.
LEMMA Latest ==
    ASSUME LiveInv, NEW cid \in BuyIds, NEW n \in Of(ledger, cid),
           \A k \in Of(ledger, cid) : k <= n /\ ledger[k].at <= ledger[n].at
    PROVE  LatestIn(Of(ledger, cid)) = n
<1> DEFINE rows  == Of(ledger, cid)
           times == {ledger[k].at : k \in rows}
           t     == Max(times)
           last  == {k \in rows : ledger[k].at = t}
<1>1. Len(ledger) \in Nat /\ DOMAIN ledger = 1..Len(ledger)
  BY Positions DEF LiveInv, LedgerShape
<1>2. \A k \in rows : k \in 1..Len(ledger) /\ ledger[k].at \in 1..time
  BY <1>1 DEF LiveInv, LedgerShape, RowOK, Of
<1>3. time \in Nat BY DEF LiveInv, Clock
<1>4. t = ledger[n].at
  <2>1. times \in SUBSET (0..time) /\ ledger[n].at \in times BY <1>2, <1>3
  <2>2. t \in times /\ ledger[n].at <= t BY <1>3, <2>1, MaxIn
  <2>3. t <= ledger[n].at BY <2>2
  <2> QED BY <1>2, <1>3, <2>1, <2>2, <2>3
<1>5. last \in SUBSET (0..Len(ledger)) /\ n \in last BY <1>1, <1>2, <1>4
<1>6. Max(last) \in last /\ n <= Max(last)
  <2> HIDE DEF last
  <2> QED BY <1>1, <1>5, MaxIn
<1>7. Max(last) \in Nat /\ n \in Nat /\ Max(last) <= n BY <1>1, <1>2, <1>6
<1>8. Max(last) = n BY <1>6, <1>7
<1> QED BY <1>8 DEF LatestIn

\* A row that holds a fill answers for its id.
LEMMA FillIsHeld ==
    ASSUME LiveInv, NEW cid \in Clean, ~LedgerHolds(cid)
    PROVE  NoFill(cid)
<1> SUFFICES ASSUME NEW n \in DOMAIN ledger, ledger[n].cid = cid, ledger[n].done # 0
             PROVE  FALSE
  BY DEF NoFill
<1>1. cid \in BuyIds BY OtherTags
<1>2. RowOK(ledger[n]) BY DEF LiveInv, LedgerShape
<1>3. ledger[n].done > 0 /\ Filled(ledger[n].status)
  BY <1>1, <1>2, LotAssumption DEF RowOK
<1>4. n \in Of(ledger, cid) BY DEF Of
<1>5. \A k \in Of(ledger, cid) : k <= n /\ ledger[k].at <= ledger[n].at
  BY <1>3 DEF LiveInv, Facts, FillIsLast, Of
<1>6. LatestIn(Of(ledger, cid)) = n BY <1>1, <1>4, <1>5, Latest
<1> QED
  BY <1>3, <1>4, <1>6 DEF LedgerHolds, LatestStatus, VENUE_HAS_ORDER_STATUSES, Filled
-----------------------------------------------------------------------------
(***************************************************************************)
(* How a step moves the venue, the ledger, the clock and the history.  C   *)
(* names the buys that gain no order or no row.                            *)
(***************************************************************************)
Forward ==
    /\ time \in Nat /\ time' \in Nat /\ time <= time'
    /\ Alone' \subseteq Alone /\ Clean' \subseteq Clean

VenueGrows(C) ==
    /\ VenueShape'
    /\ \A m \in DOMAIN venue :
           m \in DOMAIN venue' /\ (venue[m].cid \in BuyIds => venue'[m] = venue[m])
    /\ \A m \in DOMAIN venue' :
           venue'[m].cid \in C => m \in DOMAIN venue /\ venue[m].cid = venue'[m].cid

LedgerGrows(C) ==
    /\ LedgerShape'
    /\ \A n \in DOMAIN ledger :
           /\ n \in DOMAIN ledger' /\ ledger'[n].cid = ledger[n].cid
           /\ ledger'[n].at = ledger[n].at
           /\ ledger[n].cid \in Clean' => ledger'[n].done = ledger[n].done
    /\ \A n \in DOMAIN ledger' :
           /\ ledger'[n].cid \in C => n \in DOMAIN ledger
           /\ ledger'[n].cid \in BuyIds /\ ledger'[n].done > 0 =>
                  Of(venue, ledger'[n].cid) # {}

LEMMA Stands ==
    ASSUME LiveInv, UNCHANGED <<time, history>>
    PROVE  Forward /\ Clock' /\ Alone' = Alone /\ Clean' = Clean
BY DEF LiveInv, Clock, Forward, Alone, Clean, history

LEMMA RowStays ==
    ASSUME NEW row, RowOK(row), Forward
    PROVE  RowOK(row)'
BY DEF RowOK, Forward, Filled, OpenStatus

LEMMA VenueSame ==
    ASSUME VenueShape, venue' = venue, NEW C
    PROVE  VenueGrows(C)
BY DEF VenueShape, VenueGrows

LEMMA VenueAppends ==
    ASSUME VenueShape, NEW o, venue' = Append(venue, o), OrderOK(o),
           DOMAIN o = DOMAIN NoOrder, NEW C, o.cid \notin C
    PROVE  VenueGrows(C)
<1>1. SeqLike(venue) BY DEF VenueShape
<1>2. /\ SeqLike(venue')
      /\ DOMAIN venue' = DOMAIN venue \cup {Len(venue) + 1}
      /\ \A m \in DOMAIN venue : venue'[m] = venue[m]
      /\ venue'[Len(venue) + 1] = o
  BY <1>1, Grown
<1> QED BY <1>2 DEF VenueShape, VenueGrows

LEMMA VenueCloses ==
    ASSUME VenueShape, NEW cid, venue' = Closed(cid), NEW C
    PROVE  VenueGrows(C)
<1>1. DOMAIN venue' = DOMAIN venue /\ venue' = [m \in DOMAIN venue |-> venue'[m]]
  BY DEF Closed
<1>2. SeqLike(venue') BY <1>1, Rewritten DEF VenueShape
<1>3. ASSUME NEW m \in DOMAIN venue
      PROVE  /\ DOMAIN venue'[m] = DOMAIN NoOrder /\ OrderOK(venue'[m])
             /\ venue'[m].cid = venue[m].cid
             /\ venue[m].cid \in BuyIds => venue'[m] = venue[m]
  <2>1. DOMAIN venue[m] = DOMAIN NoOrder /\ OrderOK(venue[m]) BY DEF VenueShape
  <2>2. CASE m \in OpenOf(cid)
    <3>1. venue[m].open /\ venue'[m] = [venue[m] EXCEPT !.open = FALSE]
      BY <2>2 DEF Closed, OpenOf
    <3> QED BY <2>1, <3>1 DEF OrderOK, NoOrder
  <2>3. CASE m \notin OpenOf(cid)
    BY <2>1, <2>3 DEF Closed
  <2> QED BY <2>2, <2>3
<1> QED BY <1>1, <1>2, <1>3 DEF VenueShape, VenueGrows

LEMMA LedgerSame ==
    ASSUME LedgerShape, Backed, Forward, ledger' = ledger, NEW C
    PROVE  LedgerGrows(C)
<1>1. LedgerShape' BY RowStays DEF LedgerShape
<1> QED BY <1>1 DEF LedgerGrows, Backed

LEMMA LedgerInserts ==
    ASSUME LedgerShape, Backed, Forward, NEW row, ledger' = Inserted(row), RowOK(row),
           NEW C, row.cid \notin C,
           row.cid \in BuyIds /\ row.done > 0 => Of(venue, row.cid) # {}
    PROVE  LedgerGrows(C)
<1>1. CASE ledger' = ledger BY <1>1, LedgerSame
<1>2. CASE ledger' = Append(ledger, row)
  <2>1. SeqLike(ledger) BY DEF LedgerShape
  <2>2. /\ SeqLike(ledger')
        /\ DOMAIN ledger' = DOMAIN ledger \cup {Len(ledger) + 1}
        /\ \A n \in DOMAIN ledger : ledger'[n] = ledger[n]
        /\ ledger'[Len(ledger) + 1] = row
    BY <1>2, <2>1, Grown
  <2>3. \A n \in DOMAIN ledger' : RowOK(ledger'[n]) BY <2>2 DEF LedgerShape
  <2>4. LedgerShape' BY <2>2, <2>3, RowStays DEF LedgerShape
  <2> QED BY <2>2, <2>4 DEF LedgerGrows, Backed
<1> QED BY <1>1, <1>2 DEF Inserted

LEMMA LedgerRewrites ==
    ASSUME LedgerShape, Backed, Forward, NEW n \in DOMAIN ledger, NEW row,
           ledger' = [ledger EXCEPT ![n] = row], RowOK(row),
           row.cid = ledger[n].cid, row.at = ledger[n].at,
           row.cid \in Clean => row.done = ledger[n].done,
           row.cid \in BuyIds /\ row.done > 0 => Of(venue, row.cid) # {}, NEW C
    PROVE  LedgerGrows(C)
<1>1. /\ DOMAIN ledger' = DOMAIN ledger
      /\ ledger' = [k \in DOMAIN ledger |-> ledger'[k]]
      /\ \A k \in DOMAIN ledger : ledger'[k] = IF k = n THEN row ELSE ledger[k]
  OBVIOUS
<1>2. SeqLike(ledger') BY <1>1, Rewritten DEF LedgerShape
<1>3. \A k \in DOMAIN ledger' : RowOK(ledger'[k]) BY <1>1 DEF LedgerShape
<1>4. LedgerShape' BY <1>2, <1>3, RowStays DEF LedgerShape
<1>5. Clean' \subseteq Clean BY DEF Forward
<1> QED BY <1>1, <1>4, <1>5 DEF LedgerGrows, Backed

\* Written fills have their orders.
LEMMA StaysBacked ==
    ASSUME NEW C, NEW D, VenueGrows(C), LedgerGrows(D)
    PROVE  Backed'
BY DEF Backed, VenueGrows, LedgerGrows, Of

\* When no buy gains an order or a row, what holds of them stays.
LEMMA NoGain ==
    ASSUME Facts, Forward, VenueGrows(BuyIds), LedgerGrows(BuyIds)
    PROVE  Facts'
<1>1. Alone' \subseteq Alone /\ Clean' \subseteq Clean /\ Alone \subseteq BuyIds
      /\ Clean \subseteq BuyIds
  BY OtherTags DEF Forward
<1>2. OneOrder'
  BY <1>1 DEF Facts, OneOrder, VenueGrows
<1>3. ASSUME NEW n \in DOMAIN ledger', ledger'[n].cid \in Clean'
      PROVE  /\ n \in DOMAIN ledger /\ ledger'[n].cid = ledger[n].cid
             /\ ledger'[n].done = ledger[n].done /\ ledger'[n].at = ledger[n].at
             /\ ledger[n].cid \in Clean
  BY <1>1, <1>3 DEF LedgerGrows
<1>4. FillBacked'
  BY <1>1, <1>3 DEF Facts, FillBacked, VenueGrows
<1>5. FillIsLast'
  BY <1>3 DEF Facts, FillIsLast
<1> QED BY <1>2, <1>4, <1>5, StaysBacked DEF Facts

\* A row of a buy that holds no fill yet, or that is the first to hold it.
LEMMA GainsRow ==
    ASSUME LiveInv, Forward, NEW row, ledger' = Inserted(row), RowOK(row), venue' = venue,
           row.cid \in Clean => NoFill(row.cid) /\ Since(row.cid, row.at),
           row.cid \in BuyIds /\ row.done > 0 =>
               \E m \in DOMAIN venue : venue[m].cid = row.cid /\ venue[m].done = row.done
    PROVE  Facts'
<1>1. Alone' \subseteq Alone /\ Clean' \subseteq Clean /\ Clean \subseteq BuyIds
  BY OtherTags DEF Forward
<1>2. OneOrder' BY <1>1 DEF LiveInv, Facts, OneOrder
<1>3. CASE ledger' = ledger
  BY <1>1, <1>2, <1>3 DEF LiveInv, Facts, Backed, FillBacked, FillIsLast, Of
<1>4. CASE ledger' = Append(ledger, row)
  <2>1. SeqLike(ledger) BY DEF LiveInv, LedgerShape
  <2> DEFINE last == Len(ledger) + 1
  <2>2. /\ DOMAIN ledger' = DOMAIN ledger \cup {last}
        /\ \A n \in DOMAIN ledger : ledger'[n] = ledger[n] /\ n < last
        /\ ledger'[last] = row
    BY <1>4, <2>1, Grown
  <2>3. last \in Int /\ DOMAIN ledger \subseteq Int BY <2>1, Positions
  <2> HIDE DEF last
  <2>4. Backed'
    BY <2>2 DEF LiveInv, Facts, Backed, Of
  <2>5. FillBacked'
    BY <1>1, <2>2 DEF LiveInv, Facts, FillBacked
  <2>6. ASSUME NEW n \in DOMAIN ledger', NEW k \in DOMAIN ledger', ledger'[n].cid \in Clean,
               ledger'[k].cid = ledger'[n].cid, ledger'[n].done > 0
        PROVE  k <= n /\ ledger'[k].at <= ledger'[n].at
    <3>1. CASE n = last /\ k = last
      <4>1. row.at \in Int BY <1>1, <2>2, <2>6, <3>1 DEF RowOK
      <4> QED BY <2>2, <2>3, <3>1, <4>1
    <3>2. CASE n = last /\ k \in DOMAIN ledger
      BY <2>2, <2>3, <2>6, <3>2 DEF Since
    <3>3. CASE n \in DOMAIN ledger /\ k \in DOMAIN ledger
      BY <2>2, <2>6, <3>3 DEF LiveInv, Facts, FillIsLast
    <3>4. CASE n \in DOMAIN ledger /\ k = last
      BY <2>2, <2>6, <3>4 DEF NoFill
    <3> QED BY <2>2, <3>1, <3>2, <3>3, <3>4
  <2>7. FillIsLast' BY <1>1, <2>6 DEF FillIsLast
  <2> QED BY <1>2, <2>4, <2>5, <2>7 DEF Facts
<1> QED BY <1>3, <1>4 DEF Inserted
-----------------------------------------------------------------------------
(***************************************************************************)
(* The calls and reconciles that a step does not move, and the three ways  *)
(* in which it moves one.                                                  *)
(***************************************************************************)
LEMMA OtherCalls ==
    ASSUME LiveInv, Forward, NEW C, NEW D, VenueGrows(C), LedgerGrows(D),
           NEW q \in Caller, task'[q] = task[q],
           task[q].pc = "post" /\ task[q].cid \in Alone => task[q].cid \in C,
           task[q].cid \in Clean => task[q].cid \in D
    PROVE  TaskOK(q)'
<1>1. TaskOK(q) BY DEF LiveInv, Tasks
<1>2. Alone' \subseteq Alone /\ Clean' \subseteq Clean BY DEF Forward
<1>3. ASSUME task[q].cid \in Clean', NoFill(task[q].cid) PROVE NoFill(task[q].cid)'
  BY <1>2, <1>3 DEF NoFill, LedgerGrows
<1>4. ASSUME task[q].cid \in Clean', Since(task[q].cid, task[q].at)
      PROVE  Since(task[q].cid, task[q].at)'
  BY <1>2, <1>4 DEF Since, LedgerGrows
<1>5. ASSUME task[q].pc = "post", task[q].cid \in Alone, Of(venue, task[q].cid) = {}
      PROVE  Of(venue, task[q].cid)' = {}
  BY <1>5 DEF Of, VenueGrows
<1>6. ASSUME task[q].cid \in BuyIds, task[q].got.cid = task[q].cid, Listed(task[q].got)
      PROVE  Listed(task[q].got)'
  BY <1>6 DEF Listed, VenueGrows
<1>7. ASSUME task[q].at \in 1..time PROVE task[q].at \in 1..time'
  BY <1>7 DEF Forward
<1>8. Buying(q)'
  BY <1>1, <1>2, <1>3, <1>4, <1>5, <1>6, <1>7 DEF TaskOK, Buying, Selling
<1>9. Selling(q)'
  <2>1. ASSUME NEW n \in DOMAIN ledger, ledger[n].cid \notin BuyIds
        PROVE  n \in DOMAIN ledger' /\ ledger'[n].cid \notin BuyIds
    BY <2>1 DEF LedgerGrows
  <2> QED BY <1>1, <2>1 DEF TaskOK, Selling
<1> QED BY <1>1, <1>8, <1>9 DEF TaskOK

LEMMA OtherRecons ==
    ASSUME Recons, Forward, NEW C, NEW D, VenueGrows(C), LedgerGrows(D),
           NEW r \in Reconcilers, recon'[r] = recon[r]
    PROVE  ReconOK(r)'
<1>1. ReconOK(r) BY DEF Recons
<1>2. ASSUME NEW cid \in BuyIds, Of(venue, cid) # {} PROVE Of(venue, cid)' # {}
  BY <1>2 DEF Of, VenueGrows
<1>3. Clean' \subseteq Clean BY DEF Forward
<1>4. CopyOK(r)'
  BY <1>1, <1>2, <1>3 DEF ReconOK, CopyOK, LedgerGrows
<1>5. ToWrite(r)' = ToWrite(r) BY DEF ToWrite
<1>6. ASSUME recon[r].got.cid \in BuyIds, Listed(recon[r].got) PROVE Listed(recon[r].got)'
  BY <1>6 DEF Listed, VenueGrows
<1> QED BY <1>1, <1>4, <1>5, <1>6 DEF ReconOK

\* One call goes on; it may add an order or a row under its own id.
LEMMA CallKeeps ==
    ASSUME LiveInv, Forward, Clock', Calls',
           NEW p \in Caller, NEW t, task' = [task EXCEPT ![p] = t], TaskOK(p)',
           recon' = recon,
           \/ VenueGrows(BuyIds)
           \/ task[p].pc = "post" /\ VenueGrows(BuyIds \ {task[p].cid}),
           LedgerGrows(BuyIds \ {task[p].cid}),
           Facts'
    PROVE  LiveInv'
<1>1. /\ DOMAIN task' = Caller /\ task' = [q \in Caller |-> task'[q]]
      /\ \A q \in Caller \ {p} : task'[q] = task[q]
  BY DEF LiveInv, Tasks
<1>2. \A q \in Caller \ {p} : task[q].cid \in Clean => task[q].cid \in BuyIds \ {task[p].cid}
  BY OtherTags DEF LiveInv, Calls, OneCall
<1>3. ASSUME task[p].pc = "post"
      PROVE  \A q \in Caller \ {p} : task[q].pc = "post" /\ task[q].cid \in Alone =>
                 task[q].cid \in BuyIds \ {task[p].cid}
  BY <1>3, OtherTags DEF LiveInv, Calls, OnePost
<1>4. \A q \in Caller \ {p} : TaskOK(q)'
  <2>1. CASE VenueGrows(BuyIds) BY <1>1, <1>2, <2>1, OtherCalls, OtherTags
  <2>2. CASE task[p].pc = "post" /\ VenueGrows(BuyIds \ {task[p].cid})
    BY <1>1, <1>2, <1>3, <2>2, OtherCalls
  <2> QED BY <2>1, <2>2
<1>5. Tasks' BY <1>1, <1>4 DEF Tasks
<1>6. \A r \in Reconcilers : ReconOK(r)' BY OtherRecons DEF LiveInv
<1>7. Recons' BY <1>6 DEF LiveInv, Recons
<1> QED BY <1>5, <1>7 DEF LiveInv, VenueGrows, LedgerGrows

\* A step that starts no call and sends none to its POST.
Same(p) ==
    /\ UNCHANGED <<time, history>>
    /\ task'[p].cid \in BuyIds => task'[p].cid = task[p].cid /\ task'[p].pc # "post"

LEMMA CallsStay ==
    ASSUME LiveInv, NEW p \in Caller, NEW t, task' = [task EXCEPT ![p] = t], Same(p)
    PROVE  Calls'
<1>1. /\ \A q \in Caller \ {p} : task'[q] = task[q]
      /\ \A q \in Caller : task'[q].cid \in BuyIds =>
             /\ task'[q].cid = task[q].cid
             /\ task'[q].pc = "post" => task[q].pc = "post"
  BY DEF LiveInv, Tasks, Same
<1>2. /\ Alone' = Alone /\ Clean' = Clean
      /\ Alone \subseteq BuyIds /\ Clean \subseteq BuyIds
  BY Stands, OtherTags DEF Same
<1>3. OneCall' BY <1>1, <1>2 DEF LiveInv, Calls, OneCall
<1>4. OnePost' BY <1>1, <1>2 DEF LiveInv, Calls, OnePost
<1> QED BY <1>2, <1>3, <1>4 DEF LiveInv, Calls

\* One call goes on and touches no buy.
LEMMA CallAside ==
    ASSUME LiveInv, NEW p \in Caller, NEW t, task' = [task EXCEPT ![p] = t], TaskOK(p)',
           Same(p), recon' = recon, VenueGrows(BuyIds), LedgerGrows(BuyIds)
    PROVE  LiveInv'
<1>1. Forward /\ Clock' BY Stands DEF Same
<1>2. Facts' BY <1>1, NoGain DEF LiveInv
<1>3. LedgerGrows(BuyIds \ {task[p].cid}) BY DEF LedgerGrows
<1> QED BY <1>1, <1>2, <1>3, CallsStay, CallKeeps

\* One call goes on and writes a row under its own id.
LEMMA CallWrites ==
    ASSUME LiveInv, NEW p \in Caller, NEW t, task' = [task EXCEPT ![p] = t], TaskOK(p)',
           Same(p), recon' = recon, venue' = venue,
           NEW row, ledger' = Inserted(row), RowOK(row), row.cid = task[p].cid,
           row.cid \in Clean => NoFill(row.cid) /\ Since(row.cid, row.at),
           row.cid \in BuyIds /\ row.done > 0 =>
               \E m \in DOMAIN venue : venue[m].cid = row.cid /\ venue[m].done = row.done
    PROVE  LiveInv'
<1>1. Forward /\ Clock' BY Stands DEF Same
<1>2. Facts' BY <1>1, GainsRow
<1>3. row.cid \in BuyIds /\ row.done > 0 => Of(venue, row.cid) # {} BY DEF Of
<1>4. LedgerGrows(BuyIds \ {task[p].cid})
  BY <1>1, <1>3, LedgerInserts DEF LiveInv, Facts
<1>5. VenueGrows(BuyIds) BY VenueSame DEF LiveInv
<1> QED BY <1>1, <1>2, <1>4, <1>5, CallsStay, CallKeeps

\* A reconcile, the venue or nobody goes on, and no buy gains an order or a row.
LEMMA ReconKeeps ==
    ASSUME LiveInv, UNCHANGED <<time, history>>, task' = task,
           \/ recon' = recon
           \/ \E r \in Reconcilers : \E s : recon' = [recon EXCEPT ![r] = s] /\ ReconOK(r)',
           VenueGrows(BuyIds), LedgerGrows(BuyIds)
    PROVE  LiveInv'
<1>1. Forward /\ Clock' /\ Alone' = Alone /\ Clean' = Clean BY Stands
<1>2. Facts' BY <1>1, NoGain DEF LiveInv
<1>3. \A q \in Caller : TaskOK(q)' BY <1>1, OtherCalls, OtherTags
<1>4. Tasks' BY <1>3 DEF LiveInv, Tasks
<1>5. Calls' BY <1>1 DEF LiveInv, Calls, OneCall, OnePost
<1>6. Recons'
  <2>1. CASE recon' = recon
    <3>1. \A q \in Reconcilers : ReconOK(q)' BY <1>1, <2>1, OtherRecons DEF LiveInv
    <3> QED BY <2>1, <3>1 DEF LiveInv, Recons
  <2>2. ASSUME NEW r \in Reconcilers, NEW s, recon' = [recon EXCEPT ![r] = s], ReconOK(r)'
        PROVE  Recons'
    <3>1. /\ DOMAIN recon' = Reconcilers /\ recon' = [q \in Reconcilers |-> recon'[q]]
          /\ \A q \in Reconcilers \ {r} : recon'[q] = recon[q]
      BY <2>2 DEF LiveInv, Recons
    <3>2. \A q \in Reconcilers \ {r} : ReconOK(q)' BY <1>1, <3>1, OtherRecons DEF LiveInv
    <3> QED BY <2>2, <3>1, <3>2 DEF Recons
  <2> QED BY <2>1, <2>2
<1> QED BY <1>1, <1>2, <1>4, <1>5, <1>6 DEF LiveInv, VenueGrows, LedgerGrows
-----------------------------------------------------------------------------
(***************************************************************************)
(* One lemma per action.                                                   *)
(***************************************************************************)
LEMMA Unmoved ==
    ASSUME LiveInv, UNCHANGED <<time, history>>, NEW C
    PROVE  /\ venue' = venue => VenueGrows(C)
           /\ ledger' = ledger => LedgerGrows(C)
BY Stands, VenueSame, LedgerSame DEF LiveInv, Facts

LEMMA TaskFacts ==
    ASSUME LiveInv, NEW p \in Caller
    PROVE  /\ TaskOK(p) /\ DOMAIN task = Caller
           /\ \A t : task' = [task EXCEPT ![p] = t] => task'[p] = t
BY DEF LiveInv, Tasks

LEMMA IdleOK ==
    ASSUME LiveInv, NEW p \in Caller, task' = [task EXCEPT ![p] = IdleTask]
    PROVE  TaskOK(p)' /\ task'[p].cid \notin BuyIds
<1>1. task'[p] = IdleTask BY TaskFacts
<1> QED BY <1>1, OtherTags DEF TaskOK, Buying, Selling, IdleTask, Fields

LEMMA NotedOK ==
    ASSUME NEW cid, NEW at, NEW side, NEW status \in {"error", "skipped"},
           cid \in BuyIds => at \in 1..time
    PROVE  LET row == Noted(cid, at, "MARKET", side, status)
           IN  RowOK(row) /\ row.cid = cid /\ row.at = at /\ ~(row.done > 0)
BY LotAssumption DEF RowOK, Noted, Columns, OpenStatus, Filled

LEMMA RowOfOK ==
    ASSUME NEW o, OrderOK(o), NEW at, o.cid \in BuyIds => at \in 1..time
    PROVE  LET row == RowOf(o, at)
           IN  RowOK(row) /\ row.cid = o.cid /\ row.at = at /\ row.done = o.done
BY LotAssumption DEF RowOK, RowOf, Columns, OrderOK, lifecycle_status, OpenStatus, Filled

LEMMA InsertedRows ==
    ASSUME LiveInv, NEW row, ledger' = Inserted(row)
    PROVE  \A n \in DOMAIN ledger' :
               (n \in DOMAIN ledger /\ ledger'[n] = ledger[n]) \/ ledger'[n] = row
<1>1. SeqLike(ledger) BY DEF LiveInv, LedgerShape
<1>2. CASE ledger' = ledger BY <1>2
<1>3. CASE ledger' = Append(ledger, row) BY <1>1, <1>3, Grown
<1> QED BY <1>2, <1>3 DEF Inserted

LEMMA ApproveKeeps ==
    ASSUME LiveInv, NEW p \in Desks, NEW a \in Approvals, ApproveClaims(p, a)
    PROVE  LiveInv'
<1> DEFINE t == [IdleTask EXCEPT !.pc = IF a \in Exits THEN "inventory" ELSE "lookup",
                                 !.cid = IdOf(a), !.at = time']
<1>1. /\ p \in Caller /\ recon' = recon /\ venue' = venue /\ ledger' = ledger
      /\ raced' = raced /\ task' = [task EXCEPT ![p] = t] /\ task[p].pc = "idle"
      /\ time' \in 1..MaxTime /\ time' >= time
      /\ doubled' = IF \E q \in Caller : task[q].cid = IdOf(a) THEN doubled \cup {a}
                    ELSE doubled
  BY DEF ApproveClaims, Starts, Sets, Caller
<1>2. time \in 1..MaxTime /\ MaxTime \in Nat BY LiveBoundAssumption DEF LiveInv, Clock
<1>3. Clock' /\ Forward /\ Alone' = Alone
  BY <1>1, <1>2 DEF Clock, Forward, Alone, Clean
<1>4. /\ task'[p] = t /\ TaskOK(p)
      /\ DOMAIN task = Caller /\ \A q \in Caller \ {p} : task'[q] = task[q]
  BY <1>1, TaskFacts
<1>5. /\ DOMAIN t = Fields /\ t.cid = IdOf(a) /\ t.at = time' /\ t.pc \in {"inventory", "lookup"}
  BY DEF IdleTask, Fields
<1> HIDE DEF t
<1>6. TaskOK(p)'
  <2>1. ASSUME NEW n \in DOMAIN ledger, ledger[n].cid \in BuyIds
        PROVE  ledger[n].at <= time'
    <3>1. ledger[n].at \in 1..time BY <2>1 DEF LiveInv, LedgerShape, RowOK
    <3> QED BY <1>1, <1>2, <3>1
  <2>2. time' \in 1..time' BY <1>1, <1>2
  <2>3. /\ task'[p].cid = IdOf(a) /\ task'[p].at = time' /\ DOMAIN task'[p] = Fields
        /\ task'[p].pc \in {"inventory", "lookup"}
    BY <1>4, <1>5
  <2>4. task'[p].cid \in BuyIds => Since(task[p].cid, task[p].at)'
    BY <1>1, <2>1, <2>3 DEF Since
  <2>5. Buying(p)' BY <2>2, <2>3, <2>4 DEF Buying, BuySteps
  <2> QED BY <2>3, <2>5 DEF TaskOK, Selling
<1>7. Calls'
  <2>1. IdOf(a) \in Clean' => \A q \in Caller : task[q].cid # IdOf(a)
    BY <1>1 DEF Clean, IdOf
  <2>2. OneCall'
    BY <1>3, <1>4, <1>5, <2>1 DEF LiveInv, Calls, OneCall, Forward
  <2>3. OnePost' BY <1>3, <1>4, <1>5 DEF LiveInv, Calls, OnePost
  <2> QED BY <1>3, <2>2, <2>3 DEF LiveInv, Calls, Forward
<1>8. \A C : VenueGrows(C) /\ LedgerGrows(C)
  BY <1>1, <1>3, VenueSame, LedgerSame DEF LiveInv, Facts
<1>9. Facts' BY <1>3, <1>8, NoGain DEF LiveInv
<1> QED BY <1>1, <1>3, <1>6, <1>7, <1>8, <1>9, CallKeeps

LEMMA FlattenKeeps ==
    ASSUME LiveInv, NEW f \in Flatteners, FlattenStarts(f)
    PROVE  LiveInv'
<1>1. PICK n : task' = [task EXCEPT ![f] = [IdleTask EXCEPT !.pc = "query", !.cid = <<"f", n>>,
                                                            !.at = time']]
  BY DEF FlattenStarts, Starts, Sets
<1>2. /\ f \in Caller /\ recon' = recon /\ venue' = venue /\ ledger' = ledger
      /\ UNCHANGED history /\ time' \in 1..MaxTime /\ time' >= time
  BY DEF FlattenStarts, Starts, Caller
<1>3. time \in 1..MaxTime /\ MaxTime \in Nat BY LiveBoundAssumption DEF LiveInv, Clock
<1>4. Clock' /\ Forward /\ Alone' = Alone /\ Clean' = Clean
  BY <1>2, <1>3 DEF Clock, Forward, Alone, Clean, history
<1>5. /\ task'[f] = [IdleTask EXCEPT !.pc = "query", !.cid = <<"f", n>>, !.at = time']
      /\ \A q \in Caller \ {f} : task'[q] = task[q]
  BY <1>1, <1>2, TaskFacts
<1>6. <<"f", n>> \notin BuyIds BY OtherTags
<1>7. TaskOK(f)' /\ task'[f].cid \notin BuyIds
  BY <1>5, <1>6 DEF TaskOK, Buying, Selling, IdleTask, Fields
<1>8. Calls'
  <2>1. Alone \subseteq BuyIds /\ Clean \subseteq BuyIds BY OtherTags
  <2> QED BY <1>4, <1>5, <1>7, <2>1 DEF LiveInv, Calls, OneCall, OnePost
<1>9. \A C : VenueGrows(C) /\ LedgerGrows(C)
  BY <1>2, <1>4, VenueSame, LedgerSame DEF LiveInv, Facts
<1>10. Facts' BY <1>4, <1>9, NoGain DEF LiveInv
<1> QED BY <1>1, <1>2, <1>4, <1>7, <1>8, <1>9, <1>10, CallKeeps

LEMMA InventoryKeeps ==
    ASSUME LiveInv, NEW p \in Caller, HasInventory(p)
    PROVE  LiveInv'
<1>1. /\ UNCHANGED <<time, history>> /\ recon' = recon /\ ledger' = ledger /\ venue' = venue
      /\ task[p].pc = "inventory"
  BY DEF HasInventory
<1>2. VenueGrows(BuyIds) /\ LedgerGrows(BuyIds) BY <1>1, Unmoved
<1>3. CASE EndsOk(p) BY <1>1, <1>2, <1>3, IdleOK, CallAside DEF EndsOk, Sets, Same
<1>4. CASE At(p, "lookup")
  <2>1. task'[p] = [task[p] EXCEPT !.pc = "lookup"] /\ TaskOK(p)
    BY <1>4, TaskFacts DEF At, Sets
  <2>2. TaskOK(p)' /\ Same(p)
    BY <1>1, <2>1, Stands
       DEF TaskOK, Buying, Selling, Fields, BuySteps, Since, Same
  <2> QED BY <1>1, <1>2, <1>4, <2>2, CallAside DEF At, Sets
<1> QED BY <1>3, <1>4 DEF HasInventory

LEMMA LookKeeps ==
    ASSUME LiveInv, NEW p \in Caller, LooksUp(p)
    PROVE  LiveInv'
<1>1. /\ UNCHANGED <<time, history>> /\ recon' = recon /\ ledger' = ledger /\ venue' = venue
      /\ task[p].pc = "lookup"
  BY DEF LooksUp
<1>2. VenueGrows(BuyIds) /\ LedgerGrows(BuyIds) BY <1>1, Unmoved
<1>3. CASE EndsOk(p) \/ EndsFailed(p)
  BY <1>1, <1>2, <1>3, IdleOK, CallAside DEF EndsOk, EndsFailed, Sets, Same
<1>4. CASE ~LedgerHolds(task[p].cid) /\ At(p, "query")
  <2>1. task'[p] = [task[p] EXCEPT !.pc = "query"] /\ TaskOK(p)
    BY <1>4, TaskFacts DEF At, Sets
  <2>2. task[p].cid \in Clean => NoFill(task[p].cid) BY <1>4, FillIsHeld
  <2>3. task'[p].cid = task[p].cid /\ task'[p].pc = "query" BY <2>1 DEF TaskOK, Fields
  <2>4. task'[p].cid \in Clean => NoFill(task[p].cid)' BY <1>1, <2>2, <2>3 DEF NoFill
  <2>5. TaskOK(p)'
    BY <1>1, <2>1, <2>3, <2>4, Stands
       DEF TaskOK, Buying, Selling, Fields, BuySteps, Since
  <2>6. Same(p) BY <1>1, <2>3 DEF Same
  <2> QED BY <1>1, <1>2, <1>4, <2>5, <2>6, CallAside DEF At, Sets
<1> QED BY <1>3, <1>4 DEF LooksUp

LEMMA DiesKeeps ==
    ASSUME LiveInv, NEW p \in Caller, Dies(p)
    PROVE  LiveInv'
<1>1. UNCHANGED <<time, history>> BY DEF Dies
<1> QED BY <1>1, Unmoved, IdleOK, CallAside DEF Dies, Sets, Same

LEMMA ListKeeps ==
    ASSUME LiveInv, NEW p \in Caller, ListsStops(p)
    PROVE  LiveInv'
<1>1. UNCHANGED <<time, history>> /\ recon' = recon /\ ledger' = ledger /\ venue' = venue
  BY DEF ListsStops
<1>2. VenueGrows(BuyIds) /\ LedgerGrows(BuyIds) BY <1>1, Unmoved
<1>3. task'[p] = [task[p] EXCEPT !.pc = "cancel", !.stops = OpenStops] /\ TaskOK(p)
  BY TaskFacts DEF ListsStops, Sets
<1>4. OpenStops \subseteq {n \in DOMAIN ledger : ledger[n].cid \notin BuyIds}
  BY DEF LiveInv, LedgerShape, RowOK, OpenStops, OpenRows
<1>5. task[p].cid \notin BuyIds BY <1>3 DEF TaskOK, Buying, BuySteps, ListsStops
<1>6. TaskOK(p)' /\ Same(p)
  BY <1>1, <1>3, <1>4, <1>5 DEF TaskOK, Buying, Selling, Fields, Same
<1> QED BY <1>1, <1>2, <1>6, CallAside DEF ListsStops, Sets

LEMMA CancelKeeps ==
    ASSUME LiveInv, NEW p \in Caller, CancelsStop(p)
    PROVE  LiveInv'
<1>1. UNCHANGED <<time, history>> /\ recon' = recon /\ ledger' = ledger
  BY DEF CancelsStop
<1>2. LedgerGrows(BuyIds) BY <1>1, Unmoved
<1>3. VenueGrows(BuyIds)
  <2>1. VenueShape BY DEF LiveInv
  <2>2. CASE venue' = venue BY <2>1, <2>2, VenueSame
  <2>3. CASE \E cid : venue' = Closed(cid) BY <2>1, <2>3, VenueCloses
  <2> QED BY <2>2, <2>3 DEF CancelsStop
<1>4. TaskOK(p) BY TaskFacts
<1>5. task[p].cid \notin BuyIds BY <1>4 DEF TaskOK, Buying, BuySteps, CancelsStop
<1>6. ASSUME NEW n, NEW t,
             \/ \E o : t = [task[p] EXCEPT !.pc = "cancelled", !.got = o]
             \/ t = [task[p] EXCEPT !.stops = @ \ {n}, !.errs = TRUE],
             task' = [task EXCEPT ![p] = t]
      PROVE  LiveInv'
  <2>1. task'[p] = t BY <1>6, TaskFacts
  <2>2. task'[p].cid \notin BuyIds /\ task'[p].stops \subseteq task[p].stops
    BY <1>4, <1>5, <1>6, <2>1 DEF TaskOK, Fields
  <2>3. DOMAIN task'[p] = Fields /\ task'[p].pc \in {"cancel", "cancelled"}
    BY <1>4, <1>6, <2>1 DEF TaskOK, Fields, CancelsStop
  <2>4. task'[p].pc = "cancelled" => task'[p].stops # {}
    BY <1>4, <1>6, <2>1 DEF TaskOK, Fields, CancelsStop
  <2>5. task[p].stops \subseteq {k \in DOMAIN ledger : ledger[k].cid \notin BuyIds}
    BY <1>4 DEF TaskOK, Selling, CancelsStop
  <2>6. TaskOK(p)' /\ Same(p)
    BY <1>1, <2>2, <2>3, <2>4, <2>5 DEF TaskOK, Buying, Selling, Same
  <2> QED BY <1>1, <1>2, <1>3, <1>6, <2>6, CallAside
<1> QED BY <1>6 DEF CancelsStop, Sets

LEMMA RecordCancelKeeps ==
    ASSUME LiveInv, NEW p \in Caller, RecordsCancel(p)
    PROVE  LiveInv'
<1> DEFINE n == Min(task[p].stops)
           row == Updated(ledger[n], task[p].got)
<1>1. UNCHANGED <<time, history>> /\ recon' = recon /\ venue' = venue
  BY DEF RecordsCancel
<1>2. TaskOK(p) /\ VenueGrows(BuyIds) BY <1>1, TaskFacts, Unmoved
<1>3. task[p].cid \notin BuyIds BY <1>2 DEF TaskOK, Buying, BuySteps, RecordsCancel
<1>4. n \in task[p].stops /\ n \in DOMAIN ledger /\ ledger[n].cid \notin BuyIds
  <2>1. DOMAIN ledger \subseteq Nat BY Positions DEF LiveInv, LedgerShape
  <2>2. /\ task[p].stops \in SUBSET Nat /\ task[p].stops # {}
        /\ task[p].stops \subseteq {k \in DOMAIN ledger : ledger[k].cid \notin BuyIds}
    BY <1>2, <2>1 DEF TaskOK, Selling, RecordsCancel
  <2>3. n \in task[p].stops BY <2>2, MinIn
  <2> QED BY <2>2, <2>3
<1>5. RowOK(row) /\ row.cid = ledger[n].cid /\ row.at = ledger[n].at
  <2>1. DOMAIN ledger[n] = Columns BY <1>4 DEF LiveInv, LedgerShape, RowOK
  <2> QED BY <1>4, <2>1 DEF Updated, RowOK, Columns
<1>6. row.cid \notin BuyIds /\ row.cid \notin Clean BY <1>4, <1>5, OtherTags
<1>7. ledger' = [ledger EXCEPT ![n] = row] BY DEF RecordsCancel
<1>8. LedgerGrows(BuyIds)
  <2> HIDE DEF row, n
  <2> QED BY <1>1, <1>4, <1>5, <1>6, <1>7, Stands, LedgerRewrites DEF LiveInv, Facts
<1>9. task'[p] = [task[p] EXCEPT !.pc = "cancel", !.stops = @ \ {n}, !.cancelled = @ \cup {n}]
  BY TaskFacts DEF RecordsCancel, Sets
<1>10. \A k \in DOMAIN ledger : k \in DOMAIN ledger' /\ ledger'[k].cid = ledger[k].cid
  BY <1>8 DEF LedgerGrows
<1>11. TaskOK(p)' /\ Same(p)
  BY <1>1, <1>2, <1>3, <1>9, <1>10 DEF TaskOK, Buying, Selling, Fields, RecordsCancel, Same
<1> QED BY <1>1, <1>2, <1>8, <1>11, CallAside DEF RecordsCancel, Sets

\* What the venue lists under a buy's id, and answers.
LEMMA ListedBuy ==
    ASSUME LiveInv, NEW o, Listed(o)
    PROVE  /\ OrderOK(o)
           /\ \E m \in DOMAIN venue : venue[m].cid = o.cid /\ venue[m].done = o.done
BY DEF LiveInv, VenueShape, Listed

LEMMA QueryKeeps ==
    ASSUME LiveInv, NEW p \in Caller, Queries(p)
    PROVE  LiveInv'
<1> DEFINE cid == task[p].cid
           o == Known(cid)
<1>1. /\ time' = time /\ doubled' = doubled /\ recon' = recon /\ venue' = venue
      /\ task[p].pc = "query" /\ TaskOK(p)
  BY TaskFacts DEF Queries
<1>2. /\ cid \in BuyIds => task[p].at \in 1..time
      /\ cid \in Clean => NoFill(cid) /\ Since(cid, task[p].at)
  BY <1>1, OtherTags DEF TaskOK, Buying
<1>3. CASE /\ UNCHANGED raced /\ EndsFailed(p)
           /\ ledger' = Inserted(Noted(cid, task[p].at, "MARKET", SideOf(p), "error"))
  <2> DEFINE row == Noted(cid, task[p].at, "MARKET", SideOf(p), "error")
  <2>1. RowOK(row) /\ row.cid = cid /\ row.at = task[p].at /\ ~(row.done > 0)
    BY <1>2, NotedOK
  <2>2. task' = [task EXCEPT ![p] = IdleTask] /\ TaskOK(p)' /\ Same(p)
    BY <1>1, <1>3, IdleOK DEF EndsFailed, Sets, Same, history
  <2>3. ledger' = Inserted(row) BY <1>3
  <2> HIDE DEF row
  <2> QED BY <1>1, <1>2, <2>1, <2>2, <2>3, CallWrites
<1>4. CASE /\ o # NoOrder /\ UNCHANGED raced /\ EndsOk(p)
           /\ ledger' = Inserted(RowOf(o, task[p].at))
  <2> DEFINE row == RowOf(o, task[p].at)
  <2>1. Listed(o) /\ o.cid = cid BY <1>4, Answered DEF LiveInv, Known
  <2>2. RowOK(row) /\ row.cid = cid /\ row.at = task[p].at /\ row.done = o.done
    BY <1>2, <2>1, ListedBuy, RowOfOK
  <2>3. task' = [task EXCEPT ![p] = IdleTask] /\ TaskOK(p)' /\ Same(p)
    BY <1>1, <1>4, IdleOK DEF EndsOk, Sets, Same, history
  <2>4. \E m \in DOMAIN venue : venue[m].cid = cid /\ venue[m].done = o.done
    BY <2>1, ListedBuy
  <2>5. ledger' = Inserted(row) BY <1>4
  <2> HIDE DEF row, o
  <2> QED BY <1>1, <1>2, <2>2, <2>3, <2>4, <2>5, CallWrites
<1>5. CASE /\ o = NoOrder /\ ledger' = ledger
           /\ At(p, IF IsBuy(p) THEN "post" ELSE "list")
           /\ raced' = {a \in Longs : a \in raced \/ (cid = IdOf(a)
                  /\ {q \in Caller : task[q].cid = cid /\ task[q].pc = "post"} # {})}
  <2>1. task'[p] = [task[p] EXCEPT !.pc = IF IsBuy(p) THEN "post" ELSE "list"]
    BY <1>5, TaskFacts DEF At, Sets
  <2>2. /\ task'[p].cid = cid /\ DOMAIN task'[p] = Fields /\ task'[p].at = task[p].at
        /\ task'[p].pc = IF cid \in BuyIds THEN "post" ELSE "list"
        /\ \A q \in Caller \ {p} : task'[q] = task[q]
    BY <1>1, <1>5, <2>1, TaskFacts DEF TaskOK, Fields, IsBuy, At, Sets
  <2>3. Forward /\ Clock' /\ Clean' = Clean
    BY <1>1, <1>5 DEF LiveInv, Clock, Forward, Alone, Clean, LiveBoundAssumption
  <2>4. \A C : VenueGrows(C) /\ LedgerGrows(C)
    BY <1>1, <1>5, <2>3, VenueSame, LedgerSame DEF LiveInv, Facts
  <2>5. Facts' BY <2>3, <2>4, NoGain DEF LiveInv
  <2>6. cid \in BuyIds => Of(venue, cid) = {}
    BY <1>5, Answered, OtherTags DEF LiveInv, Known
  <2>7. Buying(p)'
    BY <1>1, <1>2, <1>5, <2>2, <2>3, <2>6 DEF Buying, BuySteps, NoFill, Since, Of
  <2>8. TaskOK(p)' BY <2>2, <2>7 DEF TaskOK, Selling
  <2>9. OneCall' BY <2>2, <2>3 DEF LiveInv, Calls, OneCall
  <2>10. ASSUME NEW q \in Caller \ {p}, task[q].cid = cid, task[q].pc = "post"
         PROVE  cid \notin Alone' /\ cid \notin Clean'
    <3>1. ASSUME NEW a \in Longs, cid = IdOf(a) PROVE a \in raced'
      BY <1>5, <2>10, <3>1
    <3>2. cid \notin Alone' BY <3>1 DEF Alone
    <3>3. cid \notin Clean BY <2>10 DEF LiveInv, Calls, OneCall
    <3> QED BY <2>3, <3>2, <3>3
  <2>11. Alone' \subseteq Alone BY <2>3 DEF Forward
  <2>12. OnePost'
    <3>1. SUFFICES ASSUME NEW q \in Caller, NEW r \in Caller,
                          task'[q].cid \in Alone', task'[r].cid = task'[q].cid,
                          task'[q].pc = "post", task'[r].pc = "post"
                   PROVE  q = r
      BY DEF OnePost
    <3>2. CASE q # p /\ r # p BY <2>2, <2>11, <3>1, <3>2 DEF LiveInv, Calls, OnePost
    <3>3. CASE q = p /\ r # p BY <2>2, <2>10, <3>1, <3>3
    <3>4. CASE q # p /\ r = p BY <2>2, <2>10, <3>1, <3>4
    <3> QED BY <3>2, <3>3, <3>4
  <2>13. ASSUME NEW a \in Longs, a \notin doubled PROVE a \notin raced'
    <3>1. IdOf(a) \in Clean /\ a \notin raced
      BY <2>13, OtherTags DEF LiveInv, Calls
    <3>2. ASSUME NEW q \in Caller, cid = IdOf(a), task[q].cid = cid, task[q].pc = "post"
          PROVE  FALSE
      BY <1>1, <3>1, <3>2 DEF LiveInv, Calls, OneCall
    <3> QED BY <1>5, <3>1, <3>2
  <2>14. Clean' \subseteq Alone'
    BY <1>1, <2>13 DEF Clean, Alone
  <2> QED BY <1>1, <1>5, <2>3, <2>4, <2>5, <2>8, <2>9, <2>12, <2>14, CallKeeps
          DEF At, Sets, Calls
<1> QED BY <1>3, <1>4, <1>5 DEF Queries, VenueKnows

LEMMA PostKeeps ==
    ASSUME LiveInv, NEW p \in Caller, Posts(p)
    PROVE  LiveInv'
<1> DEFINE cid == task[p].cid
           qty == IF IsBuy(p) THEN BuyQty ELSE task[p].qty
<1>1. /\ UNCHANGED <<time, history>> /\ recon' = recon /\ ledger' = ledger
      /\ task[p].pc = "post" /\ TaskOK(p)
  BY TaskFacts DEF Posts
<1>2. /\ Forward /\ Clock' /\ Alone' = Alone /\ Clean' = Clean
      /\ Alone \subseteq BuyIds /\ Clean \subseteq BuyIds
  BY <1>1, Stands, OtherTags
<1>3. /\ cid \in BuyIds => task[p].at \in 1..time
      /\ cid \in Alone => Of(venue, cid) = {}
      /\ cid \in Clean => NoFill(cid) /\ Since(cid, task[p].at)
  BY <1>1, <1>2 DEF TaskOK, Buying
<1>4. CASE venue' = venue /\ At(p, "requery")
  <2>1. VenueGrows(BuyIds) /\ LedgerGrows(BuyIds) BY <1>1, <1>4, Unmoved
  <2>2. task'[p] = [task[p] EXCEPT !.pc = "requery"] BY <1>4, TaskFacts DEF At, Sets
  <2>3. /\ DOMAIN task'[p] = Fields /\ task'[p].cid = cid /\ task'[p].pc = "requery"
        /\ task'[p].at = task[p].at
    BY <1>1, <2>2 DEF TaskOK, Fields
  <2>4. TaskOK(p)' /\ Same(p)
    BY <1>1, <1>2, <1>3, <2>3
       DEF TaskOK, Buying, Selling, BuySteps, NoFill, Since, Same
  <2> QED BY <1>1, <1>4, <2>1, <2>4, CallAside DEF At, Sets
<1>5. ASSUME NEW d \in Fills(qty),
             NEW o, o = Ordered(cid, "MARKET", SideOf(p), qty, d, FALSE),
             venue' = Append(venue, o),
             \/ Sets(p, [task[p] EXCEPT !.pc = "record", !.got = o])
             \/ At(p, "requery")
      PROVE  LiveInv'
  <2>1. o.cid = cid /\ DOMAIN o = DOMAIN NoOrder BY <1>5 DEF Ordered, NoOrder
  <2>2. OrderOK(o)
    <3>1. SUFFICES ASSUME cid \in BuyIds PROVE OrderOK(o) BY <2>1 DEF OrderOK
    <3>2. qty = BuyQty /\ d \in 0..BuyQty
      BY <1>5, <3>1, LotAssumption DEF Fills, IsBuy
    <3> QED BY <1>5, <3>2 DEF OrderOK, Ordered
  <2>3. VenueGrows(BuyIds \ {cid})
    BY <1>5, <2>1, <2>2, VenueAppends DEF LiveInv
  <2>4. LedgerGrows(BuyIds \ {cid}) BY <1>1, Unmoved
  <2> DEFINE last == Len(venue) + 1
  <2>5. /\ DOMAIN venue' = DOMAIN venue \cup {last}
        /\ \A m \in DOMAIN venue : venue'[m] = venue[m]
        /\ venue'[last] = o
    <3>1. SeqLike(venue) /\ venue' = Append(venue, o) BY <1>5 DEF LiveInv, VenueShape
    <3> QED BY <3>1, Grown
  <2> HIDE DEF last
  <2>6. OneOrder'
    <3>1. \A m \in DOMAIN venue : cid \in Alone => venue[m].cid # cid
      BY <1>3 DEF Of
    <3> QED BY <1>2, <2>1, <2>5, <3>1 DEF OneOrder, LiveInv, Facts
  <2>7. FillBacked' BY <1>1, <1>2, <2>5 DEF LiveInv, Facts, FillBacked
  <2>8. FillIsLast' BY <1>1, <1>2 DEF LiveInv, Facts, FillIsLast
  <2>9. Facts' BY <2>3, <2>4, <2>6, <2>7, <2>8, StaysBacked DEF Facts
  <2>10. PICK t : /\ task' = [task EXCEPT ![p] = t]
                  /\ \/ t = [task[p] EXCEPT !.pc = "record", !.got = o]
                     \/ t = [task[p] EXCEPT !.pc = "requery"]
    BY <1>5 DEF Sets, At
  <2>11. task'[p] = t BY <2>10, TaskFacts
  <2>12. /\ DOMAIN t = Fields /\ t.cid = cid /\ t.pc \in {"record", "requery"}
         /\ t.at = task[p].at /\ (t.pc = "record" => t.got = o)
    BY <1>1, <2>10 DEF TaskOK, Fields
  <2>13. Listed(o)' BY <2>5 DEF Listed
  <2>14. Buying(p)'
    <3>1. task'[p].pc = "record" => Listed(task[p].got)'
      BY <2>11, <2>12, <2>5 DEF Listed
    <3> QED BY <1>1, <1>2, <1>3, <2>11, <2>12, <3>1 DEF Buying, BuySteps, NoFill, Since
  <2>15. TaskOK(p)' BY <2>1, <2>11, <2>12, <2>14 DEF TaskOK, Selling
  <2>16. Same(p) BY <1>1, <2>11, <2>12 DEF Same
  <2> QED BY <1>1, <1>2, <2>3, <2>4, <2>9, <2>10, <2>15, <2>16, CallsStay, CallKeeps
<1> QED BY <1>4, <1>5 DEF Posts

\* A call that sells and fails ends, or turns to the stop it cancelled.
LEMMA FailsOK ==
    ASSUME LiveInv, NEW p \in Caller, NEW l, Fails(p, l), task[p].cid \notin BuyIds
    PROVE  \E t : task' = [task EXCEPT ![p] = t] /\ TaskOK(p)' /\ task'[p].cid \notin BuyIds
<1>1. CASE EndsFailed(p) BY <1>1, IdleOK DEF EndsFailed, Sets
<1>2. ASSUME NEW q, NEW x,
             task' = [task EXCEPT ![p] = [task[p] EXCEPT !.pc = "stop", !.qty = q,
                                                         !.stop = <<"xr", x>>]]
      PROVE  TaskOK(p)' /\ task'[p].cid \notin BuyIds
  <2>1. task'[p] = [task[p] EXCEPT !.pc = "stop", !.qty = q, !.stop = <<"xr", x>>]
        /\ TaskOK(p)
    BY <1>2, TaskFacts
  <2>2. <<"xr", x>> \notin BuyIds BY OtherTags
  <2> QED BY <2>1, <2>2 DEF TaskOK, Buying, Selling, Fields
<1> QED BY <1>1, <1>2 DEF Fails, Sets

\* A call under an id that is no buy's writes a failure down.
LEMMA SellerNotes ==
    ASSUME LiveInv, NEW p \in Caller, task[p].cid \notin BuyIds, NEW t,
           task' = [task EXCEPT ![p] = t], TaskOK(p)', task'[p].cid \notin BuyIds,
           UNCHANGED <<time, history>>,
           NEW side, NEW status \in {"error", "skipped"},
           ledger' = Inserted(Noted(task[p].cid, task[p].at, "MARKET", side, status)),
           venue' = venue, recon' = recon
    PROVE  LiveInv'
<1> DEFINE row == Noted(task[p].cid, task[p].at, "MARKET", side, status)
<1>1. RowOK(row) /\ row.cid = task[p].cid BY NotedOK
<1>2. ledger' = Inserted(row) OBVIOUS
<1> HIDE DEF row
<1>3. LedgerGrows(BuyIds) BY <1>1, <1>2, Stands, LedgerInserts DEF LiveInv, Facts
<1>4. VenueGrows(BuyIds) BY Unmoved
<1> QED BY <1>3, <1>4, CallAside DEF Same

LEMMA SizeKeeps ==
    ASSUME LiveInv, NEW p \in Caller, Sizes(p)
    PROVE  LiveInv'
<1>1. UNCHANGED <<time, history>> /\ recon' = recon /\ venue' = venue BY DEF Sizes
<1>2. VenueGrows(BuyIds) /\ TaskOK(p) BY <1>1, Unmoved, TaskFacts
<1>3. task[p].cid \notin BuyIds BY <1>2 DEF TaskOK, Buying, BuySteps, Sizes
<1>4. ASSUME Fails(p, SellNote(p, "error")) PROVE LiveInv'
  <2>1. PICK t : task' = [task EXCEPT ![p] = t] /\ TaskOK(p)' /\ task'[p].cid \notin BuyIds
    BY <1>3, <1>4, FailsOK
  <2>2. ledger' = Inserted(Noted(task[p].cid, task[p].at, "MARKET", "SELL", "error"))
    BY <1>4 DEF Fails, SellNote
  <2> QED BY <1>1, <1>3, <2>1, <2>2, SellerNotes
<1>5. ASSUME ledger' = SellNote(p, "skipped"), EndsOk(p) PROVE LiveInv'
  <2>1. task' = [task EXCEPT ![p] = IdleTask] /\ TaskOK(p)' /\ task'[p].cid \notin BuyIds
    BY <1>5, IdleOK DEF EndsOk, Sets
  <2>2. ledger' = Inserted(Noted(task[p].cid, task[p].at, "MARKET", "SELL", "skipped"))
    BY <1>5 DEF SellNote
  <2> QED BY <1>1, <1>3, <2>1, <2>2, SellerNotes
<1>6. ASSUME NEW size, Sets(p, [task[p] EXCEPT !.pc = "post", !.qty = size]), ledger' = ledger
      PROVE  LiveInv'
  <2>1. task'[p] = [task[p] EXCEPT !.pc = "post", !.qty = size] BY <1>6, TaskFacts DEF Sets
  <2>2. TaskOK(p)' /\ Same(p)
    BY <1>1, <1>2, <1>3, <2>1 DEF TaskOK, Buying, Selling, Fields, Same
  <2>3. LedgerGrows(BuyIds) BY <1>1, <1>6, Unmoved
  <2> QED BY <1>1, <1>2, <1>6, <2>2, <2>3, CallAside DEF Sets
<1> QED BY <1>4, <1>5, <1>6 DEF Sizes

LEMMA RequeryKeeps ==
    ASSUME LiveInv, NEW p \in Caller, Requeries(p)
    PROVE  LiveInv'
<1> DEFINE cid == task[p].cid
           o == Known(cid)
           row == Noted(cid, task[p].at, "MARKET", SideOf(p), "error")
<1>1. /\ UNCHANGED <<time, history>> /\ recon' = recon /\ venue' = venue
      /\ task[p].pc = "requery"
  BY DEF Requeries
<1>2. /\ VenueGrows(BuyIds) /\ TaskOK(p) /\ Forward /\ Clean' = Clean
      /\ Clean \subseteq BuyIds
  BY <1>1, Unmoved, TaskFacts, Stands, OtherTags
<1>3. /\ cid \in BuyIds => task[p].at \in 1..time
      /\ cid \in Clean => NoFill(cid) /\ Since(cid, task[p].at)
  BY <1>1, <1>2 DEF TaskOK, Buying
<1>4. ASSUME o # NoOrder, ledger' = ledger,
             Sets(p, [task[p] EXCEPT !.pc = "record", !.got = o, !.recovered = TRUE])
      PROVE  LiveInv'
  <2>1. Listed(o) /\ o.cid = cid BY <1>4, Answered DEF LiveInv, Known
  <2>2. task'[p] = [task[p] EXCEPT !.pc = "record", !.got = o, !.recovered = TRUE]
    BY <1>4, TaskFacts DEF Sets
  <2>3. LedgerGrows(BuyIds) BY <1>1, <1>4, Unmoved
  <2> HIDE DEF o
  <2>4. /\ DOMAIN task'[p] = Fields /\ task'[p].pc = "record" /\ task'[p].at = task[p].at
        /\ task'[p].cid = cid /\ task'[p].got = o
    BY <1>2, <2>2 DEF TaskOK, Fields
  <2>5. Listed(task[p].got)' BY <1>1, <2>1, <2>4 DEF Listed
  <2>6. Buying(p)'
    BY <1>1, <1>2, <1>3, <1>4, <2>4, <2>5 DEF Buying, BuySteps, NoFill, Since
  <2>7. TaskOK(p)' BY <2>1, <2>4, <2>6 DEF TaskOK, Selling
  <2>8. Same(p) BY <1>1, <2>4 DEF Same
  <2> QED BY <1>1, <1>2, <1>4, <2>3, <2>7, <2>8, CallAside DEF Sets
<1>5. ASSUME ledger' = Inserted(row), EndsFailed(p) PROVE LiveInv'
  <2>1. RowOK(row) /\ row.cid = cid /\ row.at = task[p].at /\ ~(row.done > 0)
    BY <1>3, NotedOK
  <2>2. task' = [task EXCEPT ![p] = IdleTask] /\ TaskOK(p)' /\ Same(p)
    BY <1>1, <1>5, IdleOK DEF EndsFailed, Sets, Same
  <2>3. ledger' = Inserted(row) BY <1>5
  <2> HIDE DEF row
  <2> QED BY <1>1, <1>3, <2>1, <2>2, <2>3, CallWrites
<1>6. ASSUME ~IsBuy(p), Fails(p, Inserted(row)) PROVE LiveInv'
  <2>1. cid \notin BuyIds BY <1>6 DEF IsBuy
  <2>2. PICK t : task' = [task EXCEPT ![p] = t] /\ TaskOK(p)' /\ task'[p].cid \notin BuyIds
    BY <1>6, <2>1, FailsOK
  <2>3. ledger' = Inserted(Noted(cid, task[p].at, "MARKET", SideOf(p), "error"))
    BY <1>6 DEF Fails
  <2> QED BY <1>1, <2>1, <2>2, <2>3, SellerNotes
<1> QED BY <1>4, <1>5, <1>6 DEF Requeries

LEMMA RecordKeeps ==
    ASSUME LiveInv, NEW p \in Caller, Records(p)
    PROVE  LiveInv'
<1> DEFINE cid == task[p].cid
           o == task[p].got
           row == RowOf(o, task[p].at)
<1>1. /\ UNCHANGED <<time, history>> /\ recon' = recon /\ venue' = venue
      /\ ledger' = Inserted(row) /\ task[p].pc = "record" /\ TaskOK(p)
  BY TaskFacts DEF Records
<1>2. /\ o.cid = cid
      /\ cid \in BuyIds => task[p].at \in 1..time /\ Listed(o)
      /\ cid \in Clean => NoFill(cid) /\ Since(cid, task[p].at)
      /\ Clean \subseteq BuyIds /\ Clean' = Clean /\ Forward
  BY <1>1, Stands, OtherTags DEF TaskOK, Buying, Selling
<1>3. OrderOK(o) BY <1>2, ListedBuy DEF OrderOK
<1>4. RowOK(row) /\ row.cid = cid /\ row.at = task[p].at /\ row.done = o.done
  BY <1>2, <1>3, RowOfOK
<1>5. cid \in BuyIds => \E m \in DOMAIN venue : venue[m].cid = cid /\ venue[m].done = o.done
  BY <1>2, ListedBuy
<1>6. ASSUME cid \in Clean
      PROVE  \A n \in DOMAIN ledger' : ledger'[n].cid = cid => ledger'[n].at <= task[p].at
  <2>1. task[p].at \in Int BY <1>2, <1>6
  <2> HIDE DEF row
  <2> QED BY <1>1, <1>2, <1>4, <1>6, <2>1, InsertedRows DEF Since
<1>7. PICK t : task' = [task EXCEPT ![p] = t] /\ TaskOK(p)' /\ Same(p)
  <2>1. CASE EndsOk(p) BY <1>1, <2>1, IdleOK DEF EndsOk, Sets, Same
  <2>2. ASSUME NEW q, NEW x,
               Sets(p, [task[p] EXCEPT !.pc = "stop", !.qty = q, !.stop = <<"x", x>>])
        PROVE  \E t : task' = [task EXCEPT ![p] = t] /\ TaskOK(p)' /\ Same(p)
    <3>1. task'[p] = [task[p] EXCEPT !.pc = "stop", !.qty = q, !.stop = <<"x", x>>]
      BY <2>2, TaskFacts DEF Sets
    <3>2. <<"x", x>> \notin BuyIds BY OtherTags
    <3>3. /\ DOMAIN task'[p] = Fields /\ task'[p].cid = cid /\ task'[p].pc = "stop"
          /\ task'[p].at = task[p].at /\ task'[p].stop = <<"x", x>>
      BY <1>1, <3>1 DEF TaskOK, Fields
    <3>4. TaskOK(p)' /\ Same(p)
      BY <1>1, <1>2, <1>6, <3>2, <3>3 DEF TaskOK, Buying, Selling, BuySteps, Since, Same
    <3> QED BY <2>2, <3>4 DEF Sets
  <2> QED BY <2>1, <2>2 DEF Records
<1> HIDE DEF row, o
<1> QED BY <1>1, <1>2, <1>4, <1>5, <1>7, CallWrites

LEMMA StopEndsOK ==
    ASSUME LiveInv, NEW p \in Caller, StopEnds(p), UNCHANGED <<time, history>>
    PROVE  task' = [task EXCEPT ![p] = IdleTask] /\ TaskOK(p)' /\ Same(p)
BY IdleOK DEF StopEnds, EndsOk, EndsFailed, Sets, Same

LEMMA PlaceKeeps ==
    ASSUME LiveInv, NEW p \in Caller, PlacesStop(p)
    PROVE  LiveInv'
<1> DEFINE cid == task[p].stop
           size == Min({task[p].qty, Free})
           o == Ordered(cid, "STOP", "SELL", size, 0, TRUE)
           row == Noted(cid, task[p].at, "STOP", "SELL", "error")
<1>1. UNCHANGED <<time, history>> /\ recon' = recon /\ task[p].pc = "stop" /\ TaskOK(p)
  BY TaskFacts DEF PlacesStop
<1>2. /\ cid \notin BuyIds
      /\ task[p].cid \in BuyIds => task[p].at \in 1..time
      /\ task[p].cid \in Clean => Since(task[p].cid, task[p].at)
      /\ Clean \subseteq BuyIds /\ Clean' = Clean /\ Forward
  BY <1>1, Stands, OtherTags DEF TaskOK, Selling, Buying
<1>3. o.cid = cid /\ DOMAIN o = DOMAIN NoOrder /\ OrderOK(o)
  BY <1>2 DEF Ordered, NoOrder, OrderOK
<1>4. VenueGrows(BuyIds)
  <2>1. CASE venue' = venue BY <1>1, <2>1, Unmoved
  <2>2. CASE venue' = Append(venue, o)
    <3> HIDE DEF o
    <3> QED BY <1>2, <1>3, <2>2, VenueAppends DEF LiveInv
  <2> QED BY <2>1, <2>2 DEF PlacesStop
<1>5. ASSUME Sets(p, [task[p] EXCEPT !.pc = "stopped", !.got = o]), ledger' = ledger
      PROVE  LiveInv'
  <2>1. task'[p] = [task[p] EXCEPT !.pc = "stopped", !.got = o] BY <1>5, TaskFacts DEF Sets
  <2>2. LedgerGrows(BuyIds) BY <1>1, <1>5, Unmoved
  <2> HIDE DEF o
  <2>3. /\ DOMAIN task'[p] = Fields /\ task'[p].pc = "stopped" /\ task'[p].at = task[p].at
        /\ task'[p].cid = task[p].cid /\ task'[p].got = o /\ task'[p].stop = cid
    BY <1>1, <2>1 DEF TaskOK, Fields
  <2>4. TaskOK(p)' /\ Same(p)
    BY <1>1, <1>2, <1>3, <1>5, <2>3 DEF TaskOK, Buying, Selling, BuySteps, Since, Same
  <2> QED BY <1>1, <1>4, <1>5, <2>2, <2>4, CallAside DEF Sets
<1>6. ASSUME ledger' = Inserted(row), StopEnds(p) PROVE LiveInv'
  <2>1. RowOK(row) /\ row.cid = cid BY <1>2 DEF RowOK, Noted, Columns
  <2>2. ledger' = Inserted(row) BY <1>6
  <2> HIDE DEF row
  <2>3. LedgerGrows(BuyIds) BY <1>2, <2>1, <2>2, LedgerInserts DEF LiveInv, Facts
  <2> QED BY <1>1, <1>4, <1>6, <2>3, StopEndsOK, CallAside
<1> QED BY <1>5, <1>6 DEF PlacesStop

LEMMA RecordStopKeeps ==
    ASSUME LiveInv, NEW p \in Caller, RecordsStop(p)
    PROVE  LiveInv'
<1> DEFINE row == RowOf(task[p].got, task[p].at)
<1>1. /\ UNCHANGED <<time, history>> /\ recon' = recon /\ venue' = venue
      /\ ledger' = Inserted(row) /\ task[p].pc = "stopped" /\ StopEnds(p)
  BY DEF RecordsStop
<1>2. TaskOK(p) /\ VenueGrows(BuyIds) /\ Forward BY <1>1, Unmoved, TaskFacts, Stands
<1>3. task[p].got.cid \notin BuyIds BY <1>1, <1>2 DEF TaskOK, Selling
<1>4. RowOK(row) /\ row.cid \notin BuyIds BY <1>3, RowOfOK DEF OrderOK
<1> HIDE DEF row
<1>5. LedgerGrows(BuyIds) BY <1>1, <1>2, <1>4, LedgerInserts DEF LiveInv, Facts
<1> QED BY <1>1, <1>2, <1>5, StopEndsOK, CallAside

\* What a reconcile has listed stays an older reading when it goes on.
LEMMA CopyStays ==
    ASSUME NEW r, CopyOK(r), Forward, VenueGrows(BuyIds), LedgerGrows(BuyIds),
           recon'[r].copy = recon[r].copy
    PROVE  CopyOK(r)' /\ ToWrite(r)' = ToWrite(r)
<1>1. ASSUME NEW cid \in BuyIds, Of(venue, cid) # {} PROVE Of(venue, cid)' # {}
  BY <1>1 DEF Of, VenueGrows
<1>2. Clean' \subseteq Clean BY DEF Forward
<1>3. CopyOK(r)' BY <1>1, <1>2 DEF CopyOK, LedgerGrows
<1> QED BY <1>3 DEF ToWrite

LEMMA ReconFacts ==
    ASSUME LiveInv, NEW r \in Reconcilers
    PROVE  /\ ReconOK(r)
           /\ \A s : recon' = [recon EXCEPT ![r] = s] => recon'[r] = s
           /\ DOMAIN ledger \subseteq Nat
<1>1. ReconOK(r) /\ \A s : recon' = [recon EXCEPT ![r] = s] => recon'[r] = s
  BY DEF LiveInv, Recons
<1>2. DOMAIN ledger \subseteq Nat BY Positions DEF LiveInv, LedgerShape
<1> QED BY <1>1, <1>2

LEMMA ReconListKeeps ==
    ASSUME LiveInv, NEW r \in Reconcilers, ReconLists(r)
    PROVE  LiveInv'
<1>1. UNCHANGED <<time, history>> /\ task' = task /\ ledger' = ledger /\ venue' = venue
  BY DEF ReconLists
<1>2. VenueGrows(BuyIds) /\ LedgerGrows(BuyIds) /\ Clean' = Clean BY <1>1, Unmoved, Stands
<1>3. recon'[r] = [IdleRecon EXCEPT !.pc = "rows", !.rows = OpenRows, !.copy = ledger]
  BY ReconFacts DEF ReconLists, SetsRecon
<1>4. /\ recon'[r].pc = "rows" /\ recon'[r].rows = OpenRows /\ recon'[r].copy = ledger
      /\ DOMAIN recon'[r] = RFields
  BY <1>3 DEF IdleRecon, RFields
<1>5. CopyOK(r)'
  <2> SUFFICES ASSUME NEW n \in DOMAIN ledger
               PROVE  /\ DOMAIN ledger[n] = Columns
                      /\ ledger[n].cid \in BuyIds => ledger[n].type = "MARKET"
                      /\ ledger[n].cid \in BuyIds /\ ledger[n].status \in OpenStatus =>
                             Of(venue, ledger[n].cid) # {} /\ ledger[n].done > 0
    BY <1>1, <1>2, <1>4 DEF CopyOK, Of
  <2>1. RowOK(ledger[n]) BY DEF LiveInv, LedgerShape
  <2> QED BY <2>1 DEF RowOK, LiveInv, Facts, Backed
<1>6. recon'[r].rows \subseteq ToWrite(r)'
  BY <1>4 DEF ToWrite, OpenRows
<1>7. ReconOK(r)' BY <1>4, <1>5, <1>6 DEF ReconOK
<1> QED BY <1>1, <1>2, <1>7, ReconKeeps DEF ReconLists, SetsRecon

LEMMA ReconQueryKeeps ==
    ASSUME LiveInv, NEW r \in Reconcilers, ReconQueries(r)
    PROVE  LiveInv'
<1> DEFINE n == Min(recon[r].rows)
           cid == recon[r].copy[n].cid
           o == Known(cid)
<1>1. /\ UNCHANGED <<time, history>> /\ task' = task /\ ledger' = ledger /\ venue' = venue
      /\ recon[r].pc = "rows"
  BY DEF ReconQueries
<1>2. VenueGrows(BuyIds) /\ LedgerGrows(BuyIds) /\ Forward BY <1>1, Unmoved, Stands
<1>3. ReconOK(r) /\ CopyOK(r) BY ReconFacts DEF ReconOK
<1>4. n \in ToWrite(r)
  <2>1. ToWrite(r) \subseteq Nat BY <1>3, ReconFacts DEF ToWrite, CopyOK
  <2>2. recon[r].rows \in SUBSET Nat /\ recon[r].rows # {} /\ recon[r].rows \subseteq ToWrite(r)
    BY <1>3, <2>1 DEF ReconOK, ReconQueries
  <2> QED BY <2>2, MinIn
<1>5. cid \in BuyIds => Listed(o) /\ o.cid = cid
  <2>1. SUFFICES ASSUME cid \in BuyIds PROVE Of(venue, cid) # {}
    BY Answered DEF LiveInv, Known
  <2> QED BY <1>3, <1>4, <2>1 DEF CopyOK, ToWrite
<1>6. PICK s : /\ recon' = [recon EXCEPT ![r] = s]
               /\ \/ s = [recon[r] EXCEPT !.pc = "write", !.at = n, !.rows = @ \ {n}, !.got = o]
                  \/ s = [recon[r] EXCEPT !.rows = @ \ {n}]
  BY DEF ReconQueries, SetsRecon
<1>7. recon'[r] = s BY <1>6, ReconFacts
<1> HIDE DEF n, o
<1>8. /\ DOMAIN s = RFields /\ s.copy = recon[r].copy /\ s.rows \subseteq recon[r].rows
      /\ s.pc = "write" => s.at = n /\ s.got = o
  BY <1>1, <1>3, <1>6 DEF ReconOK, RFields
<1>9. CopyOK(r)' /\ ToWrite(r)' = ToWrite(r) BY <1>2, <1>3, <1>7, <1>8, CopyStays
<1>10. ReconOK(r)'
  <2>1. recon'[r].rows \subseteq ToWrite(r)' BY <1>3, <1>7, <1>8, <1>9 DEF ReconOK
  <2>2. ASSUME recon'[r].pc = "write"
        PROVE  /\ recon'[r].at \in ToWrite(r)'
               /\ recon'[r].copy[recon'[r].at].cid \in BuyIds =>
                      /\ Listed(recon[r].got)'
                      /\ recon'[r].got.cid = recon'[r].copy[recon'[r].at].cid
    <3>1. recon'[r].at = n /\ recon'[r].got = o /\ recon'[r].copy = recon[r].copy
      BY <1>7, <1>8, <2>2
    <3>2. Listed(o) => Listed(recon[r].got)' BY <1>1, <3>1 DEF Listed
    <3> QED BY <1>4, <1>5, <1>9, <3>1, <3>2
  <2> QED BY <1>7, <1>8, <1>9, <2>1, <2>2 DEF ReconOK
<1> QED BY <1>1, <1>2, <1>6, <1>10, ReconKeeps

LEMMA ReconWriteKeeps ==
    ASSUME LiveInv, NEW r \in Reconcilers, ReconWrites(r)
    PROVE  LiveInv'
<1> DEFINE n == recon[r].at
           o == recon[r].got
           row == Updated(recon[r].copy[n], o)
<1>1. /\ UNCHANGED <<time, history>> /\ task' = task /\ venue' = venue
      /\ ledger' = [ledger EXCEPT ![n] = row] /\ recon[r].pc = "write"
  BY DEF ReconWrites
<1>2. VenueGrows(BuyIds) /\ Forward BY <1>1, Unmoved, Stands
<1>3. ReconOK(r) /\ CopyOK(r) BY ReconFacts DEF ReconOK
<1>4. /\ n \in DOMAIN ledger /\ n \in DOMAIN recon[r].copy
      /\ recon[r].copy[n].status \in OpenStatus
      /\ DOMAIN recon[r].copy[n] = Columns /\ recon[r].copy[n].cid = ledger[n].cid
      /\ recon[r].copy[n].at = ledger[n].at
  BY <1>1, <1>3 DEF ReconOK, CopyOK, ToWrite
<1>5. DOMAIN row = Columns /\ row.cid = ledger[n].cid /\ row.at = ledger[n].at
  BY <1>4 DEF Updated, Columns
<1>6. ASSUME ledger[n].cid \in BuyIds
      PROVE  /\ RowOK(row) /\ Of(venue, row.cid) # {}
             /\ ledger[n].cid \in Clean => row.done = ledger[n].done
  <2>1. /\ recon[r].copy[n].type = "MARKET" /\ Of(venue, ledger[n].cid) # {}
        /\ ledger[n].cid \in Clean => ledger[n].done > 0
    BY <1>3, <1>4, <1>6 DEF CopyOK
  <2>2. Listed(o) /\ o.cid = ledger[n].cid
    BY <1>1, <1>3, <1>4, <1>6 DEF ReconOK
  <2>3. OrderOK(o) /\ o # NoOrder
    BY <1>6, <2>2, ListedBuy, OtherTags DEF NoOrder
  <2>4. ledger[n].cid \in Clean => o.done = ledger[n].done
    <3>1. SUFFICES ASSUME ledger[n].cid \in Clean PROVE o.done = ledger[n].done OBVIOUS
    <3>2. PICK m \in DOMAIN venue : venue[m].cid = ledger[n].cid
                                    /\ venue[m].done = ledger[n].done
      BY <1>4, <2>1, <3>1 DEF LiveInv, Facts, FillBacked
    <3>3. ledger[n].cid \in Alone BY <3>1 DEF LiveInv, Calls
    <3> QED BY <2>2, <3>2, <3>3 DEF LiveInv, Facts, OneOrder, Listed
  <2>5. row = [recon[r].copy[n] EXCEPT !.status = lifecycle_status(o), !.done = o.done,
                                       !.term = ~o.open]
    BY <2>3 DEF Updated
  <2>6. row.type = "MARKET" /\ row.done = o.done /\ row.status = lifecycle_status(o)
    BY <1>4, <2>1, <2>5 DEF Columns
  <2>7. o.done \in 0..BuyQty /\ o.qty = BuyQty /\ o.open = FALSE
    BY <1>6, <2>2, <2>3 DEF OrderOK
  <2>8. /\ o.done > 0 => Filled(lifecycle_status(o))
        /\ lifecycle_status(o) \in OpenStatus => o.done > 0
    BY <2>7, LotAssumption DEF lifecycle_status, Filled, OpenStatus
  <2>9. ledger[n].at \in 1..time BY <1>4, <1>6 DEF LiveInv, LedgerShape, RowOK
  <2> HIDE DEF row, o
  <2> QED BY <1>5, <2>1, <2>4, <2>6, <2>7, <2>8, <2>9 DEF RowOK
<1>7. RowOK(row) BY <1>5, <1>6 DEF RowOK
<1>8. row.cid \in Clean => row.done = ledger[n].done BY <1>5, <1>6, OtherTags
<1> HIDE DEF row
<1>9. LedgerGrows(BuyIds)
  BY <1>1, <1>2, <1>4, <1>5, <1>6, <1>7, <1>8, LedgerRewrites DEF LiveInv, Facts
<1>10. recon' = [recon EXCEPT ![r] = [recon[r] EXCEPT !.pc = "rows", !.at = 0, !.got = NoOrder]]
  BY DEF ReconWrites, SetsRecon
<1>11. recon'[r] = [recon[r] EXCEPT !.pc = "rows", !.at = 0, !.got = NoOrder]
  BY <1>10, ReconFacts
<1>12. /\ DOMAIN recon'[r] = RFields /\ recon'[r].pc = "rows"
       /\ recon'[r].copy = recon[r].copy /\ recon'[r].rows = recon[r].rows
  BY <1>3, <1>11 DEF ReconOK, RFields
<1>13. CopyOK(r)' /\ ToWrite(r)' = ToWrite(r) BY <1>2, <1>3, <1>9, <1>12, CopyStays
<1>14. ReconOK(r)' BY <1>3, <1>12, <1>13 DEF ReconOK
<1> QED BY <1>1, <1>2, <1>9, <1>10, <1>14, ReconKeeps

LEMMA ReconEndKeeps ==
    ASSUME LiveInv, NEW r \in Reconcilers, ReconEnds(r)
    PROVE  LiveInv'
<1>1. UNCHANGED <<time, history>> /\ task' = task /\ ledger' = ledger /\ venue' = venue
  BY DEF ReconEnds
<1>2. VenueGrows(BuyIds) /\ LedgerGrows(BuyIds) BY <1>1, Unmoved
<1>3. recon'[r] = IdleRecon BY ReconFacts DEF ReconEnds, SetsRecon
<1>4. ReconOK(r)' BY <1>3 DEF ReconOK, CopyOK, ToWrite, IdleRecon, RFields
<1> QED BY <1>1, <1>2, <1>4, ReconKeeps DEF ReconEnds, SetsRecon

LEMMA TriggerKeeps ==
    ASSUME LiveInv, NEW n \in DOMAIN venue, StopTriggers(n)
    PROVE  LiveInv'
<1>1. UNCHANGED <<time, history>> /\ task' = task /\ recon' = recon /\ ledger' = ledger
  BY DEF StopTriggers
<1>2. PICK d : venue' = [venue EXCEPT ![n].done = d, ![n].open = d < venue[n].qty]
  BY DEF StopTriggers
<1>3. /\ DOMAIN venue' = DOMAIN venue /\ venue' = [m \in DOMAIN venue |-> venue'[m]]
      /\ \A m \in DOMAIN venue \ {n} : venue'[m] = venue[m]
  BY <1>2
<1>4. DOMAIN venue[n] = DOMAIN NoOrder /\ OrderOK(venue[n]) BY DEF LiveInv, VenueShape
<1>5. venue[n].cid \notin BuyIds BY <1>4 DEF OrderOK, StopTriggers
<1>6. DOMAIN venue'[n] = DOMAIN venue[n] /\ venue'[n].cid = venue[n].cid
  BY <1>2, <1>4 DEF NoOrder
<1>7. SeqLike(venue') BY <1>3, Rewritten DEF LiveInv, VenueShape
<1>8. VenueShape'
  BY <1>3, <1>4, <1>5, <1>6, <1>7 DEF LiveInv, VenueShape, OrderOK
<1>9. VenueGrows(BuyIds) BY <1>3, <1>5, <1>6, <1>8 DEF VenueGrows
<1> QED BY <1>1, <1>9, Unmoved, ReconKeeps
-----------------------------------------------------------------------------
LEMMA InitHolds ==
    ASSUME Init PROVE LiveInv
<1>1. venue = <<>> /\ ledger = <<>> /\ raced = {} /\ doubled = {} BY DEF Init
<1>2. SeqLike(<<>>) BY EmptySeq DEF SeqLike
<1>3. VenueShape /\ LedgerShape /\ Facts
  BY <1>1, <1>2
     DEF VenueShape, LedgerShape, Facts, OneOrder, Backed, FillBacked, FillIsLast
<1>4. PICK scene \in Scenes :
          /\ task = [p \in Caller |->
                 IF p \in scene.callers THEN IdleTask ELSE [IdleTask EXCEPT !.pc = "absent"]]
          /\ recon = [r \in Reconcilers |->
                 IF r \in scene.recons THEN IdleRecon ELSE [IdleRecon EXCEPT !.pc = "absent"]]
          /\ time = MaxTime - scene.times + 1
  BY DEF Init
<1>5. Clock
  <2>1. scene.times \in 1..MaxTime /\ MaxTime \in Nat BY LiveBoundAssumption
  <2> QED BY <1>4, <2>1 DEF Clock
<1>6. \A p \in Caller : /\ task[p].cid = <<>> /\ DOMAIN task[p] = Fields
                        /\ task[p].pc \in {"idle", "absent"}
  BY <1>4 DEF IdleTask, Fields
<1>7. Tasks
  <2>1. \A p \in Caller : TaskOK(p) BY <1>6, OtherTags DEF TaskOK, Buying, Selling
  <2>2. DOMAIN task = Caller /\ task = [p \in Caller |-> task[p]] BY <1>4
  <2> QED BY <2>1, <2>2 DEF Tasks
<1>8. Calls
  BY <1>1, <1>6, OtherTags DEF Calls, OneCall, OnePost, Alone, Clean
<1>9. ASSUME NEW r \in Reconcilers
      PROVE  /\ recon[r].copy = <<>> /\ recon[r].rows = {} /\ recon[r].pc # "write"
             /\ DOMAIN recon[r] = RFields
  BY <1>4 DEF IdleRecon, RFields
<1>10. Recons
  <2>1. \A r \in Reconcilers : ReconOK(r) BY <1>9 DEF ReconOK, CopyOK, ToWrite
  <2>2. DOMAIN recon = Reconcilers /\ recon = [r \in Reconcilers |-> recon[r]] BY <1>4
  <2> QED BY <2>1, <2>2 DEF Recons
<1> QED BY <1>3, <1>5, <1>7, <1>8, <1>10 DEF LiveInv

LEMMA StepKeeps ==
    ASSUME LiveInv, [Next]_vars PROVE LiveInv'
<1>1. ASSUME UNCHANGED <<ledger, venue, task, recon, time, history>> PROVE LiveInv'
  BY <1>1, Unmoved, ReconKeeps
<1>2. CASE UNCHANGED vars BY <1>1, <1>2 DEF vars
<1>3. ASSUME NEW p \in Desks, NEW a \in Approvals, ApproveClaims(p, a) PROVE LiveInv'
  BY <1>3, ApproveKeeps
<1>4. ASSUME NEW a \in Approvals, Reoffered(a) PROVE LiveInv' BY <1>1, <1>4 DEF Reoffered
<1>5. ASSUME NEW f \in Flatteners, FlattenStarts(f) PROVE LiveInv' BY <1>5, FlattenKeeps
<1>6. ASSUME NEW p \in Caller, CallStep(p) PROVE LiveInv'
  BY <1>6, InventoryKeeps, LookKeeps, QueryKeeps, ListKeeps, CancelKeeps,
     RecordCancelKeeps, SizeKeeps, PostKeeps, RequeryKeeps, RecordKeeps, PlaceKeeps,
     RecordStopKeeps DEF CallStep
<1>7. ASSUME NEW p \in Caller, Dies(p) PROVE LiveInv' BY <1>7, DiesKeeps
<1>8. ASSUME NEW r \in Reconcilers, ReconStep(r) PROVE LiveInv'
  BY <1>8, ReconListKeeps, ReconQueryKeeps, ReconWriteKeeps, ReconEndKeeps DEF ReconStep
<1>9. ASSUME NEW n \in DOMAIN venue, StopTriggers(n) PROVE LiveInv' BY <1>9, TriggerKeeps
<1>10. CASE Toggle BY <1>1, <1>10 DEF Toggle
<1> QED BY <1>2, <1>3, <1>4, <1>5, <1>6, <1>7, <1>8, <1>9, <1>10 DEF Next

LEMMA AtMostOne ==
    ASSUME NEW S, \A m, n \in S : m = n
    PROVE  Cardinality(S) <= 1
<1>1. CASE S = {} BY <1>1, FS_EmptySet
<1>2. ASSUME NEW m \in S PROVE Cardinality(S) <= 1
  <2>1. S = {m} BY <1>2
  <2>2. Cardinality({m}) = 1 BY FS_Singleton
  <2> QED BY <2>1, <2>2
<1> QED BY <1>1, <1>2

\* However many calls, sellers and reconciles run and whatever is lost or dies, the
\* venue gets at most one BUY of an approval, unless two calls of it stood at their
\* POST at once.
THEOREM OneBuyEver == Spec => []OneBuyPerApproval
<1>1. ASSUME LiveInv PROVE OneBuyPerApproval
  <2> SUFFICES ASSUME NEW a \in Longs \ raced PROVE Cardinality(BuysOf(a)) <= 1
    BY DEF OneBuyPerApproval
  <2>1. IdOf(a) \in Alone BY DEF Alone
  <2>2. \A m, n \in BuysOf(a) : m = n
    BY <1>1, <2>1 DEF LiveInv, Facts, OneOrder, BuysOf, Of
  <2> QED BY <2>2, AtMostOne
<1> QED BY <1>1, InitHolds, StepKeeps, PTL DEF Spec

\* And live_orders holds its fill in at most one row, so no fill is counted twice
\* in the inventory, where its calls came one after the other.
THEOREM FillCountedOnce == Spec => []BuysCountedOnce
<1>1. ASSUME LiveInv PROVE BuysCountedOnce
  <2> SUFFICES ASSUME NEW a \in Longs \ doubled
               PROVE  Cardinality({n \in Of(ledger, IdOf(a)) : ledger[n].done > 0}) <= 1
    BY DEF BuysCountedOnce
  <2> DEFINE S == {n \in Of(ledger, IdOf(a)) : ledger[n].done > 0}
  <2>1. IdOf(a) \in Clean BY DEF Clean
  <2>2. \A m, n \in S : m <= n /\ n <= m
    BY <1>1, <2>1 DEF LiveInv, Facts, FillIsLast, Of
  <2>3. S \subseteq Nat BY <1>1, Positions DEF LiveInv, LedgerShape, Of
  <2>4. \A m, n \in S : m = n BY <2>2, <2>3
  <2> QED BY <2>4, AtMostOne
<1> QED BY <1>1, InitHolds, StepKeeps, PTL DEF Spec
=============================================================================
