-------------------------- MODULE AssistJournalProofs --------------------------
(***************************************************************************)
(* Theorems about AssistJournal, for any numbers of fills, attempts, taps  *)
(* and mishaps: a card is delivered once, the last grade stands, and a row *)
(* that says closed was sold, however the tables are rebuilt.              *)
(***************************************************************************)
EXTENDS AssistJournal, SetLemmas

(***************************************************************************)
(* Types.                                                                  *)
(***************************************************************************)
Fills == [kind : {"entry", "hand", "exit"}, qty : Nat]
WatchRows == [state : {"none", "open", "closed"}, avg : Nat, entry : Nat, since : Nat, closed : Nat,
              tries : Nat, rested : BOOLEAN, old : BOOLEAN]
JournalRows == [in : BOOLEAN, card : Nat, grade : {"none", "pass", "fail"}, tag : BOOLEAN, note : BOOLEAN]
Ticks == [pc : {"idle", "first", "send1", "build", "write", "insert", "second", "send2", "record"},
          queue : SUBSET Places, since : Nat, n : Nat, e : Places \cup {0}]
Taps == [e : Places, card : Nat, kind : {"pass", "fail", "tag", "done", "note"}]

MarketTyped == hist \in Seq(Fills) /\ Len(hist) <= MaxFills /\ pos \in Nat
WatchTyped  == row \in WatchRows /\ looked \in Nat /\ tick \in Ticks
ReportTyped == report \in [pc : {"idle", "write"}, n : Nat]
TablesTyped == real \in [Places -> {"none", "open", "closed"}] /\ jrn \in [Places -> JournalRows]
TalkTyped   == handled \in Nat /\ inbox \in Seq(Taps) /\ offset \in Nat
CountsTyped == sent \in [Places -> Nat] /\ unsaved \in [Places -> Nat] /\ events \in Nat

JournalTyped == MarketTyped /\ WatchTyped /\ ReportTyped /\ TablesTyped /\ TalkTyped /\ CountsTyped

(***************************************************************************)
(* Cards.  A row whose card is not stored and is not in the sender's hand  *)
(* has had no delivery but those whose id was lost.                        *)
(***************************************************************************)
InHand   == tick.e # 0 => tick.pc \in {"send1", "send2"} /\ sent[tick.e] > 0
NoneYet  == \A e \in Places : jrn[e].card = 0 /\ tick.e # e => sent[e] <= unsaved[e]
SentIsIn == \A e \in Places : sent[e] > 0 => jrn[e].in
InOrder  == offset <= handled /\ handled <= Len(inbox)

CardFacts == InHand /\ NoneYet /\ SentIsIn /\ CardOnce
CardInv   == JournalTyped /\ InOrder /\ CardFacts

(***************************************************************************)
(* Grades.  What a row holds is the last grade among the first h taps, for *)
(* an h between what the listener is through with and all of them: after a *)
(* redelivery it is ahead.                                                 *)
(***************************************************************************)
GradeTaps(e, h) == {k \in 1..h : inbox[k].e = e /\ inbox[k].kind \in {"pass", "fail"}}
GradeAt(e, h) == IF GradeTaps(e, h) = {} THEN "none" ELSE inbox[Max(GradeTaps(e, h))].kind

TappedIsIn == \A k \in 1..Len(inbox) : jrn[inbox[k].e].in
UngradedOut == \A e \in Places : ~jrn[e].in => jrn[e].grade = "none"
GradedAt == \A e \in Places : \E h \in handled..Len(inbox) : jrn[e].grade = GradeAt(e, h)

GradeFacts == TappedIsIn /\ UngradedOut /\ GradedAt
GradeInv == CardInv /\ GradeFacts

(***************************************************************************)
(* Closed rows.  An entry that is not the last was sold in full before the *)
(* next one, and what the last one bought is still held where it was not   *)
(* sold.                                                                   *)
(***************************************************************************)
SoldIn(h, S)  == SumFunctionOnSet([k \in S |-> h[k].qty], S)
Later(h, e)   == {k \in (e + 1)..Len(h) : h[k].kind = "entry"}
Own(h, e)     == {k \in (e + 1)..Len(h) : h[k].kind = "exit" /\ \A x \in Later(h, e) : k < x}
Balanced(h, held) ==
    \A e \in 1..Len(h) :
       h[e].kind = "entry" => SoldIn(h, Own(h, e)) + (IF Later(h, e) = {} THEN held ELSE 0) >= Size

SoldThrough  == Balanced(hist, pos)
HeldIsBought == pos > 0 => Now > 0
ReadsPast ==
    /\ row.state # "none" => row.since >= 1
    /\ tick.pc \in {"build", "write"} => tick.since >= 1
    /\ tick.n <= Now /\ report.n <= Now
RowsAreEntries == \A e \in Places : real[e] # "none" => e <= Now /\ hist[e].kind = "entry"

SoldFacts == SoldThrough /\ HeldIsBought /\ ReadsPast /\ RowsAreEntries /\ ClosedRowsSold
SoldInv == CardInv /\ SoldFacts
-----------------------------------------------------------------------------
(* Types.                                                                  *)

LEMMA AverageTyped == JournalTyped => Average \in Nat
<1> SUFFICES ASSUME JournalTyped PROVE Average \in Nat
  OBVIOUS
<1>1. Now \in Nat
  BY DEF JournalTyped, MarketTyped, Now
<1>2. /\ {0} \cup {k \in 1..Now : hist[k].kind # "exit"} \in SUBSET (0..Now)
      /\ {0} \cup {k \in 1..Now : hist[k].kind # "exit"} # {}
  BY <1>1
<1>3. Average \in {0} \cup {k \in 1..Now : hist[k].kind # "exit"}
  BY <1>1, <1>2, MaxIn DEF Average
<1> QED
  BY <1>1, <1>3

\* The least of two numbers.
LEMMA LeastOfTwo ==
    ASSUME NEW a \in Nat, NEW b \in Nat
    PROVE  Min({a, b}) \in {a, b} /\ Min({a, b}) <= a /\ Min({a, b}) <= b
<1>1. {a, b} \in SUBSET Nat /\ {a, b} # {}
  OBVIOUS
<1> QED
  BY <1>1, MinIn

LEMMA AsleepTyped == Asleep \in Ticks
BY DEF Asleep, Ticks

\* Any step of the tick is one of its states.
LEMMA ThenTyped ==
    ASSUME JournalTyped,
           NEW pc \in {"idle", "first", "send1", "build", "write", "insert", "second", "send2", "record"},
           NEW n \in Nat
    PROVE  Then(pc) \in Ticks /\ [Then(pc) EXCEPT !.n = n] \in Ticks
BY DEF Then, Ticks, JournalTyped, WatchTyped

\* What a sender does when it is through.
LEMMA SentIs ==
    ASSUME JournalTyped, NEW pc \in {"send1", "send2"}
    PROVE  /\ Sent(pc) \in Ticks
           /\ Sent(pc).e = 0 /\ Sent(pc).queue = {} /\ Sent(pc).n = 0
           /\ Sent(pc).pc \in {"idle", "build", "record"}
           /\ Sent(pc).pc = "build" => row.state = "closed" /\ Sent(pc).since = row.since
BY DEF JournalTyped, WatchTyped, WatchRows, Ticks, Sent, Asleep, Due, Needed

LEMMA BehindIs ==
    ASSUME JournalTyped, NEW pc \in {"send1", "send2"}, NEW e \in Places
    PROVE  /\ Behind(e, pc) \in Ticks
           /\ Behind(e, pc).e = 0
           /\ Behind(e, pc) = Sent(pc) \/ (Behind(e, pc).pc = pc /\ Behind(e, pc).n = tick.n)
BY SentIs DEF JournalTyped, WatchTyped, Ticks, Behind

\* Rebuilding gives each row a state.
LEMMA ReplacedTyped ==
    ASSUME NEW since, NEW n, real \in [Places -> {"none", "open", "closed"}]
    PROVE  Replaced(since, n) \in [Places -> {"none", "open", "closed"}]
BY DEF Replaced, Rebuilt

LEMMA GradedTyped ==
    ASSUME NEW j \in JournalRows, NEW kind, NEW card \in Nat
    PROVE  /\ Graded(j, kind) \in JournalRows /\ WithCard(j, card) \in JournalRows
           /\ Journaled(j) \in JournalRows /\ [j EXCEPT !.note = TRUE] \in JournalRows
BY DEF Graded, WithCard, Journaled, NoJournal, JournalRows

LEMMA TypedInit == Init => JournalTyped
BY JournalBounds
   DEF Init, JournalTyped, MarketTyped, WatchTyped, ReportTyped, TablesTyped, TalkTyped, CountsTyped,
       NoRow, WatchRows, Asleep, Ticks, NoJournal, JournalRows, Places

LEMMA TradeTyped == JournalTyped /\ Trade => JournalTyped'
<1> SUFFICES ASSUME JournalTyped, Trade PROVE JournalTyped'
  OBVIOUS
<1>1. \E kind \in {"entry", "hand", "exit"}, qty \in Nat : Fill(kind, qty)
  BY JournalBounds DEF Trade, Enter, Buy, Sell, JournalTyped, MarketTyped
<1>2. PICK kind \in {"entry", "hand", "exit"}, qty \in Nat : Fill(kind, qty)
  BY <1>1
<1>3. hist' \in Seq(Fills) /\ Len(hist') = Len(hist) + 1 /\ Len(hist') <= MaxFills
  BY <1>2, JournalBounds DEF Fill, Fills, JournalTyped, MarketTyped, Now
<1>4. pos' \in Nat /\ events' \in Nat
  BY JournalBounds DEF Trade, Enter, Buy, Sell, JournalTyped, MarketTyped, CountsTyped, Mishap
<1> QED
  BY <1>3, <1>4
     DEF Trade, JournalTyped, MarketTyped, WatchTyped, ReportTyped, TablesTyped, TalkTyped, CountsTyped, talk

LEMMA ClockTyped == JournalTyped /\ Clock => JournalTyped'
<1> SUFFICES ASSUME JournalTyped, Clock PROVE JournalTyped'
  OBVIOUS
<1>1. row' \in WatchRows
  BY DEF Clock, Rest, Lapse, JournalTyped, WatchTyped, WatchRows
<1>2. events' \in Nat
  BY DEF Clock, Rest, Lapse, Mishap, JournalTyped, CountsTyped
<1> QED
  BY <1>1, <1>2
     DEF Clock, JournalTyped, MarketTyped, WatchTyped, ReportTyped, TablesTyped, TalkTyped, CountsTyped, talk, market

LEMMA LookTyped == JournalTyped /\ Look => JournalTyped'
<1> SUFFICES ASSUME JournalTyped, Look PROVE JournalTyped'
  OBVIOUS
<1>1. Now \in Nat /\ Average \in Nat /\ looked + 1 \in Nat
  BY AverageTyped DEF JournalTyped, MarketTyped, WatchTyped, Now
<1>2. Min({looked + 1, Now}) \in Nat
  BY <1>1, LeastOfTwo
<1>3. row' \in WatchRows
  BY <1>1, <1>2 DEF Look, NoRow, WatchRows, JournalTyped, WatchTyped
<1>4. looked' \in Nat /\ tick' \in Ticks
  BY <1>1 DEF Look, Step, Then, JournalTyped, WatchTyped, Ticks
<1> QED
  BY <1>3, <1>4
     DEF Look, JournalTyped, MarketTyped, WatchTyped, ReportTyped, TablesTyped, TalkTyped, CountsTyped, talk, market

LEMMA DeliverTyped ==
    ASSUME JournalTyped, NEW from, NEW to \in {"send1", "send2"}, Deliver(from, to)
    PROVE  JournalTyped'
<1>1. Sent(to) \in Ticks /\ Pending \in SUBSET Places
  BY SentIs DEF Pending
<1>2. events' \in Nat
  <2>1. events' = events \/ events' = events + 1
    BY DEF Deliver, Mishap
  <2> QED
    BY <2>1 DEF JournalTyped, CountsTyped
<1>3. tick' \in Ticks
  <2>1. tick' = Sent(to) \/ tick' = [tick EXCEPT !.pc = to, !.queue = Pending]
    BY DEF Deliver, Step
  <2>2. [tick EXCEPT !.pc = to, !.queue = Pending] \in Ticks
    BY <1>1 DEF JournalTyped, WatchTyped, Ticks
  <2> QED
    BY <1>1, <2>1, <2>2
<1> QED
  BY <1>2, <1>3
     DEF Deliver, JournalTyped, MarketTyped, WatchTyped, ReportTyped, TablesTyped, TalkTyped, CountsTyped, talk, market

LEMMA SendCardTyped ==
    ASSUME JournalTyped, NEW e \in Places, SendCard(e)
    PROVE  JournalTyped'
<1>1. Behind(e, tick.pc) \in Ticks
  BY BehindIs DEF SendCard
<1>2. tick' \in Ticks
  BY <1>1 DEF SendCard, Step, JournalTyped, WatchTyped, Ticks
<1>3. events' \in Nat /\ sent' \in [Places -> Nat] /\ unsaved' \in [Places -> Nat]
  BY DEF SendCard, Mishap, JournalTyped, CountsTyped
<1> QED
  BY <1>2, <1>3
     DEF SendCard, JournalTyped, MarketTyped, WatchTyped, ReportTyped, TablesTyped, TalkTyped, CountsTyped, talk, market

LEMMA StoreCardTyped == JournalTyped /\ InHand /\ StoreCard => JournalTyped'
<1> SUFFICES ASSUME JournalTyped, InHand, StoreCard PROVE JournalTyped'
  OBVIOUS
<1>1. tick.e \in Places /\ tick.pc \in {"send1", "send2"}
  BY DEF StoreCard, InHand, JournalTyped, WatchTyped, Ticks
<1>2. tick' \in Ticks
  BY <1>1, BehindIs DEF StoreCard, Step
<1>3. jrn' \in [Places -> JournalRows]
  BY <1>1, GradedTyped DEF StoreCard, JournalTyped, TablesTyped, CountsTyped
<1> QED
  BY <1>2, <1>3
     DEF StoreCard, JournalTyped, MarketTyped, WatchTyped, ReportTyped, TablesTyped, TalkTyped, CountsTyped, talk, market

LEMMA BuildTyped == JournalTyped /\ Build => JournalTyped'
<1> SUFFICES ASSUME JournalTyped, Build PROVE JournalTyped'
  OBVIOUS
<1>1. events' \in Nat
  <2>1. events' = events \/ events' = events + 1
    BY DEF Build, Read, Mishap
  <2> QED
    BY <2>1 DEF JournalTyped, CountsTyped
<1>2. Now \in Nat
  BY DEF Now, JournalTyped, MarketTyped
<1>3. tick' \in Ticks
  <2>1. \/ \E n \in 0..Now : tick' = [Then("write") EXCEPT !.n = n]
        \/ tick' = Then("record")
    BY DEF Build, Step
  <2>2. \A n \in 0..Now : n \in Nat /\ [Then("write") EXCEPT !.n = n] \in Ticks
    BY <1>2, ThenTyped DEF JournalTyped
  <2>3. Then("record") \in Ticks
    BY ThenTyped DEF JournalTyped
  <2> QED
    BY <2>1, <2>2, <2>3
<1> QED
  BY <1>1, <1>3
     DEF Build, JournalTyped, MarketTyped, WatchTyped, ReportTyped, TablesTyped, TalkTyped, CountsTyped, talk, market

LEMMA WriteTyped == JournalTyped /\ Write => JournalTyped'
<1> SUFFICES ASSUME JournalTyped, Write PROVE JournalTyped'
  OBVIOUS
<1>1. real' \in [Places -> {"none", "open", "closed"}]
  BY ReplacedTyped DEF Write, JournalTyped, TablesTyped
<1>2. tick' \in Ticks
  BY DEF Write, Step, JournalTyped, WatchTyped, Ticks
<1> QED
  BY <1>1, <1>2
     DEF Write, JournalTyped, MarketTyped, WatchTyped, ReportTyped, TablesTyped, TalkTyped, CountsTyped, talk, market

LEMMA InsertTyped == JournalTyped /\ Insert => JournalTyped'
<1> SUFFICES ASSUME JournalTyped, Insert PROVE JournalTyped'
  OBVIOUS
<1>1. jrn' \in [Places -> JournalRows]
  <2>1. \A e \in Places : Journaled(jrn[e]) \in JournalRows
    BY GradedTyped DEF JournalTyped, TablesTyped
  <2> QED
    BY <2>1 DEF Insert, JournalTyped, TablesTyped
<1>2. tick' \in Ticks
  BY DEF Insert, Step, JournalTyped, WatchTyped, Ticks
<1> QED
  BY <1>1, <1>2
     DEF Insert, JournalTyped, MarketTyped, WatchTyped, ReportTyped, TablesTyped, TalkTyped, CountsTyped, talk, market

LEMMA RecordTyped == JournalTyped /\ Record => JournalTyped'
<1> SUFFICES ASSUME JournalTyped, Record PROVE JournalTyped'
  OBVIOUS
<1>1. row' \in WatchRows
  <2>1. row.tries + 1 \in Nat /\ row' = [[row EXCEPT !.tries = row.tries + 1] EXCEPT !.rested = FALSE]
    BY DEF Record, JournalTyped, WatchTyped, WatchRows
  <2> QED
    BY <2>1 DEF JournalTyped, WatchTyped, WatchRows
<1>2. tick' \in Ticks
  BY AsleepTyped DEF Record, Step
<1> QED
  BY <1>1, <1>2
     DEF Record, JournalTyped, MarketTyped, WatchTyped, ReportTyped, TablesTyped, TalkTyped, CountsTyped, talk, market

LEMMA ReportTypes == JournalTyped /\ Report => JournalTyped'
<1> SUFFICES ASSUME JournalTyped, Report PROVE JournalTyped'
  OBVIOUS
<1>1. real' \in [Places -> {"none", "open", "closed"}] /\ report' \in [pc : {"idle", "write"}, n : Nat]
  BY ReplacedTyped DEF Report, ReportBuild, ReportWrite, JournalTyped, TablesTyped, MarketTyped, Now
<1> QED
  BY <1>1
     DEF Report, ReportBuild, ReportWrite, JournalTyped, MarketTyped, WatchTyped, ReportTyped, TablesTyped, TalkTyped,
         CountsTyped, talk, market

LEMMA TapTyped == JournalTyped /\ Tap => JournalTyped'
<1> SUFFICES ASSUME JournalTyped, Tap PROVE JournalTyped'
  OBVIOUS
<1>1. Script[Len(inbox) + 1] \in {"pass", "fail", "tag", "done", "note"}
  BY JournalTaps DEF Tap, JournalTyped, TalkTyped
<1>2. PICK e \in Places : \E card \in 1..sent[e] :
           inbox' = Append(inbox, [e |-> e, card |-> card, kind |-> Script[Len(inbox) + 1]])
  BY DEF Tap
<1>3. inbox' \in Seq(Taps) /\ events' \in Nat
  BY <1>1, <1>2 DEF Tap, Taps, Mishap, JournalTyped, TalkTyped, CountsTyped
<1> QED
  BY <1>3
     DEF Tap, JournalTyped, MarketTyped, WatchTyped, ReportTyped, TablesTyped, TalkTyped, CountsTyped, market

LEMMA ListenTyped == JournalTyped /\ InOrder /\ (Listen \/ Redeliver) => JournalTyped'
<1> SUFFICES ASSUME JournalTyped, InOrder, Listen \/ Redeliver PROVE JournalTyped'
  OBVIOUS
<1>1. ASSUME Handle PROVE jrn' \in [Places -> JournalRows] /\ handled' \in Nat
  <2>1. handled' \in Nat /\ inbox[handled'] \in Taps
    BY <1>1 DEF Handle, JournalTyped, TalkTyped
  <2>2. PICK tap \in Taps : tap = inbox[handled']
    BY <2>1
  <2>3. jrn[tap.e] \in JournalRows /\ tap.card \in Nat
    BY <2>2 DEF Taps, JournalTyped, TablesTyped
  <2>4. /\ Graded(WithCard(jrn[tap.e], tap.card), tap.kind) \in JournalRows
        /\ [jrn[tap.e] EXCEPT !.note = TRUE] \in JournalRows
    BY <2>3, GradedTyped
  <2> QED
    BY <1>1, <2>1, <2>2, <2>3, <2>4 DEF Handle, JournalTyped, TablesTyped
<1> QED
  BY <1>1
     DEF Listen, Handle, StoreOffset, Redeliver, JournalTyped, MarketTyped, WatchTyped, ReportTyped, TablesTyped,
         TalkTyped, CountsTyped, market

LEMMA DieTyped == JournalTyped /\ Die => JournalTyped'
<1> SUFFICES ASSUME JournalTyped, Die PROVE JournalTyped'
  OBVIOUS
<1>1. tick' \in Ticks /\ events' \in Nat
  BY AsleepTyped DEF Die, Mishap, JournalTyped, CountsTyped
<1>2. unsaved' \in [Places -> Nat] /\ report' \in [pc : {"idle", "write"}, n : Nat]
  <2>1. \A e \in Places : unsaved[e] + 1 \in Nat
    BY DEF JournalTyped, CountsTyped
  <2> QED
    BY <2>1 DEF Die, JournalTyped, CountsTyped
<1> QED
  BY <1>1, <1>2
     DEF Die, JournalTyped, MarketTyped, WatchTyped, ReportTyped, TablesTyped, TalkTyped, CountsTyped, market, talk

-----------------------------------------------------------------------------
(* Cards.                                                                  *)

\* What does not touch the cards, the rows or the one in hand.
Apart ==
    /\ UNCHANGED <<jrn, sent, unsaved>>
    /\ tick' = tick \/ (tick.e = 0 /\ tick'.e = 0)

LEMMA ApartKeeps == CardFacts /\ Apart => CardFacts'
BY DEF CardFacts, Apart, InHand, NoneYet, SentIsIn, CardOnce

LEMMA OthersApart ==
    ASSUME JournalTyped, InHand, Trade \/ Clock \/ Report \/ Tap \/ StoreOffset \/ Redeliver
    PROVE  Apart
BY DEF Apart, Trade, Clock, Report, ReportBuild, ReportWrite, Tap, StoreOffset, Redeliver

LEMMA TickApart ==
    ASSUME JournalTyped, InHand,
           Look \/ Deliver("first", "send1") \/ Deliver("second", "send2") \/ Build \/ Write \/ Record
    PROVE  Apart
<1>1. UNCHANGED <<jrn, sent, unsaved>>
  BY DEF Look, Deliver, Build, Write, Record
<1>2. tick.pc \in {"idle", "first", "second", "build", "write", "record"}
  BY DEF Look, Deliver, Build, Write, Record
<1>3. tick.e = 0
  BY <1>2 DEF InHand
<1>4. \A pc : Then(pc).e = 0
  BY <1>3 DEF Then, JournalTyped, WatchTyped, Ticks
<1>5. ASSUME Look PROVE tick'.e = 0
  BY <1>4, <1>5 DEF Look, Step
<1>6. ASSUME NEW from, NEW to \in {"send1", "send2"}, Deliver(from, to) PROVE tick'.e = 0
  <2>1. [tick EXCEPT !.pc = to, !.queue = Pending].e = 0
    BY <1>3 DEF JournalTyped, WatchTyped, Ticks
  <2> QED
    BY <1>6, <2>1, SentIs DEF Deliver, Step
<1>7. ASSUME Build PROVE tick'.e = 0
  <2>1. \A n : [Then("write") EXCEPT !.n = n].e = 0
    BY <1>3 DEF Then, JournalTyped, WatchTyped, Ticks
  <2> QED
    BY <1>4, <1>7, <2>1 DEF Build, Step
<1>8. ASSUME Write PROVE tick'.e = 0
  BY <1>3, <1>8 DEF Write, Step, JournalTyped, WatchTyped, Ticks
<1>9. ASSUME Record PROVE tick'.e = 0
  BY <1>9 DEF Record, Step, Asleep
<1> QED
  BY <1>1, <1>3, <1>5, <1>6, <1>7, <1>8, <1>9 DEF Apart

LEMMA SendCardOnce ==
    ASSUME JournalTyped, CardFacts, NEW e \in Places, SendCard(e)
    PROVE  CardFacts'
<1>0. /\ tick.pc \in {"send1", "send2"} /\ tick.e = 0 /\ jrn' = jrn
      /\ e # 0 /\ sent[e] \in Nat /\ unsaved[e] \in Nat
      /\ sent \in [Places -> Nat] /\ unsaved \in [Places -> Nat]
  BY DEF SendCard, JournalTyped, CountsTyped, Places
<1>1. Behind(e, tick.pc).e = 0
  BY <1>0, BehindIs
<1>2. CASE tick' = Behind(e, tick.pc) /\ UNCHANGED <<sent, unsaved>>
  BY <1>0, <1>1, <1>2 DEF CardFacts, InHand, NoneYet, SentIsIn, CardOnce
<1>3. CASE /\ WorthSending(e) /\ tick' = [tick EXCEPT !.e = e]
           /\ sent' = [sent EXCEPT ![e] = @ + 1] /\ unsaved' = unsaved
  <2>1. tick'.e = e /\ tick'.pc = tick.pc
    BY <1>3 DEF JournalTyped, WatchTyped, Ticks
  <2>2. sent[e] <= unsaved[e] /\ jrn[e].in
    BY <1>0, <1>3 DEF WorthSending, CardFacts, NoneYet
  <2>3. /\ sent'[e] = sent[e] + 1 /\ sent'[e] > 0 /\ sent'[e] <= 1 + unsaved[e]
        /\ \A x \in Places : x # e => sent'[x] = sent[x]
    BY <1>0, <1>3, <2>2
  <2>4. InHand'
    BY <1>0, <2>1, <2>3 DEF InHand
  <2>5. NoneYet' /\ CardOnce'
    <3>1. \A x \in Places : x # 0
      BY DEF Places
    <3> QED
      BY <1>0, <1>3, <2>1, <2>3, <3>1 DEF CardFacts, NoneYet, CardOnce
  <2>6. SentIsIn'
    BY <1>0, <2>2, <2>3 DEF CardFacts, SentIsIn
  <2> QED
    BY <2>4, <2>5, <2>6 DEF CardFacts
<1>4. CASE /\ WorthSending(e) /\ tick' = Behind(e, tick.pc)
           /\ sent' = [sent EXCEPT ![e] = @ + 1] /\ unsaved' = [unsaved EXCEPT ![e] = @ + 1]
  <2>1. sent[e] <= unsaved[e] /\ jrn[e].in
    BY <1>0, <1>4 DEF WorthSending, CardFacts, NoneYet
  <2>2. /\ sent'[e] = sent[e] + 1 /\ unsaved'[e] = unsaved[e] + 1 /\ sent'[e] <= unsaved'[e]
        /\ \A x \in Places : x # e => sent'[x] = sent[x] /\ unsaved'[x] = unsaved[x]
    BY <1>0, <1>4, <2>1
  <2>3. sent'[e] <= 1 + unsaved'[e]
    BY <1>0, <2>2
  <2> QED
    BY <1>0, <1>1, <1>4, <2>1, <2>2, <2>3 DEF CardFacts, InHand, NoneYet, SentIsIn, CardOnce
<1> QED
  BY <1>2, <1>3, <1>4 DEF SendCard, Step

LEMMA StoreCardOnce == JournalTyped /\ CardFacts /\ StoreCard => CardFacts'
<1> SUFFICES ASSUME JournalTyped, CardFacts, StoreCard PROVE CardFacts'
  OBVIOUS
<1>1. /\ tick.e \in Places /\ tick.pc \in {"send1", "send2"} /\ sent[tick.e] > 0
      /\ UNCHANGED <<sent, unsaved>> /\ jrn \in [Places -> JournalRows]
      /\ sent[tick.e] \in Nat
  BY DEF StoreCard, CardFacts, InHand, JournalTyped, WatchTyped, Ticks, TablesTyped, CountsTyped
<1>2. tick'.e = 0
  BY <1>1, BehindIs DEF StoreCard, Step
<1>3. /\ jrn'[tick.e] = WithCard(jrn[tick.e], sent[tick.e])
      /\ \A x \in Places : x # tick.e => jrn'[x] = jrn[x]
  BY <1>1 DEF StoreCard
<1>4. jrn'[tick.e].card # 0 /\ jrn'[tick.e].in = jrn[tick.e].in
  BY <1>1, <1>3 DEF WithCard, JournalRows
<1> QED
  BY <1>1, <1>2, <1>3, <1>4 DEF CardFacts, InHand, NoneYet, SentIsIn, CardOnce

LEMMA InsertOnce == JournalTyped /\ CardFacts /\ Insert => CardFacts'
<1> SUFFICES ASSUME JournalTyped, CardFacts, Insert PROVE CardFacts'
  OBVIOUS
<1>1. tick.e = 0 /\ tick'.e = 0
  BY DEF Insert, Step, CardFacts, InHand, JournalTyped, WatchTyped, Ticks
<1>2. UNCHANGED <<sent, unsaved>>
  BY DEF Insert
<1>3. \A x \in Places : jrn'[x] = jrn[x] \/ jrn'[x] = Journaled(jrn[x])
  BY DEF Insert, JournalTyped, TablesTyped
<1>4. \A x \in Places : jrn[x].in => jrn'[x] = jrn[x]
  BY <1>3 DEF Journaled
<1>5. \A x \in Places : ~jrn[x].in => sent[x] = 0 /\ unsaved[x] \in Nat
  BY DEF CardFacts, SentIsIn, JournalTyped, CountsTyped
<1>6. \A x \in Places : jrn[x].in => jrn'[x].in
  BY <1>4
<1> QED
  BY <1>1, <1>2, <1>4, <1>5, <1>6 DEF CardFacts, InHand, NoneYet, SentIsIn, CardOnce

\* What a tap does to the row it names.
LEMMA HandleIs ==
    ASSUME JournalTyped, InOrder, Handle
    PROVE  \E tap \in Taps :
              /\ tap = inbox[handled + 1] /\ handled + 1 \in 1..Len(inbox)
              /\ \A x \in Places : x # tap.e => jrn'[x] = jrn[x]
              /\ jrn'[tap.e].in = jrn[tap.e].in
              /\ jrn'[tap.e].card = 0 => jrn[tap.e].card = 0
              /\ jrn'[tap.e].grade = IF tap.kind \in {"pass", "fail"} THEN tap.kind ELSE jrn[tap.e].grade
<1>1. handled + 1 \in 1..Len(inbox) /\ handled' = handled + 1 /\ inbox[handled + 1] \in Taps
  BY DEF Handle, JournalTyped, TalkTyped
<1>2. PICK tap \in Taps : tap = inbox[handled + 1]
  BY <1>1
<1>3. tap.e \in Places /\ tap.card \in Nat /\ tap.kind \in {"pass", "fail", "tag", "done", "note"}
  BY DEF Taps
<1>4. PICK j \in JournalRows : j = jrn[tap.e]
  BY <1>3 DEF JournalTyped, TablesTyped
<1>5. jrn' = [jrn EXCEPT ![tap.e] = IF tap.kind # "note" THEN Graded(WithCard(j, tap.card), tap.kind)
                                    ELSE IF j.card = tap.card THEN [j EXCEPT !.note = TRUE] ELSE j]
  BY <1>1, <1>2, <1>4 DEF Handle
<1>6. PICK k \in JournalRows : k = WithCard(j, tap.card)
  BY <1>3, GradedTyped
<1>7. k.in = j.in /\ (k.card = 0 => j.card = 0) /\ k.grade = j.grade
  BY <1>6 DEF WithCard, JournalRows
<1>8. /\ Graded(k, tap.kind).in = k.in /\ Graded(k, tap.kind).card = k.card
      /\ Graded(k, tap.kind).grade = IF tap.kind \in {"pass", "fail"} THEN tap.kind ELSE k.grade
  BY <1>3 DEF Graded, JournalRows
<1>9. [j EXCEPT !.note = TRUE].in = j.in /\ [j EXCEPT !.note = TRUE].card = j.card
      /\ [j EXCEPT !.note = TRUE].grade = j.grade
  BY DEF JournalRows
<1>10. jrn \in [Places -> JournalRows]
  BY DEF JournalTyped, TablesTyped
<1>11. \A x \in Places : x # tap.e => jrn'[x] = jrn[x]
  BY <1>5, <1>10
<1>12. jrn'[tap.e] = IF tap.kind # "note" THEN Graded(k, tap.kind)
                     ELSE IF j.card = tap.card THEN [j EXCEPT !.note = TRUE] ELSE j
  BY <1>3, <1>5, <1>6, <1>10
<1>13. CASE tap.kind # "note"
  BY <1>1, <1>2, <1>4, <1>7, <1>8, <1>11, <1>12, <1>13
<1>14. CASE tap.kind = "note"
  <2>1. jrn'[tap.e] = j \/ jrn'[tap.e] = [j EXCEPT !.note = TRUE]
    BY <1>12, <1>14
  <2>2. jrn'[tap.e].in = j.in /\ jrn'[tap.e].card = j.card /\ jrn'[tap.e].grade = j.grade
    BY <1>9, <2>1
  <2>3. tap.kind \notin {"pass", "fail"}
    BY <1>14
  <2> QED
    BY <1>1, <1>2, <1>4, <1>11, <2>2, <2>3
<1> QED
  BY <1>13, <1>14

LEMMA HandleOnce == JournalTyped /\ InOrder /\ CardFacts /\ Handle => CardFacts'
<1> SUFFICES ASSUME JournalTyped, InOrder, CardFacts, Handle PROVE CardFacts'
  OBVIOUS
<1>1. \A x \in Places : jrn'[x].in = jrn[x].in /\ (jrn'[x].card = 0 => jrn[x].card = 0)
  BY HandleIs
<1>2. UNCHANGED <<tick, sent, unsaved>>
  BY DEF Handle
<1> QED
  BY <1>1, <1>2 DEF CardFacts, InHand, NoneYet, SentIsIn, CardOnce

LEMMA DieOnce == JournalTyped /\ CardFacts /\ Die => CardFacts'
<1> SUFFICES ASSUME JournalTyped, CardFacts, Die PROVE CardFacts'
  OBVIOUS
<1>1. tick'.e = 0 /\ UNCHANGED <<jrn, sent>>
  BY DEF Die, Asleep
<1>2. sent \in [Places -> Nat] /\ unsaved \in [Places -> Nat] /\ tick.e \in Places \cup {0}
  BY DEF JournalTyped, CountsTyped, WatchTyped, Ticks
<1>3. \A x \in Places : x = tick.e => unsaved'[x] = unsaved[x] + 1
  BY <1>2 DEF Die, Places
<1>4. \A x \in Places : x # tick.e => unsaved'[x] = unsaved[x]
  BY <1>2 DEF Die
<1>5. \A x \in Places : unsaved[x] <= unsaved'[x] /\ sent[x] <= 1 + unsaved[x]
  BY <1>2, <1>3, <1>4 DEF CardFacts, CardOnce
<1>6. \A x \in Places : sent[x] <= 1 + unsaved'[x]
  BY <1>2, <1>3, <1>4, <1>5
<1>7. \A x \in Places : jrn[x].card = 0 => sent[x] <= unsaved'[x]
  BY <1>2, <1>3, <1>4, <1>5 DEF CardFacts, NoneYet
<1> QED
  BY <1>1, <1>6, <1>7 DEF CardFacts, InHand, NoneYet, SentIsIn, CardOnce

LEMMA InOrderStays == JournalTyped /\ InOrder /\ [Next]_vars => InOrder'
<1> SUFFICES ASSUME JournalTyped, InOrder, [Next]_vars PROVE InOrder'
  OBVIOUS
<1>0. offset \in Nat /\ handled \in Nat /\ Len(inbox) \in Nat /\ inbox \in Seq(Taps)
  BY DEF JournalTyped, TalkTyped
<1>1. CASE UNCHANGED talk
  BY <1>1 DEF talk, InOrder
<1>2. CASE Listen \/ Redeliver
  BY <1>0, <1>2 DEF Listen, Handle, StoreOffset, Redeliver, InOrder
<1>3. CASE Tap
  <2>1. PICK t : inbox' = Append(inbox, t)
    BY <1>3 DEF Tap
  <2>2. Len(inbox') = Len(inbox) + 1
    BY <1>0, <2>1
  <2> QED
    BY <1>0, <1>3, <2>2 DEF Tap, InOrder
<1> QED
  BY <1>1, <1>2, <1>3
     DEF Next, vars, Trade, Clock, Watch, Look, Deliver, SendCard, StoreCard, Build, Write, Insert, Record,
         Report, ReportBuild, ReportWrite, Die

LEMMA TypedNext == JournalTyped /\ InOrder /\ InHand /\ [Next]_vars => JournalTyped'
<1> SUFFICES ASSUME JournalTyped, InOrder, InHand, [Next]_vars PROVE JournalTyped'
  OBVIOUS
<1>1. CASE UNCHANGED vars
  BY <1>1 DEF vars, market, talk, JournalTyped, MarketTyped, WatchTyped, ReportTyped, TablesTyped, TalkTyped,
              CountsTyped
<1>2. CASE Watch
  BY <1>2, LookTyped, DeliverTyped, SendCardTyped, StoreCardTyped, BuildTyped, WriteTyped, InsertTyped, RecordTyped
     DEF Watch
<1> QED
  BY <1>1, <1>2, TradeTyped, ClockTyped, ReportTypes, ListenTyped, TapTyped, DieTyped DEF Next

LEMMA CardInit == Init => CardInv
<1> SUFFICES ASSUME Init PROVE CardInv
  OBVIOUS
<1>1. JournalTyped
  BY TypedInit
<1>2. InOrder
  BY DEF Init, InOrder
<1>3. CardFacts
  BY DEF Init, CardFacts, InHand, NoneYet, SentIsIn, CardOnce, Asleep
<1> QED
  BY <1>1, <1>2, <1>3 DEF CardInv

LEMMA CardNext == CardInv /\ [Next]_vars => CardInv'
<1> SUFFICES ASSUME CardInv, [Next]_vars PROVE CardInv'
  OBVIOUS
<1>1. JournalTyped /\ InOrder /\ InHand /\ CardFacts
  BY DEF CardInv, CardFacts
<1>2. JournalTyped' /\ InOrder'
  BY <1>1, TypedNext, InOrderStays
<1> SUFFICES CardFacts'
  BY <1>2 DEF CardInv
<1>3. CASE UNCHANGED vars
  BY <1>1, <1>3, ApartKeeps DEF vars, Apart
<1>4. CASE Watch
  BY <1>1, <1>4, TickApart, ApartKeeps, SendCardOnce, StoreCardOnce, InsertOnce DEF Watch
<1>5. CASE Listen
  BY <1>1, <1>5, OthersApart, ApartKeeps, HandleOnce DEF Listen
<1>6. CASE Trade \/ Clock \/ Report \/ Tap \/ Redeliver
  BY <1>1, <1>6, OthersApart, ApartKeeps
<1>7. CASE Die
  BY <1>1, <1>7, DieOnce
<1> QED
  BY <1>3, <1>4, <1>5, <1>6, <1>7 DEF Next

LEMMA CardAlways == Spec => []CardInv
BY CardInit, CardNext, PTL DEF Spec

\* A closed trade's card reaches the owner once: each delivery more goes back to a send
\* whose message id was lost with the answer or with the service.
THEOREM CardSentOnce == Spec => []CardOnce
<1>1. CardInv => CardOnce
  BY DEF CardInv, CardFacts
<1> QED
  BY <1>1, CardAlways, PTL

-----------------------------------------------------------------------------
(* Grades.                                                                 *)

LEMMA LastTap ==
    ASSUME NEW e, NEW h \in Nat, GradeTaps(e, h) # {}
    PROVE  Max(GradeTaps(e, h)) \in GradeTaps(e, h) /\ \A k \in GradeTaps(e, h) : k <= Max(GradeTaps(e, h))
<1>1. PICK S : S = GradeTaps(e, h)
  OBVIOUS
<1>2. S \in SUBSET (0..h) /\ S # {}
  BY <1>1 DEF GradeTaps
<1>3. Max(S) \in S /\ \A k \in S : k <= Max(S)
  BY <1>2, MaxIn
<1> QED
  BY <1>1, <1>3

\* Every tap names a card.
LEMMA TapNames ==
    ASSUME inbox \in Seq(Taps)
    PROVE  \A k \in 1..Len(inbox) : inbox[k].e \in Places
<1>1. \A k \in 1..Len(inbox) : inbox[k] \in Taps
  OBVIOUS
<1> QED
  BY <1>1 DEF Taps

\* A tap more changes the grade it is for.
LEMMA GradeNext ==
    ASSUME inbox \in Seq(Taps), NEW e \in Places, NEW h \in Nat, h + 1 <= Len(inbox)
    PROVE  GradeAt(e, h + 1) = IF inbox[h + 1].e = e /\ inbox[h + 1].kind \in {"pass", "fail"}
                               THEN inbox[h + 1].kind ELSE GradeAt(e, h)
<1>1. CASE inbox[h + 1].e = e /\ inbox[h + 1].kind \in {"pass", "fail"}
  <2>1. h + 1 \in Nat /\ h + 1 \in GradeTaps(e, h + 1)
    BY <1>1 DEF GradeTaps
  <2>2. Max(GradeTaps(e, h + 1)) \in GradeTaps(e, h + 1) /\ h + 1 <= Max(GradeTaps(e, h + 1))
    BY <2>1, LastTap
  <2>3. Max(GradeTaps(e, h + 1)) = h + 1
    BY <2>1, <2>2 DEF GradeTaps
  <2> QED
    BY <1>1, <2>1, <2>3 DEF GradeAt
<1>2. CASE ~(inbox[h + 1].e = e /\ inbox[h + 1].kind \in {"pass", "fail"})
  <2>1. GradeTaps(e, h + 1) = GradeTaps(e, h)
    BY <1>2 DEF GradeTaps
  <2> QED
    BY <1>2, <2>1 DEF GradeAt
<1> QED
  BY <1>1, <1>2

\* What leaves every grade, and takes the listener at most back.
SameGrades ==
    /\ inbox' = inbox /\ handled' <= handled
    /\ \A x \in Places : jrn'[x].grade = jrn[x].grade /\ (jrn[x].in => jrn'[x].in)

LEMMA SameGradesKeep ==
    ASSUME JournalTyped, JournalTyped', GradeFacts, SameGrades
    PROVE  GradeFacts'
<1>0. handled \in Nat /\ handled' \in Nat /\ inbox \in Seq(Taps) /\ Len(inbox) \in Nat
  BY DEF JournalTyped, TalkTyped
<1>1. TappedIsIn'
  <2>1. \A k \in 1..Len(inbox) : inbox[k].e \in Places
    BY <1>0, TapNames
  <2> QED
    BY <2>1 DEF GradeFacts, TappedIsIn, SameGrades
<1>2. UngradedOut'
  BY DEF GradeFacts, UngradedOut, SameGrades
<1>3. \A e, h : GradeAt(e, h)' = GradeAt(e, h)
  BY DEF SameGrades, GradeAt, GradeTaps
<1>4. handled..Len(inbox) \subseteq handled'..Len(inbox')
  BY <1>0 DEF SameGrades
<1>5. GradedAt'
  BY <1>3, <1>4 DEF GradeFacts, GradedAt, SameGrades
<1> QED
  BY <1>1, <1>2, <1>5 DEF GradeFacts

LEMMA HandleGrades ==
    ASSUME JournalTyped, InOrder, GradeFacts, Handle
    PROVE  GradeFacts'
<1>0. handled \in Nat /\ inbox \in Seq(Taps) /\ Len(inbox) \in Nat /\ inbox' = inbox /\ handled' = handled + 1
  BY DEF JournalTyped, TalkTyped, Handle
<1>1. PICK tap \in Taps :
              /\ tap = inbox[handled + 1] /\ handled + 1 \in 1..Len(inbox)
              /\ \A x \in Places : x # tap.e => jrn'[x] = jrn[x]
              /\ jrn'[tap.e].in = jrn[tap.e].in
              /\ jrn'[tap.e].card = 0 => jrn[tap.e].card = 0
              /\ jrn'[tap.e].grade = IF tap.kind \in {"pass", "fail"} THEN tap.kind ELSE jrn[tap.e].grade
  BY HandleIs
<1>2. jrn[tap.e].in /\ tap.e \in Places
  BY <1>1 DEF GradeFacts, TappedIsIn, Taps
<1>3. TappedIsIn' /\ UngradedOut'
  <2>1. \A k \in 1..Len(inbox) : inbox[k].e \in Places
    BY <1>0, TapNames
  <2> QED
    BY <1>0, <1>1, <1>2, <2>1 DEF GradeFacts, TappedIsIn, UngradedOut
<1>4. \A e, h : GradeAt(e, h)' = GradeAt(e, h)
  BY <1>0 DEF GradeAt, GradeTaps
<1>5. ASSUME NEW e \in Places
      PROVE  \E h \in (handled + 1)..Len(inbox) : jrn'[e].grade = GradeAt(e, h)
  <2>1. PICK h \in handled..Len(inbox) : jrn[e].grade = GradeAt(e, h)
    BY DEF GradeFacts, GradedAt
  <2>2. handled + 1 <= Len(inbox)
    BY <1>1
  <2>3. CASE e = tap.e /\ tap.kind \in {"pass", "fail"}
    <3>1. GradeAt(e, handled + 1) = tap.kind
      BY <1>0, <1>1, <2>2, <2>3, GradeNext
    <3>2. jrn'[e].grade = tap.kind
      BY <1>1, <2>3
    <3> QED
      BY <1>0, <2>2, <3>1, <3>2
  <2>4. CASE ~(e = tap.e /\ tap.kind \in {"pass", "fail"})
    <3>1. jrn'[e].grade = jrn[e].grade
      BY <1>1, <2>4
    <3>2. CASE h = handled
      BY <1>0, <1>1, <2>1, <2>2, <2>4, <3>1, <3>2, GradeNext
    <3>3. CASE h # handled
      BY <1>0, <2>1, <3>1, <3>3
    <3> QED
      BY <3>2, <3>3
  <2> QED
    BY <2>3, <2>4
<1>6. GradedAt'
  BY <1>0, <1>4, <1>5 DEF GradedAt
<1> QED
  BY <1>3, <1>6 DEF GradeFacts

LEMMA TapGrades ==
    ASSUME JournalTyped, JournalTyped', SentIsIn, GradeFacts, Tap
    PROVE  GradeFacts'
<1>0. handled \in Nat /\ inbox \in Seq(Taps) /\ Len(inbox) \in Nat /\ jrn' = jrn /\ handled' = handled
  BY DEF JournalTyped, TalkTyped, Tap
<1>1. PICK e \in Places : \E card \in 1..sent[e] :
           inbox' = Append(inbox, [e |-> e, card |-> card, kind |-> Script[Len(inbox) + 1]])
  BY DEF Tap
<1>2. PICK card \in 1..sent[e] :
           inbox' = Append(inbox, [e |-> e, card |-> card, kind |-> Script[Len(inbox) + 1]])
  BY <1>1
<1>3. jrn[e].in
  BY <1>2 DEF SentIsIn, JournalTyped, CountsTyped
<1>4. PICK t : t = [e |-> e, card |-> card, kind |-> Script[Len(inbox) + 1]]
  OBVIOUS
<1>5. /\ Len(inbox') = Len(inbox) + 1 /\ inbox'[Len(inbox) + 1].e = e
      /\ \A k \in 1..Len(inbox) : inbox'[k] = inbox[k]
  <2>1. inbox' = Append(inbox, t) /\ t.e = e
    BY <1>2, <1>4
  <2> QED
    BY <1>0, <2>1
<1>6. TappedIsIn'
  BY <1>0, <1>3, <1>5 DEF GradeFacts, TappedIsIn
<1>7. UngradedOut'
  BY <1>0 DEF GradeFacts, UngradedOut
<1>8. ASSUME NEW x \in Places, NEW h \in handled..Len(inbox)
      PROVE  GradeAt(x, h)' = GradeAt(x, h)
  <2>1. \A k \in 1..h : k \in 1..Len(inbox)
    BY <1>0
  <2>2. GradeTaps(x, h)' = GradeTaps(x, h)
    BY <1>0, <1>5, <2>1 DEF GradeTaps
  <2>3. CASE GradeTaps(x, h) = {}
    BY <2>2, <2>3 DEF GradeAt
  <2>4. CASE GradeTaps(x, h) # {}
    <3>1. Max(GradeTaps(x, h)) \in GradeTaps(x, h)
      BY <1>0, <2>4, LastTap
    <3>2. Max(GradeTaps(x, h)) \in 1..Len(inbox)
      BY <2>1, <3>1 DEF GradeTaps
    <3> QED
      BY <1>5, <2>2, <2>4, <3>2 DEF GradeAt
  <2> QED
    BY <2>3, <2>4
<1>9. handled..Len(inbox) \subseteq handled'..Len(inbox')
  BY <1>0, <1>5
<1>10. GradedAt'
  <2> SUFFICES ASSUME NEW x \in Places PROVE \E h \in handled'..Len(inbox') : jrn'[x].grade = GradeAt(x, h)'
    BY DEF GradedAt
  <2>1. PICK h \in handled..Len(inbox) : jrn[x].grade = GradeAt(x, h)
    BY DEF GradeFacts, GradedAt
  <2> QED
    BY <1>0, <1>8, <1>9, <2>1
<1> QED
  BY <1>6, <1>7, <1>10 DEF GradeFacts

LEMMA OthersGrades ==
    ASSUME JournalTyped, JournalTyped', InOrder, InHand, GradeFacts,
           UNCHANGED vars \/ Trade \/ Clock \/ Watch \/ Report \/ StoreOffset \/ Redeliver \/ Die
    PROVE  GradeFacts'
<1>0. handled \in Nat /\ offset \in Nat /\ jrn \in [Places -> JournalRows]
  BY DEF JournalTyped, TalkTyped, TablesTyped
<1>1. inbox' = inbox /\ handled' <= handled
  <2>1. CASE Watch
    <3>1. UNCHANGED talk
      <4>1. ASSUME NEW from, NEW to, Deliver(from, to) PROVE UNCHANGED talk
        BY <4>1 DEF Deliver
      <4>2. ASSUME NEW e, SendCard(e) PROVE UNCHANGED talk
        BY <4>2 DEF SendCard
      <4> QED
        BY <2>1, <4>1, <4>2 DEF Watch, Look, StoreCard, Build, Write, Insert, Record
    <3> QED
      BY <1>0, <3>1 DEF talk
  <2>2. CASE ~Watch
    BY <1>0, <2>2
       DEF vars, talk, Trade, Clock, Report, ReportBuild, ReportWrite, StoreOffset, Redeliver, Die, InOrder
  <2> QED
    BY <2>1, <2>2
<1>2. \A x \in Places : \A card : /\ WithCard(jrn[x], card).grade = jrn[x].grade
                               /\ WithCard(jrn[x], card).in = jrn[x].in
  BY <1>0 DEF WithCard, JournalRows
<1>3. CASE StoreCard
  BY <1>0, <1>1, <1>2, <1>3, SameGradesKeep DEF StoreCard, SameGrades
<1>4. CASE Insert
  <2>1. \A x \in Places : Journaled(jrn[x]).grade = jrn[x].grade /\ (jrn[x].in => Journaled(jrn[x]).in)
    BY DEF Journaled, NoJournal, GradeFacts, UngradedOut
  <2>2. \A x \in Places : jrn'[x] = jrn[x] \/ jrn'[x] = Journaled(jrn[x])
    BY <1>0, <1>4 DEF Insert
  <2> QED
    BY <1>1, <2>1, <2>2, SameGradesKeep DEF SameGrades
<1>5. CASE jrn' = jrn
  BY <1>1, <1>5, SameGradesKeep DEF SameGrades
<1> QED
  <2>1. CASE Watch
    BY <1>3, <1>4, <1>5, <2>1 DEF Watch, Look, Deliver, SendCard, Build, Write, Record
  <2>2. CASE ~Watch
    BY <1>5, <2>2
       DEF vars, Trade, Clock, Report, ReportBuild, ReportWrite, StoreOffset, Redeliver, Die
  <2> QED
    BY <2>1, <2>2

LEMMA GradeInit == Init => GradeInv
<1> SUFFICES ASSUME Init PROVE GradeInv
  OBVIOUS
<1>1. CardInv
  BY CardInit
<1>2. TappedIsIn /\ UngradedOut
  BY DEF Init, TappedIsIn, UngradedOut, NoJournal
<1>3. GradedAt
  <2>1. \A e : GradeTaps(e, 0) = {}
    BY DEF GradeTaps
  <2>2. \A e : GradeAt(e, 0) = "none"
    BY <2>1 DEF GradeAt
  <2>3. 0 \in handled..Len(inbox)
    BY DEF Init
  <2> QED
    BY <2>2, <2>3 DEF Init, GradedAt, NoJournal
<1> QED
  BY <1>1, <1>2, <1>3 DEF GradeInv, GradeFacts

LEMMA GradeStep == GradeInv /\ [Next]_vars => GradeInv'
<1> SUFFICES ASSUME GradeInv, [Next]_vars PROVE GradeInv'
  OBVIOUS
<1>1. CardInv /\ GradeFacts /\ CardInv'
  BY CardNext DEF GradeInv
<1>2. JournalTyped /\ InOrder /\ InHand /\ SentIsIn /\ JournalTyped'
  BY <1>1 DEF CardInv, CardFacts
<1>3. CASE Handle
  BY <1>1, <1>2, <1>3, HandleGrades DEF GradeInv
<1>4. CASE Tap
  BY <1>1, <1>2, <1>4, TapGrades DEF GradeInv
<1>5. CASE UNCHANGED vars \/ Trade \/ Clock \/ Watch \/ Report \/ StoreOffset \/ Redeliver \/ Die
  BY <1>1, <1>2, <1>5, OthersGrades DEF GradeInv
<1> QED
  BY <1>3, <1>4, <1>5 DEF Next, Listen

\* However often the taps are delivered again, once the listener has noted that it is
\* through with them a card's grade is the last one that the owner tapped.
THEOREM LastGradeStands == Spec => []GradeIsLastTap
<1>1. GradeInv => GradeIsLastTap
  <2> SUFFICES ASSUME GradeInv, offset = Len(inbox), NEW e \in Places
               PROVE  jrn[e].grade = LastGrade(e)
    BY DEF GradeIsLastTap
  <2>1. offset \in Nat /\ handled \in Nat /\ Len(inbox) \in Nat /\ offset <= handled /\ handled <= Len(inbox)
    BY DEF GradeInv, CardInv, InOrder, JournalTyped, TalkTyped
  <2>2. PICK h \in handled..Len(inbox) : jrn[e].grade = GradeAt(e, h)
    BY DEF GradeInv, GradeFacts, GradedAt
  <2>3. h = Len(inbox)
    BY <2>1, <2>2
  <2>4. LastGrade(e) = GradeAt(e, Len(inbox))
    BY DEF LastGrade, GradeAt, GradeTaps
  <2> QED
    BY <2>2, <2>3, <2>4
<1> QED
  BY <1>1, GradeInit, GradeStep, PTL DEF Spec

-----------------------------------------------------------------------------
(* What was sold.                                                          *)

LEMMA SoldInFacts ==
    ASSUME NEW h \in Seq(Fills), NEW S \in SUBSET (1..Len(h))
    PROVE  /\ IsFiniteSet(S)
           /\ \A k \in S : h[k].qty \in Nat
           /\ SoldIn(h, S) \in Nat
<1>1. IsFiniteSet(S)
  <2>1. IsFiniteSet(1..Len(h))
    BY FS_Interval
  <2> QED
    BY <2>1, FS_Subset
<1>2. \A k \in S : h[k].qty \in Nat
  <2>1. \A k \in S : h[k] \in Fills
    OBVIOUS
  <2> QED
    BY <2>1 DEF Fills
<1>3. PICK f : f = [k \in S |-> h[k].qty]
  OBVIOUS
<1>4. \A k \in S : f[k] \in Nat
  BY <1>2, <1>3
<1>5. SumFunctionOnSet(f, S) \in Nat
  BY <1>1, <1>4, SumMore
<1> QED
  BY <1>1, <1>2, <1>3, <1>5 DEF SoldIn

\* A sum over fewer places, as a sum of the same function.
LEMMA SoldPart ==
    ASSUME NEW h \in Seq(Fills), NEW S \in SUBSET (1..Len(h)), NEW T \in SUBSET S
    PROVE  SoldIn(h, T) = SumFunctionOnSet([k \in S |-> h[k].qty], T)
<1>1. IsFiniteSet(T) /\ \A k \in T : h[k].qty \in Nat
  BY SoldInFacts
<1>2. PICK f : f = [k \in S |-> h[k].qty]
  OBVIOUS
<1>3. PICK g : g = [k \in T |-> h[k].qty]
  OBVIOUS
<1>4. \A k \in T : g[k] = f[k] /\ g[k] \in Int
  BY <1>1, <1>2, <1>3
<1>5. SumFunctionOnSet(g, T) = SumFunctionOnSet(f, T)
  BY <1>1, <1>4, SumSame
<1> QED
  BY <1>2, <1>3, <1>5 DEF SoldIn

LEMMA SoldMore ==
    ASSUME NEW h \in Seq(Fills), NEW S \in SUBSET (1..Len(h)), NEW T \in SUBSET S
    PROVE  SoldIn(h, T) <= SoldIn(h, S)
<1>1. PICK f : f = [k \in S |-> h[k].qty]
  OBVIOUS
<1>2. IsFiniteSet(S) /\ \A k \in S : f[k] \in Nat
  BY <1>1, SoldInFacts
<1>3. SumFunctionOnSet(f, T) <= SumFunctionOnSet(f, S)
  BY <1>2, SumMore
<1>4. SoldIn(h, T) = SumFunctionOnSet(f, T)
  BY <1>1, SoldPart
<1> QED
  BY <1>1, <1>3, <1>4 DEF SoldIn

LEMMA SoldOneMore ==
    ASSUME NEW h \in Seq(Fills), NEW S \in SUBSET (1..Len(h)), NEW x \in 1..Len(h), x \notin S
    PROVE  SoldIn(h, S \cup {x}) = SoldIn(h, S) + h[x].qty
<1>1. PICK T : T = S \cup {x}
  OBVIOUS
<1>2. T \in SUBSET (1..Len(h)) /\ S \in SUBSET T
  BY <1>1
<1>3. PICK f : f = [k \in T |-> h[k].qty]
  OBVIOUS
<1>4. \A k \in T : f[k] \in Int /\ f[k] = h[k].qty
  BY <1>2, <1>3, SoldInFacts
<1>5. IsFiniteSet(S)
  BY SoldInFacts
<1>6. SumFunctionOnSet(f, S \cup {x}) = SumFunctionOnSet(f, S) + f[x]
  BY <1>1, <1>4, <1>5, SumAdd
<1>7. SoldIn(h, S) = SumFunctionOnSet(f, S)
  BY <1>2, <1>3, SoldPart
<1>8. SoldIn(h, T) = SumFunctionOnSet(f, T)
  BY <1>3 DEF SoldIn
<1> QED
  BY <1>1, <1>4, <1>6, <1>7, <1>8

\* What was sold stays sold.
LEMMA SoldStays ==
    ASSUME NEW h \in Seq(Fills), NEW fill \in Fills, NEW S \in SUBSET (1..Len(h))
    PROVE  SoldIn(Append(h, fill), S) = SoldIn(h, S)
<1>1. \A k \in S : Append(h, fill)[k] = h[k]
  OBVIOUS
<1>2. [k \in S |-> Append(h, fill)[k].qty] = [k \in S |-> h[k].qty]
  BY <1>1
<1> QED
  BY <1>2 DEF SoldIn

LEMMA NothingSold == \A h : SoldIn(h, {}) = 0
BY SumEmpty DEF SoldIn

LEMMA SoldIsIn == \A S : Sold(S) = SoldIn(hist, S)
BY DEF Sold, SoldIn

LEMMA OwnTyped ==
    ASSUME NEW h \in Seq(Fills), NEW e \in 1..Len(h)
    PROVE  Own(h, e) \in SUBSET (1..Len(h))
BY DEF Own

LEMMA OwnIs == \A e : OwnExits(e) = Own(hist, e) /\ After(e) = Later(hist, e)
BY DEF OwnExits, After, Own, Later, Now

\* What a fill adds to the exits of an entry.
LEMMA OwnNext ==
    ASSUME NEW h \in Seq(Fills), NEW fill \in Fills, NEW e \in 1..Len(h)
    PROVE  /\ Later(Append(h, fill), e)
                = Later(h, e) \cup (IF fill.kind = "entry" THEN {Len(h) + 1} ELSE {})
           /\ Own(Append(h, fill), e)
                = Own(h, e) \cup (IF fill.kind = "exit" /\ Later(h, e) = {} THEN {Len(h) + 1} ELSE {})
<1> DEFINE g == Append(h, fill)
<1>1. Len(g) = Len(h) + 1 /\ g[Len(h) + 1] = fill /\ \A k \in 1..Len(h) : g[k] = h[k]
  OBVIOUS
<1> HIDE DEF g
<1>2. \A k : k \in (e + 1)..Len(g) <=> (k \in (e + 1)..Len(h) \/ k = Len(h) + 1)
  BY <1>1
<1>3. Later(g, e) = Later(h, e) \cup (IF fill.kind = "entry" THEN {Len(h) + 1} ELSE {})
  BY <1>1, <1>2 DEF Later
<1>4. \A x \in Later(h, e) : x \in 1..Len(h)
  BY DEF Later
<1>5. ASSUME NEW k \in (e + 1)..Len(h)
      PROVE  k \in Own(g, e) <=> k \in Own(h, e)
  <2>1. g[k] = h[k] /\ k < Len(h) + 1 /\ k \in (e + 1)..Len(g)
    BY <1>1, <1>2
  <2>2. (\A x \in Later(g, e) : k < x) <=> (\A x \in Later(h, e) : k < x)
    BY <1>3, <2>1
  <2> QED
    BY <2>1, <2>2 DEF Own
<1>6. Len(h) + 1 \in Own(g, e) <=> (fill.kind = "exit" /\ Later(h, e) = {})
  <2>1. Len(h) + 1 \in (e + 1)..Len(g) /\ g[Len(h) + 1] = fill
    BY <1>1, <1>2
  <2>2. (\A x \in Later(g, e) : Len(h) + 1 < x) <=> Later(g, e) = {}
    BY <1>3, <1>4
  <2>3. fill.kind = "exit" => Later(g, e) = Later(h, e)
    BY <1>3
  <2> QED
    BY <2>1, <2>2, <2>3 DEF Own
<1>7. \A k \in Own(g, e) : k \in (e + 1)..Len(h) \/ k = Len(h) + 1
  BY <1>2 DEF Own
<1>8. \A k \in Own(h, e) : k \in (e + 1)..Len(h)
  BY DEF Own
<1>9. Own(g, e) = Own(h, e) \cup (IF fill.kind = "exit" /\ Later(h, e) = {} THEN {Len(h) + 1} ELSE {})
  BY <1>5, <1>6, <1>7, <1>8
<1> QED
  BY <1>3, <1>9 DEF g

\* An entry waits until nothing is held, and an exit sells what is held.
LEMMA BalancedNext ==
    ASSUME NEW h \in Seq(Fills), NEW fill \in Fills, NEW held \in Nat, NEW left \in Nat, Balanced(h, held),
           \/ fill.kind = "entry" /\ held = 0 /\ left = Size
           \/ fill.kind = "hand" /\ left >= held
           \/ fill.kind = "exit" /\ left = held - fill.qty
    PROVE  Balanced(Append(h, fill), left)
<1> DEFINE g == Append(h, fill)
<1>1. Len(g) = Len(h) + 1 /\ g[Len(h) + 1] = fill /\ g \in Seq(Fills) /\ \A k \in 1..Len(h) : g[k] = h[k]
  OBVIOUS
<1>2. Size \in Nat /\ fill.qty \in Nat
  BY JournalBounds DEF Fills
<1> HIDE DEF g
<1> SUFFICES ASSUME NEW e \in 1..Len(g), g[e].kind = "entry"
             PROVE  SoldIn(g, Own(g, e)) + (IF Later(g, e) = {} THEN left ELSE 0) >= Size
  BY DEF Balanced, g
<1>3. CASE e = Len(h) + 1
  <2>1. Own(g, e) = {} /\ Later(g, e) = {}
    BY <1>1, <1>3 DEF Own, Later
  <2>2. fill.kind = "entry"
    BY <1>1, <1>3
  <2>3. left = Size
    BY <2>2
  <2> QED
    BY <1>2, <2>1, <2>3, NothingSold
<1>4. CASE e \in 1..Len(h)
  <2>1. h[e].kind = "entry" /\ Own(h, e) \in SUBSET (1..Len(h))
    BY <1>1, <1>4, OwnTyped
  <2>2. SoldIn(h, Own(h, e)) + (IF Later(h, e) = {} THEN held ELSE 0) >= Size /\ SoldIn(h, Own(h, e)) \in Nat
    BY <1>4, <2>1, SoldInFacts DEF Balanced
  <2>3. /\ Later(g, e) = Later(h, e) \cup (IF fill.kind = "entry" THEN {Len(h) + 1} ELSE {})
        /\ Own(g, e) = Own(h, e) \cup (IF fill.kind = "exit" /\ Later(h, e) = {} THEN {Len(h) + 1} ELSE {})
    BY <1>4, OwnNext DEF g
  <2>4. SoldIn(g, Own(h, e)) = SoldIn(h, Own(h, e))
    BY <2>1, SoldStays DEF g
  <2>5. CASE fill.kind = "exit" /\ Later(h, e) = {}
    <3>1. Own(h, e) \in SUBSET (1..Len(g)) /\ Len(h) + 1 \in 1..Len(g) /\ Len(h) + 1 \notin Own(h, e)
      BY <1>1, <2>1
    <3>2. SoldIn(g, Own(h, e) \cup {Len(h) + 1}) = SoldIn(g, Own(h, e)) + fill.qty
      BY <1>1, <3>1, SoldOneMore
    <3>3. Own(g, e) = Own(h, e) \cup {Len(h) + 1} /\ Later(g, e) = {}
      BY <2>3, <2>5
    <3> QED
      BY <1>2, <2>2, <2>4, <2>5, <3>2, <3>3
  <2>6. CASE fill.kind = "exit" /\ Later(h, e) # {}
    BY <1>2, <2>2, <2>3, <2>4, <2>6
  <2>7. CASE fill.kind = "hand"
    BY <1>2, <2>2, <2>3, <2>4, <2>7
  <2>8. CASE fill.kind = "entry"
    BY <1>2, <2>2, <2>3, <2>4, <2>8
  <2> QED
    BY <2>5, <2>6, <2>7, <2>8
<1> QED
  BY <1>1, <1>3, <1>4

LEMMA TradeSold == JournalTyped /\ SoldFacts /\ Trade => SoldFacts'
<1> SUFFICES ASSUME JournalTyped, SoldFacts, Trade PROVE SoldFacts'
  OBVIOUS
<1>0. hist \in Seq(Fills) /\ pos \in Nat /\ Size \in Nat \ {0} /\ Len(hist) \in Nat
  BY JournalBounds DEF JournalTyped, MarketTyped
<1>1. PICK fill \in Fills :
          /\ hist' = Append(hist, fill) /\ pos' \in Nat
          /\ \/ fill.kind = "entry" /\ pos = 0 /\ pos' = Size
             \/ fill.kind = "hand" /\ pos' >= pos
             \/ fill.kind = "exit" /\ pos' = pos - fill.qty
  <2>1. \A kind \in {"entry", "hand", "exit"}, qty \in Nat :
           /\ [kind |-> kind, qty |-> qty] \in Fills
           /\ [kind |-> kind, qty |-> qty].kind = kind /\ [kind |-> kind, qty |-> qty].qty = qty
    BY DEF Fills
  <2>2. CASE Enter
    <3>1. hist' = Append(hist, [kind |-> "entry", qty |-> Size]) /\ pos = 0 /\ pos' = Size
      BY <2>2 DEF Enter, Fill
    <3> QED
      BY <1>0, <2>1, <3>1
  <2>3. CASE Buy
    <3>1. hist' = Append(hist, [kind |-> "hand", qty |-> 1]) /\ pos' = pos + 1
      BY <2>3 DEF Buy, Fill
    <3> QED
      BY <1>0, <2>1, <3>1
  <2>4. CASE Sell
    <3>1. PICK q \in 1..pos : hist' = Append(hist, [kind |-> "exit", qty |-> q]) /\ pos' = pos - q
      BY <2>4 DEF Sell, Fill
    <3>2. q \in Nat /\ pos - q \in Nat
      BY <1>0
    <3> QED
      BY <1>0, <2>1, <3>1, <3>2
  <2> QED
    BY <2>2, <2>3, <2>4 DEF Trade
<1>2. /\ Len(hist') = Len(hist) + 1 /\ hist' \in Seq(Fills)
      /\ \A k \in 1..Len(hist) : hist'[k] = hist[k]
  BY <1>0, <1>1
<1>3. SoldThrough'
  BY <1>0, <1>1, BalancedNext DEF SoldFacts, SoldThrough
<1>4. HeldIsBought'
  BY <1>0, <1>2 DEF HeldIsBought, Now
<1>5. ReadsPast'
  <2>1. UNCHANGED <<row, tick, report>>
    BY DEF Trade
  <2>2. tick.n \in Nat /\ report.n \in Nat
    BY DEF JournalTyped, WatchTyped, Ticks, ReportTyped
  <2> QED
    BY <1>0, <1>2, <2>1, <2>2 DEF SoldFacts, ReadsPast, Now
<1>6. RowsAreEntries'
  <2>1. real' = real
    BY DEF Trade
  <2>2. \A e \in Places : e \in 1..MaxFills
    BY DEF Places
  <2>3. MaxFills \in Nat
    BY JournalBounds
  <2>4. \A e \in Places : e <= Len(hist) => e \in 1..Len(hist)
    BY <1>0, <2>2, <2>3
  <2> QED
    BY <1>0, <1>2, <2>1, <2>2, <2>3, <2>4 DEF SoldFacts, RowsAreEntries, Now
<1>7. ASSUME NEW e \in Places, real[e] = "closed" PROVE SoldIn(hist', Own(hist', e)) >= Size
  <2>1. e \in 1..Len(hist)
    BY <1>0, <1>7, JournalBounds DEF SoldFacts, RowsAreEntries, Places, Now
  <2>2. SoldIn(hist, Own(hist, e)) >= Size
    BY <1>7, OwnIs, SoldIsIn DEF SoldFacts, ClosedRowsSold
  <2>3. Own(hist, e) \in SUBSET (1..Len(hist)) /\ Own(hist', e) \in SUBSET (1..Len(hist'))
    BY <1>0, <1>2, <2>1, OwnTyped
  <2>4. Own(hist, e) \subseteq Own(hist', e)
    BY <1>0, <1>1, <2>1, OwnNext
  <2>5. SoldIn(hist', Own(hist, e)) = SoldIn(hist, Own(hist, e))
    BY <1>0, <1>1, <2>3, SoldStays
  <2>6. SoldIn(hist', Own(hist, e)) <= SoldIn(hist', Own(hist', e))
    BY <1>2, <2>3, <2>4, SoldMore
  <2>7. SoldIn(hist, Own(hist, e)) \in Nat /\ SoldIn(hist', Own(hist', e)) \in Nat
    BY <1>0, <1>2, <2>3, SoldInFacts
  <2> QED
    BY <1>0, <2>2, <2>5, <2>6, <2>7
<1>8. ClosedRowsSold'
  <2>1. real' = real
    BY DEF Trade
  <2>2. \A e : Sold(OwnExits(e))' = SoldIn(hist', Own(hist', e))
    BY DEF Sold, SoldIn, OwnExits, After, Own, Later, Now
  <2> QED
    BY <1>7, <2>1, <2>2 DEF ClosedRowsSold
<1> QED
  BY <1>3, <1>4, <1>5, <1>6, <1>8 DEF SoldFacts

\* What a rebuild writes: entries it has read, and closed only what was sold in full.
LEMMA ReplacedSold ==
    ASSUME JournalTyped, SoldFacts, NEW since \in Nat \ {0}, NEW n \in Nat, n <= Now,
           NEW e \in Places, Replaced(since, n)[e] # "none"
    PROVE  /\ e <= Now /\ hist[e].kind = "entry"
           /\ Replaced(since, n)[e] = "closed" => Sold(OwnExits(e)) >= Size
<1>0. hist \in Seq(Fills) /\ Len(hist) \in Nat /\ Size \in Nat \ {0} /\ Now = Len(hist) /\ Len(hist) <= MaxFills
      /\ MaxFills \in Nat
  BY JournalBounds DEF JournalTyped, MarketTyped, Now
<1>1. CASE e < since
  BY <1>1 DEF Replaced, SoldFacts, RowsAreEntries, ClosedRowsSold
<1>2. CASE ~(e < since)
  <2>1. Replaced(since, n)[e] = Rebuilt(since, n)[e]
    BY <1>2 DEF Replaced
  <2>2. Rebuilt(since, n)[e] = CASE e \in Closed(since, n) -> "closed" [] e \in Entries(since, n) \ Closed(since, n) -> "open"
                                 [] OTHER -> "none"
    BY DEF Rebuilt
  <2>3. Closed(since, n) \subseteq Entries(since, n)
    BY DEF Closed
  <2>4. e \in Entries(since, n)
    BY <2>1, <2>2, <2>3
  <2>5. e \in 1..Len(hist) /\ e <= Now /\ hist[e].kind = "entry"
    BY <1>0, <2>4 DEF Entries
  <2>6. ASSUME Replaced(since, n)[e] = "closed" PROVE Sold(OwnExits(e)) >= Size
    <3>1. e \in Closed(since, n)
      BY <2>1, <2>2, <2>4, <2>6
    <3>2. PICK used : Sold(Taken(Exits(e, n) \ used)) >= Size
      BY <3>1 DEF Closed
    <3>3. /\ Exits(e, n) \in SUBSET (1..Len(hist))
          /\ Taken(Exits(e, n) \ used) \in SUBSET Exits(e, n)
          /\ Own(hist, e) \in SUBSET (1..Len(hist))
      BY <1>0, <2>5, OwnTyped DEF Exits, Taken
    <3>4. CASE Later(hist, e) = {}
      <4>1. Exits(e, n) \subseteq Own(hist, e)
        BY <1>0, <2>5, <3>4 DEF Own, Exits
      <4>2. PICK T : T = Taken(Exits(e, n) \ used)
        OBVIOUS
      <4>3. T \in SUBSET Own(hist, e) /\ SoldIn(hist, T) >= Size
        BY <3>2, <3>3, <4>1, <4>2, SoldIsIn
      <4>4. SoldIn(hist, T) <= SoldIn(hist, Own(hist, e))
        BY <1>0, <3>3, <4>3, SoldMore
      <4>5. T \in SUBSET (1..Len(hist))
        BY <3>3, <4>3
      <4>6. SoldIn(hist, T) \in Nat /\ SoldIn(hist, Own(hist, e)) \in Nat
        BY <1>0, <3>3, <4>5, SoldInFacts
      <4> QED
        BY <1>0, <4>3, <4>4, <4>6, OwnIs, SoldIsIn
    <3>5. CASE Later(hist, e) # {}
      <4>1. SoldIn(hist, Own(hist, e)) + 0 >= Size
        BY <2>5, <3>5 DEF SoldFacts, SoldThrough, Balanced
      <4>2. SoldIn(hist, Own(hist, e)) \in Nat
        BY <1>0, <3>3, SoldInFacts
      <4> QED
        BY <4>1, <4>2, OwnIs, SoldIsIn
    <3> QED
      BY <3>4, <3>5
  <2> QED
    BY <2>5, <2>6
<1> QED
  BY <1>1, <1>2

\* What leaves the history and the rows.
Still == UNCHANGED <<hist, pos, real>>

LEMMA StillSold == SoldFacts /\ Still /\ ReadsPast' => SoldFacts'
BY DEF Still, SoldFacts, SoldThrough, HeldIsBought, RowsAreEntries, ClosedRowsSold, Sold, OwnExits, After, Now

\* A rebuild is one of what has happened by then.
LEMMA ReadsPastStays ==
    ASSUME JournalTyped, InHand, SoldFacts, [Next]_vars, ~Trade
    PROVE  ReadsPast' /\ hist' = hist /\ pos' = pos
<1>0. /\ Now \in Nat /\ tick \in Ticks /\ row \in WatchRows /\ looked \in Nat /\ pos \in Nat
      /\ report.n \in Nat /\ tick.n \in Nat
  BY DEF JournalTyped, MarketTyped, WatchTyped, ReportTyped, Ticks, Now
<1>1. /\ row.state # "none" => row.since >= 1
      /\ tick.pc \in {"build", "write"} => tick.since >= 1
      /\ tick.n <= Now /\ report.n <= Now
  BY DEF SoldFacts, ReadsPast
<1>2. hist' = hist /\ pos' = pos /\ Now' = Now
  <2>1. UNCHANGED market
    <3>1. CASE Watch
      <4>1. ASSUME NEW from, NEW to, Deliver(from, to) PROVE UNCHANGED market
        BY <4>1 DEF Deliver
      <4>2. ASSUME NEW e, SendCard(e) PROVE UNCHANGED market
        BY <4>2 DEF SendCard
      <4> QED
        BY <3>1, <4>1, <4>2 DEF Watch, Look, StoreCard, Build, Write, Insert, Record
    <3>2. CASE ~Watch
      BY <3>2 DEF Next, vars, Clock, Report, ReportBuild, ReportWrite, Listen, Handle, StoreOffset, Tap,
                  Redeliver, Die
    <3> QED
      BY <3>1, <3>2
  <2> QED
    BY <2>1 DEF market, Now
<1> DEFINE RowFits(r) == r.state # "none" => r.since >= 1
           TickFits(t) == (t.pc \in {"build", "write"} => t.since >= 1) /\ t.n <= Now
<1>3. RowFits(row')
  <2>1. CASE Look
    <3>1. CASE pos > 0
      <4>1. Now >= 1
        BY <1>0, <3>1 DEF SoldFacts, HeldIsBought
      <4>2. Min({looked + 1, Now}) >= 1
        BY <1>0, <4>1, LeastOfTwo
      <4>3. [NoRow EXCEPT !.state = "open", !.avg = Average, !.entry = Now,
                          !.since = Min({looked + 1, Now})].since = Min({looked + 1, Now})
        BY DEF NoRow
      <4> QED
        BY <1>1, <2>1, <3>1, <4>2, <4>3 DEF Look
    <3>2. CASE ~(pos > 0)
      <4>1. row.state = "open" => [row EXCEPT !.state = "closed", !.closed = Now].since = row.since
        BY <1>0 DEF WatchRows
      <4> QED
        BY <1>1, <2>1, <3>2, <4>1 DEF Look
    <3> QED
      BY <3>1, <3>2
  <2>2. CASE Clock
    BY <1>0, <1>1, <2>2 DEF Clock, Rest, Lapse, WatchRows
  <2>3. CASE Record
    BY <1>0, <1>1, <2>3 DEF Record, WatchRows
  <2>4. CASE row' = row
    BY <1>1, <2>4
  <2>5. ASSUME NEW from, NEW to, Deliver(from, to) PROVE row' = row
    BY <2>5 DEF Deliver
  <2>6. ASSUME NEW e, SendCard(e) PROVE row' = row
    BY <2>6 DEF SendCard
  <2>7. Look \/ Clock \/ Record \/ row' = row
    <3>1. CASE Watch
      BY <2>5, <2>6, <3>1 DEF Watch, StoreCard, Build, Write, Insert
    <3>2. CASE ~Watch
      BY <3>2 DEF Next, vars, Report, ReportBuild, ReportWrite, Listen, Handle, StoreOffset, Tap, Redeliver, Die
    <3> QED
      BY <3>1, <3>2
  <2> QED
    BY <2>1, <2>2, <2>3, <2>4, <2>7
<1>4. TickFits(tick')
  <2>1. \A pc \in {"send1", "send2"} : TickFits(Sent(pc))
    BY <1>0, <1>1, SentIs
  <2>2. \A pc \in {"send1", "send2"}, e \in Places : TickFits(Behind(e, pc))
    BY <1>1, <2>1, BehindIs
  <2>3. TickFits(Asleep)
    BY <1>0 DEF Asleep
  <2>4. CASE Look
    <3>1. Then("first").pc = "first" /\ Then("first").n = tick.n
      BY <1>0 DEF Then, Ticks
    <3> QED
      BY <1>1, <2>4, <3>1 DEF Look, Step
  <2>5. ASSUME NEW from, NEW to \in {"send1", "send2"}, Deliver(from, to) PROVE TickFits(tick')
    <3>1. /\ [tick EXCEPT !.pc = to, !.queue = Pending].pc = to
          /\ [tick EXCEPT !.pc = to, !.queue = Pending].n = tick.n
      BY <1>0 DEF Ticks
    <3>2. tick' = Sent(to) \/ tick' = [tick EXCEPT !.pc = to, !.queue = Pending]
      BY <2>5 DEF Deliver, Step
    <3> QED
      BY <1>1, <2>1, <3>1, <3>2
  <2>6. ASSUME NEW e \in Places, SendCard(e) PROVE TickFits(tick')
    <3>1. [tick EXCEPT !.e = e].pc = tick.pc /\ [tick EXCEPT !.e = e].n = tick.n
      BY <1>0 DEF Ticks
    <3>2. tick.pc \in {"send1", "send2"} /\ (tick' = Behind(e, tick.pc) \/ tick' = [tick EXCEPT !.e = e])
      BY <2>6 DEF SendCard, Step
    <3> QED
      BY <1>1, <2>2, <3>1, <3>2
  <2>7. CASE StoreCard
    <3>1. tick.e \in Places /\ tick.pc \in {"send1", "send2"} /\ tick' = Behind(tick.e, tick.pc)
      BY <1>0, <2>7 DEF StoreCard, Step, InHand, Ticks
    <3> QED
      BY <2>2, <3>1
  <2>8. CASE Build
    <3>1. /\ Then("write").since = tick.since
          /\ \A n : [Then("write") EXCEPT !.n = n].since = tick.since /\ [Then("write") EXCEPT !.n = n].n = n
      BY <1>0 DEF Then, Ticks
    <3>2. Then("record").pc = "record" /\ Then("record").n = tick.n
      BY <1>0 DEF Then, Ticks
    <3>3. tick.pc = "build" /\ (tick' = Then("record") \/ \E n \in 0..Now : tick' = [Then("write") EXCEPT !.n = n])
      BY <2>8 DEF Build, Step
    <3>4. CASE tick' = Then("record")
      BY <1>1, <3>2, <3>4
    <3>5. ASSUME NEW n \in 0..Now, tick' = [Then("write") EXCEPT !.n = n] PROVE TickFits(tick')
      <4>1. tick'.since = tick.since /\ tick'.n = n
        BY <3>1, <3>5
      <4>2. tick.since >= 1
        BY <1>1, <3>3
      <4> QED
        BY <1>0, <4>1, <4>2
    <3> QED
      BY <3>3, <3>4, <3>5
  <2>9. CASE Write
    <3>1. tick'.n = 0 /\ tick'.pc \in {"second", "insert"}
      BY <1>0, <2>9 DEF Write, Step, Ticks
    <3> QED
      BY <1>0, <3>1
  <2>10. CASE Insert
    <3>1. tick'.n = tick.n /\ tick'.pc \in {"second", "insert"}
      BY <1>0, <2>10 DEF Insert, Step, Ticks
    <3> QED
      BY <1>1, <3>1
  <2>11. CASE Record \/ Die
    BY <2>3, <2>11 DEF Record, Step, Die
  <2>12. CASE ~Watch /\ ~Die
    <3>1. tick' = tick
      BY <2>12 DEF Next, vars, Clock, Report, ReportBuild, ReportWrite, Listen, Handle, StoreOffset, Tap, Redeliver
    <3> QED
      BY <1>1, <3>1
  <2> QED
    BY <2>4, <2>5, <2>6, <2>7, <2>8, <2>9, <2>10, <2>11, <2>12 DEF Watch
<1>5. report'.n <= Now
  <2>1. CASE ReportBuild
    BY <1>0, <2>1 DEF ReportBuild
  <2>2. CASE ReportWrite \/ Die
    BY <1>0, <2>2 DEF ReportWrite, Die
  <2>3. ASSUME NEW from, NEW to, Deliver(from, to) PROVE report' = report
    BY <2>3 DEF Deliver
  <2>4. ASSUME NEW e, SendCard(e) PROVE report' = report
    BY <2>4 DEF SendCard
  <2>5. CASE ~Report /\ ~Die
    <3>1. CASE Watch
      BY <1>1, <2>3, <2>4, <3>1 DEF Watch, Look, StoreCard, Build, Write, Insert, Record
    <3>2. CASE ~Watch
      BY <1>1, <2>5, <3>2 DEF Next, vars, Clock, Listen, Handle, StoreOffset, Tap, Redeliver
    <3> QED
      BY <3>1, <3>2
  <2> QED
    BY <2>1, <2>2, <2>5 DEF Report
<1> QED
  BY <1>2, <1>3, <1>4, <1>5 DEF ReadsPast

LEMMA OthersSold ==
    ASSUME JournalTyped, InHand, SoldFacts, [Next]_vars, ~Trade
    PROVE  SoldFacts'
<1>1. ReadsPast' /\ hist' = hist /\ pos' = pos
  BY ReadsPastStays
<1>2. ASSUME NEW since \in Nat \ {0}, NEW n \in Nat, n <= Now, real' = Replaced(since, n)
      PROVE  SoldFacts'
  <2>1. \A e \in Places : real'[e] # "none" =>
                              /\ e <= Now /\ hist[e].kind = "entry"
                              /\ (real'[e] = "closed" => Sold(OwnExits(e)) >= Size)
    BY <1>2, ReplacedSold
  <2>2. RowsAreEntries'
    BY <1>1, <2>1 DEF RowsAreEntries, Now
  <2>3. \A e : Sold(OwnExits(e))' = Sold(OwnExits(e))
    BY <1>1 DEF Sold, OwnExits, After, Now
  <2>4. ClosedRowsSold'
    BY <2>1, <2>3 DEF ClosedRowsSold
  <2> QED
    BY <1>1, <2>2, <2>4 DEF SoldFacts, SoldThrough, HeldIsBought, Now
<1>3. CASE Write
  <2>1. tick.since \in Nat \ {0} /\ tick.n \in Nat /\ tick.n <= Now
    BY <1>3 DEF Write, SoldFacts, ReadsPast, JournalTyped, WatchTyped, Ticks
  <2> QED
    BY <1>2, <1>3, <2>1 DEF Write
<1>4. CASE ReportWrite
  <2>1. report.n \in Nat /\ report.n <= Now
    BY DEF SoldFacts, ReadsPast, JournalTyped, ReportTyped
  <2> QED
    BY <1>2, <1>4, <2>1 DEF ReportWrite
<1>5. CASE real' = real
  BY <1>1, <1>5, StillSold DEF Still
<1>6. Write \/ ReportWrite \/ real' = real
  <2>1. ASSUME NEW from, NEW to, Deliver(from, to) PROVE real' = real
    BY <2>1 DEF Deliver
  <2>2. ASSUME NEW e, SendCard(e) PROVE real' = real
    BY <2>2 DEF SendCard
  <2>3. CASE Watch
    BY <2>1, <2>2, <2>3 DEF Watch, Look, StoreCard, Build, Insert, Record
  <2>4. CASE ~Watch
    BY <2>4 DEF Next, vars, Clock, Report, ReportBuild, Listen, Handle, StoreOffset, Tap, Redeliver, Die
  <2> QED
    BY <2>3, <2>4
<1> QED
  BY <1>3, <1>4, <1>5, <1>6

LEMMA SoldInit == Init => SoldInv
<1> SUFFICES ASSUME Init PROVE SoldInv
  OBVIOUS
<1>1. CardInv
  BY CardInit
<1>2. hist = <<>> /\ pos = 0 /\ real = [e \in Places |-> "none"] /\ row = NoRow /\ tick = Asleep /\ report.n = 0
  BY DEF Init
<1>3. SoldThrough
  BY <1>2 DEF SoldThrough, Balanced
<1>4. HeldIsBought /\ RowsAreEntries /\ ClosedRowsSold
  BY <1>2 DEF HeldIsBought, RowsAreEntries, ClosedRowsSold
<1>5. ReadsPast
  BY <1>2 DEF ReadsPast, NoRow, Asleep, Now
<1> QED
  BY <1>1, <1>3, <1>4, <1>5 DEF SoldInv, SoldFacts

LEMMA SoldStep == SoldInv /\ [Next]_vars => SoldInv'
<1> SUFFICES ASSUME SoldInv, [Next]_vars PROVE SoldInv'
  OBVIOUS
<1>1. CardInv /\ SoldFacts /\ CardInv' /\ JournalTyped /\ InHand
  BY CardNext DEF SoldInv, CardInv, CardFacts
<1>2. SoldFacts'
  BY <1>1, TradeSold, OthersSold
<1> QED
  BY <1>1, <1>2 DEF SoldInv

LEMMA SoldAlways == Spec => []SoldInv
BY SoldInit, SoldStep, PTL DEF Spec

\* Whatever a window leaves out, a report reads late or a sync repeats, a trade that the
\* table calls closed was sold in full before the next one was entered.
THEOREM ClosedWasSold == Spec => []ClosedRowsSold
<1>1. SoldInv => ClosedRowsSold
  BY DEF SoldInv, SoldFacts
<1> QED
  BY <1>1, SoldAlways, PTL

-----------------------------------------------------------------------------
(* What a rebuild reopens.                                                 *)

\* The recursion that Closed goes by: the exits used by the entries up to k.
Uses(used, since, n) ==
    used = [k \in 0..n |->
               IF k < since THEN {}
               ELSE used[k - 1] \cup (IF hist[k].kind = "entry"
                                      THEN Taken(Exits(k, n) \ used[k - 1]) ELSE {})]

LEMMA UsesExist ==
    ASSUME NEW since \in Nat \ {0}, NEW n \in Nat
    PROVE  \E used : Uses(used, since, n)
<1> DEFINE Body(f, k) == IF k < since THEN {}
                         ELSE f[k - 1] \cup (IF hist[k].kind = "entry"
                                             THEN Taken(Exits(k, n) \ f[k - 1]) ELSE {})
           N == {m \in Nat : \E f : f = [k \in 0..m |-> Body(f, k)]}
<1>1. 0 \in N
  <2>1. PICK f : f = [k \in 0..0 |-> {}]
    OBVIOUS
  <2>2. \A k \in 0..0 : Body(f, k) = {}
    OBVIOUS
  <2>3. f = [k \in 0..0 |-> Body(f, k)]
    BY <2>1, <2>2
  <2> QED
    BY <2>3
<1>2. ASSUME NEW m \in Nat, m \in N PROVE m + 1 \in N
  <2>1. PICK g : g = [k \in 0..m |-> Body(g, k)]
    BY <1>2
  <2>2. PICK f : f = [k \in 0..(m + 1) |-> IF k <= m THEN g[k] ELSE Body(g, m + 1)]
    OBVIOUS
  <2>3. \A k \in 0..m : f[k] = g[k]
    BY <2>2
  <2>4. ASSUME NEW k \in 0..(m + 1) PROVE Body(f, k) = Body(g, k)
    <3>1. CASE k < since
      BY <3>1
    <3>2. CASE ~(k < since)
      <4>1. k - 1 \in 0..m
        BY <3>2
      <4>2. f[k - 1] = g[k - 1]
        BY <2>3, <4>1
      <4> QED
        BY <4>2
    <3> QED
      BY <3>1, <3>2
  <2> HIDE DEF Body
  <2>5. \A k \in 0..(m + 1) : f[k] = Body(f, k)
    <3>1. \A k \in 0..m : g[k] = Body(g, k)
      BY <2>1
    <3>2. f[m + 1] = Body(g, m + 1)
      BY <2>2
    <3>3. \A k \in 0..(m + 1) : k \in 0..m \/ k = m + 1
      OBVIOUS
    <3> QED
      BY <2>3, <2>4, <3>1, <3>2, <3>3
  <2>6. f = [k \in 0..(m + 1) |-> Body(f, k)]
    BY <2>2, <2>5
  <2> QED
    BY <2>6
<1> HIDE DEF N
<1>3. n \in N
  BY <1>1, <1>2, AllOf
<1>4. PICK f : f = [k \in 0..n |-> Body(f, k)]
  BY <1>3 DEF N
<1> QED
  BY <1>4 DEF Uses

LEMMA ClosedUses ==
    ASSUME NEW since \in Nat \ {0}, NEW n \in Nat
    PROVE  \E used : /\ Uses(used, since, n)
                     /\ Closed(since, n)
                           = {e \in Entries(since, n) : Sold(Taken(Exits(e, n) \ used[e - 1])) >= Size}
<1> DEFINE used == CHOOSE f : Uses(f, since, n)
<1>1. Uses(used, since, n)
  BY UsesExist, Zenon
<1>2. Closed(since, n) = {e \in Entries(since, n) : Sold(Taken(Exits(e, n) \ used[e - 1])) >= Size}
  BY DEF Closed, Uses
<1> QED
  BY <1>1, <1>2

\* Of exits that sell enough, the first ones that do are taken.
LEMMA TakenSells ==
    ASSUME hist \in Seq(Fills), NEW S \in SUBSET (1..Len(hist)), Sold(S) >= Size
    PROVE  Sold(Taken(S)) >= Size
<1>0. Size \in Nat \ {0}
  BY JournalBounds
<1> DEFINE late == {x \in S : Sold({y \in S : y < x}) >= Size}
<1>1. CASE late = {}
  <2>1. \A x \in S : {y \in S : y < x} \in SUBSET (1..Len(hist))
    OBVIOUS
  <2>2. \A x \in S : Sold({y \in S : y < x}) \in Nat
    BY <2>1, SoldInFacts, SoldIsIn
  <2>3. \A x \in S : Sold({y \in S : y < x}) < Size
    BY <1>0, <1>1, <2>2
  <2>4. Taken(S) = S
    BY <2>3 DEF Taken
  <2> QED
    BY <2>4
<1>2. CASE late # {}
  <2>1. late \in SUBSET Nat
    <3>1. \A x \in S : x \in Nat
      OBVIOUS
    <3>2. late \subseteq S
      BY Zenon
    <3> QED
      BY <3>1, <3>2, Zenon
  <2>2. PICK x \in late : \A z \in late : x <= z
    BY <1>2, <2>1, LeastIn
  <2>3. PICK before : before = {y \in S : y < x}
    OBVIOUS
  <2>4. before \subseteq Taken(S)
    <3>1. ASSUME NEW y \in before PROVE y \in Taken(S)
      <4>1. y \in S /\ y < x /\ y \in Nat /\ x \in Nat
        BY <2>2, <2>3
      <4>2. y \notin late
        BY <2>2, <4>1
      <4>3. {z \in S : z < y} \in SUBSET (1..Len(hist))
        OBVIOUS
      <4>4. Sold({z \in S : z < y}) \in Nat
        BY <4>3, SoldInFacts, SoldIsIn
      <4>5. Sold({z \in S : z < y}) < Size
        BY <1>0, <4>1, <4>2, <4>4
      <4> QED
        BY <4>1, <4>5 DEF Taken
    <3> QED
      BY <3>1
  <2>5. Sold(before) >= Size
    BY <2>2, <2>3
  <2>6. PICK T : T = Taken(S)
    OBVIOUS
  <2>7. T \in SUBSET (1..Len(hist)) /\ before \in SUBSET T
    BY <2>4, <2>6 DEF Taken
  <2>8. SoldIn(hist, before) <= SoldIn(hist, T)
    BY <2>7, SoldMore
  <2>9. SoldIn(hist, before) \in Nat /\ SoldIn(hist, T) \in Nat
    BY <2>7, SoldInFacts
  <2> QED
    BY <1>0, <2>5, <2>6, <2>8, <2>9, SoldIsIn
<1> QED
  BY <1>1, <1>2

\* No entry takes an exit that comes after the next entry: its own sell it in full.
LEMMA UsedBefore ==
    ASSUME JournalTyped, SoldFacts, NEW since \in Nat \ {0}, NEW n \in Nat, n <= Now,
           NEW used, Uses(used, since, n)
    PROVE  \A k \in 0..n : \A x \in used[k] : \A y \in (k + 1)..Len(hist) : hist[y].kind = "entry" => x < y
<1>0. hist \in Seq(Fills) /\ Len(hist) \in Nat /\ Now = Len(hist) /\ Size \in Nat \ {0} /\ pos \in Nat
  BY JournalBounds DEF JournalTyped, MarketTyped, Now
<1> DEFINE Before(k) == \A x \in used[k] : \A y \in (k + 1)..Len(hist) : hist[y].kind = "entry" => x < y
           N == {k \in Nat : k <= n => Before(k)}
<1>1. \A k \in 0..n : used[k] = IF k < since THEN {}
                               ELSE used[k - 1] \cup (IF hist[k].kind = "entry"
                                                      THEN Taken(Exits(k, n) \ used[k - 1]) ELSE {})
  BY DEF Uses
<1>2. 0 \in N
  <2>1. 0 \in 0..n /\ 0 < since
    OBVIOUS
  <2>2. used[0] = {}
    BY <2>1 DEF Uses
  <2> QED
    BY <2>2
<1>3. ASSUME NEW m \in Nat, m \in N PROVE m + 1 \in N
  <2> SUFFICES ASSUME m + 1 <= n PROVE Before(m + 1)
    OBVIOUS
  <2>1. Before(m) /\ m + 1 \in 0..n /\ (m + 1) - 1 = m
    BY <1>3
  <2>2. CASE m + 1 < since
    BY <1>1, <2>1, <2>2
  <2>3. CASE ~(m + 1 < since)
    <3>1. used[m + 1] = used[m] \cup (IF hist[m + 1].kind = "entry"
                                       THEN Taken(Exits(m + 1, n) \ used[m]) ELSE {})
      BY <1>1, <2>1, <2>3
    <3>2. \A x \in used[m] : \A y \in (m + 2)..Len(hist) : hist[y].kind = "entry" => x < y
      BY <2>1
    <3>3. CASE hist[m + 1].kind # "entry"
      BY <3>1, <3>2, <3>3
    <3>4. CASE hist[m + 1].kind = "entry"
      <4>1. m + 1 \in 1..Len(hist)
        BY <1>0, <2>1
      <4>2. \A x \in used[m] : x < m + 1
        BY <2>1, <3>4, <4>1
      <4>3. Exits(m + 1, n) \ used[m] = Exits(m + 1, n)
        BY <4>1, <4>2 DEF Exits
      <4>4. ASSUME NEW x \in Taken(Exits(m + 1, n)), NEW y \in (m + 2)..Len(hist), hist[y].kind = "entry"
            PROVE  x < y
        <5>1. /\ x \in (m + 2)..n /\ hist[x].kind = "exit"
              /\ Sold({z \in Exits(m + 1, n) : z < x}) < Size
          BY <4>4 DEF Taken, Exits
        <5>2. x # y /\ x \in Int /\ y \in Int
          BY <4>4, <5>1
        <5>3. SUFFICES ASSUME y < x PROVE FALSE
          BY <5>2
        <5>4. y \in Later(hist, m + 1)
          BY <4>4, <4>1 DEF Later
        <5>5. SoldIn(hist, Own(hist, m + 1)) >= Size
          <6>1. SoldIn(hist, Own(hist, m + 1)) + 0 >= Size
            BY <3>4, <4>1, <5>4 DEF SoldFacts, SoldThrough, Balanced
          <6>2. SoldIn(hist, Own(hist, m + 1)) \in Nat
            BY <1>0, <4>1, OwnTyped, SoldInFacts
          <6> QED
            BY <6>1, <6>2
        <5>6. PICK S : S = {z \in Exits(m + 1, n) : z < x}
          OBVIOUS
        <5>7. S \in SUBSET (1..Len(hist))
          BY <1>0, <5>6 DEF Exits
        <5>8. ASSUME NEW z \in Own(hist, m + 1) PROVE z \in S
          <6>1. z \in (m + 2)..Len(hist) /\ hist[z].kind = "exit" /\ z < y
            BY <5>4, <5>8, <4>1 DEF Own
          <6>2. z < x /\ z \in (m + 2)..n
            BY <1>0, <5>1, <5>2, <5>3, <6>1
          <6> QED
            BY <5>6, <6>1, <6>2 DEF Exits
        <5>9. SoldIn(hist, Own(hist, m + 1)) <= SoldIn(hist, S) /\ SoldIn(hist, S) \in Nat
              /\ SoldIn(hist, Own(hist, m + 1)) \in Nat
          <6>1. Own(hist, m + 1) \in SUBSET S
            BY <5>8
          <6>2. Own(hist, m + 1) \in SUBSET (1..Len(hist))
            BY <5>7, <6>1
          <6> QED
            BY <1>0, <5>7, <6>1, <6>2, SoldMore, SoldInFacts
        <5>10. SoldIn(hist, S) < Size
          BY <5>1, <5>6, SoldIsIn
        <5> QED
          BY <1>0, <5>5, <5>9, <5>10
      <4>5. used[m + 1] = used[m] \cup Taken(Exits(m + 1, n)) /\ (m + 1) + 1 = m + 2
        BY <3>1, <3>4, <4>3
      <4> QED
        BY <3>2, <4>4, <4>5
    <3> QED
      BY <3>3, <3>4
  <2> QED
    BY <2>2, <2>3
<1> HIDE DEF N
<1>4. \A k \in 0..n : k \in N
  BY <1>2, <1>3, AllOf
<1> QED
  BY <1>4 DEF N

\* A rebuild that has read the sale of an entry calls it closed.
LEMMA SoldIsClosed ==
    ASSUME JournalTyped, SoldFacts, NEW since \in Nat \ {0}, NEW n \in Nat, n <= Now,
           NEW e \in Entries(since, n), Sold(Exits(e, n)) >= Size
    PROVE  e \in Closed(since, n)
<1>0. hist \in Seq(Fills) /\ Len(hist) \in Nat /\ Now = Len(hist)
  BY DEF JournalTyped, MarketTyped, Now
<1>1. PICK used : /\ Uses(used, since, n)
                  /\ Closed(since, n)
                        = {x \in Entries(since, n) : Sold(Taken(Exits(x, n) \ used[x - 1])) >= Size}
  BY ClosedUses
<1>2. e \in 1..n /\ e - 1 \in 0..n /\ hist[e].kind = "entry" /\ e \in ((e - 1) + 1)..Len(hist)
  BY <1>0 DEF Entries
<1>3. \A x \in used[e - 1] : x < e
  BY <1>1, <1>2, UsedBefore
<1>4. Exits(e, n) \ used[e - 1] = Exits(e, n) /\ Exits(e, n) \in SUBSET (1..Len(hist))
  BY <1>0, <1>2, <1>3 DEF Exits
<1>5. Sold(Taken(Exits(e, n))) >= Size
  BY <1>0, <1>4, TakenSells
<1> QED
  BY <1>1, <1>4, <1>5

LEMMA ReplacedReopens ==
    ASSUME JournalTyped, SoldFacts, NEW since \in Nat \ {0}, NEW n \in Nat, n <= Now,
           NEW e \in Places, real[e] = "closed", Replaced(since, n)[e] # "closed"
    PROVE  Sold(Exits(e, n)) < Size
<1>0. hist \in Seq(Fills) /\ Len(hist) \in Nat /\ Now = Len(hist) /\ Size \in Nat \ {0} /\ MaxFills \in Nat
  BY JournalBounds DEF JournalTyped, MarketTyped, Now
<1>1. e \in 1..Len(hist) /\ hist[e].kind = "entry"
  BY <1>0 DEF SoldFacts, RowsAreEntries, Places
<1>2. ~(e < since) /\ e \notin Closed(since, n)
  <2>1. Replaced(since, n)[e] = IF e < since THEN real[e] ELSE Rebuilt(since, n)[e]
    BY DEF Replaced
  <2>2. e \in Closed(since, n) => Rebuilt(since, n)[e] = "closed"
    BY DEF Rebuilt
  <2> QED
    BY <2>1, <2>2
<1>3. CASE e > n
  <2>1. Exits(e, n) = {}
    BY <1>1, <1>3 DEF Exits
  <2>2. Sold({}) = 0
    BY NothingSold, SoldIsIn
  <2> QED
    BY <1>0, <2>1, <2>2
<1>4. CASE ~(e > n)
  <2>1. e \in Entries(since, n)
    BY <1>1, <1>2, <1>4 DEF Entries
  <2>2. ~(Sold(Exits(e, n)) >= Size)
    BY <1>2, <2>1, SoldIsClosed
  <2>3. Exits(e, n) \in SUBSET (1..Len(hist))
    BY <1>0, <1>1 DEF Exits
  <2>4. Sold(Exits(e, n)) \in Nat
    BY <1>0, <2>3, SoldInFacts, SoldIsIn
  <2> QED
    BY <1>0, <2>2, <2>4
<1> QED
  BY <1>1, <1>3, <1>4

\* A trade that the table calls closed is reopened or dropped only by a rebuild that had
\* read the exchange's history before the trade was sold, late as its write may come.
THEOREM OnlyOldReadsReopen == Spec => ReopenedOnlyByOldRead
<1> DEFINE A == \A e \in Places :
                   real[e] = "closed" /\ real'[e] # "closed" =>
                      \/ tick.pc = "write" /\ Sold(Exits(e, tick.n)) < Size
                      \/ report.pc = "write" /\ Sold(Exits(e, report.n)) < Size
<1>1. SoldInv /\ [Next]_vars => [A]_vars
  <2> SUFFICES ASSUME SoldInv, [Next]_vars, NEW e \in Places, real[e] = "closed", real'[e] # "closed"
               PROVE  \/ tick.pc = "write" /\ Sold(Exits(e, tick.n)) < Size
                      \/ report.pc = "write" /\ Sold(Exits(e, report.n)) < Size
    OBVIOUS
  <2>1. JournalTyped /\ SoldFacts
    BY DEF SoldInv, CardInv
  <2>2. CASE Write
    <3>1. tick.since \in Nat \ {0} /\ tick.n \in Nat /\ tick.n <= Now
      BY <2>1, <2>2 DEF Write, SoldFacts, ReadsPast, JournalTyped, WatchTyped, Ticks
    <3> QED
      BY <2>1, <2>2, <3>1, ReplacedReopens DEF Write
  <2>3. CASE ReportWrite
    <3>1. report.n \in Nat /\ report.n <= Now
      BY <2>1 DEF SoldFacts, ReadsPast, JournalTyped, ReportTyped
    <3> QED
      BY <2>1, <2>3, <3>1, ReplacedReopens DEF ReportWrite
  <2>4. Write \/ ReportWrite
    <3>1. ASSUME NEW from, NEW to, Deliver(from, to) PROVE real' = real
      BY <3>1 DEF Deliver
    <3>2. ASSUME NEW x, SendCard(x) PROVE real' = real
      BY <3>2 DEF SendCard
    <3>3. CASE Watch
      BY <3>1, <3>2, <3>3 DEF Watch, Look, StoreCard, Build, Insert, Record
    <3>4. CASE ~Watch
      BY <3>4 DEF Next, vars, Trade, Clock, Report, ReportBuild, Listen, Handle, StoreOffset, Tap, Redeliver, Die
    <3> QED
      BY <3>3, <3>4
  <2> QED
    BY <2>2, <2>3, <2>4
<1>2. Spec => [][A]_vars
  BY <1>1, SoldAlways, PTL DEF Spec
<1> QED
  BY <1>2 DEF ReopenedOnlyByOldRead
=============================================================================
