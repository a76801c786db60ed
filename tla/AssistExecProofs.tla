-------------------------- MODULE AssistExecProofs --------------------------
(***************************************************************************)
(* For any number of listeners and intents, taps delivered again and       *)
(* listeners that die: SentOnce, ImplementsBook and the types.  What       *)
(* carries them: only the listener that won an intent is beyond the        *)
(* claim with it, no second listener ever is, and until its POST the       *)
(* intent has not been sent; an intent that was won never waits for a      *)
(* tap again.                                                              *)
(*                                                                         *)
(* For one listener whose MARKET orders fill in full:                      *)
(* CoverNeverCancelled and BareIsTold.  What carries them: as long as no   *)
(* entry was given up and carried out late, the position is one entry or   *)
(* nothing and every order that rests is as large as that, so any one      *)
(* stop covers it (CalmInv); and the listener has the cover before it,     *)
(* is on its way to report that there is none, or has reported it          *)
(* (ReportInv).                                                            *)
(*                                                                         *)
(* Beside the watch job: SilentIsHeard, SentOnce and ImplementsBook.  What *)
(* carries them: neither the row, nor the advice, nor the tick knows a     *)
(* position that is still to come, and a new one has a new number; and of  *)
(* the open one no advice is stored and no row is latched before its owner *)
(* was warned, unless the row took it for another (WatchInv).              *)
(***************************************************************************)
EXTENDS AssistWatch, SetLemmas, SequenceTheorems, TLAPS

Fields  == {"pc", "att", "got", "fill", "olds", "text", "next", "top"}
Columns == {"kind", "status", "aged", "qty", "level", "gen"}

\* Where a listener that has not claimed may be, and one whose POST is still to come.
Unclaimed == {"idle", "claim", "expire"}
Unsent == {"keys", "guards", "clear", "margin", "market", "mread", "morders", "mplace",
           "xread", "xmarket"}

Past(p) == l[p].pc \notin Unclaimed

ListenerShape ==
    /\ DOMAIN l = Listeners /\ l = [p \in Listeners |-> l[p]]
    /\ \A p \in Listeners :
           /\ DOMAIN l[p] = Fields
           /\ l[p].next \in Nat \ {0} /\ l[p].top \in 0..Len(inbox)
           /\ l[p].pc # "idle" => l[p].next <= l[p].top

BookShape ==
    /\ DOMAIN intent = Intents /\ intent = [i \in Intents |-> intent[i]]
    /\ \A i \in Intents : DOMAIN intent[i] = Columns
    /\ won \subseteq Intents
    /\ sends \in [Intents -> 0..1]
    /\ inbox \in Seq([say : {"yes", "no"}, i : Intents])
    /\ offset \in Nat

WonIsUsed   == \A i \in won : intent[i].status \notin {"none", "preview"}
SentIsWon   == \A i \in Intents \ won : sends[i] = 0
PastHasWon  == \A p \in Listeners : Past(p) => The(p) \in won
UnsentYet   == \A p \in Listeners : l[p].pc \in Unsent => sends[The(p)] = 0
OneHolder   == \A p, q \in Listeners : Past(p) /\ Past(q) /\ The(p) = The(q) => p = q

ClaimInv ==
    /\ ListenerShape /\ BookShape
    /\ WonIsUsed /\ SentIsWon /\ PastHasWon /\ UnsentYet /\ OneHolder
-----------------------------------------------------------------------------
(***************************************************************************)
(* The states a listener goes to.                                          *)
(***************************************************************************)
Same(p, s) == DOMAIN s = Fields /\ s.next = l[p].next /\ s.top = l[p].top

LEMMA AtSame ==
    ASSUME NEW p, DOMAIN l[p] = Fields, NEW pc
    PROVE  Same(p, At(p, pc)) /\ At(p, pc).pc = pc
BY DEF Same, At, Fields

LEMMA EndSame ==
    ASSUME NEW p, DOMAIN l[p] = Fields, NEW text
    PROVE  Same(p, End(p, text)) /\ End(p, text).pc = "finish"
BY DEF Same, End, Fields

LEMMA FieldSame ==
    ASSUME NEW p, NEW s, Same(p, s), NEW v
    PROVE  /\ Same(p, [s EXCEPT !.got = v]) /\ [s EXCEPT !.got = v].pc = s.pc
           /\ Same(p, [s EXCEPT !.fill = v]) /\ [s EXCEPT !.fill = v].pc = s.pc
           /\ Same(p, [s EXCEPT !.att = v]) /\ [s EXCEPT !.att = v].pc = s.pc
           /\ Same(p, [s EXCEPT !.olds = v]) /\ [s EXCEPT !.olds = v].pc = s.pc
BY DEF Same, Fields

LEMMA RestShape ==
    DOMAIN Resting = Fields /\ Resting.pc = "idle" /\ Resting.next = 1 /\ Resting.top = 0
BY DEF Resting, Fields

LEMMA HandledShape ==
    ASSUME NEW p
    PROVE  /\ DOMAIN Handled(p) = Fields /\ Handled(p).pc = "idle"
           /\ Handled(p).next = l[p].next + 1 /\ Handled(p).top = l[p].top
BY DEF Resting, Handled, Fields

\* The tap a busy listener handles is one of the inbox.
LEMMA TapTyped ==
    ASSUME ClaimInv, NEW p \in Listeners, l[p].next <= l[p].top
    PROVE  The(p) \in Intents
<1>1. l[p].next \in 1..Len(inbox)
  BY DEF ClaimInv, ListenerShape, BookShape
<1>2. inbox[l[p].next] \in [say : {"yes", "no"}, i : Intents]
  BY <1>1, ElementOfSeq DEF ClaimInv, BookShape
<1> QED BY <1>2 DEF The, Tap
-----------------------------------------------------------------------------
(***************************************************************************)
(* Six ways in which a step moves listener and book.                       *)
(***************************************************************************)
\* On with the sequence, before or after the POST.
Onward(p) ==
    /\ Past(p)
    /\ \E s : /\ l' = [l EXCEPT ![p] = s] /\ Same(p, s) /\ s.pc \notin Unclaimed
              /\ s.pc \in Unsent => l[p].pc \in Unsent
    /\ UNCHANGED <<bookVars, inboxVars>>

\* The POST.
Sending(p) ==
    /\ l[p].pc \in Unsent
    /\ \E s : l' = [l EXCEPT ![p] = s] /\ Same(p, s) /\ s.pc \notin Unclaimed \cup Unsent
    /\ Sent(The(p))
    /\ UNCHANGED <<intent, told, won, inboxVars>>

\* The listener lets go of the tap, and may give its intent a status that is final.
Leaving(p) ==
    /\ \E s : /\ l' = [l EXCEPT ![p] = s] /\ DOMAIN s = Fields /\ s.pc = "idle"
              /\ s.next \in Nat \ {0} /\ s.top \in 0..Len(inbox)
    /\ \/ intent' = intent
       \/ \E status \in {"done", "failed", "expired", "cancelled"} :
              /\ The(p) \in Intents
              /\ intent' = [intent EXCEPT ![The(p)].status = status]
    /\ inbox' = inbox /\ offset' \in Nat
    /\ UNCHANGED <<won, sends>>

\* The listener takes a tap up, and the claim.
Starting(p) ==
    /\ l[p].pc = "idle" /\ l[p].next <= l[p].top
    /\ \E s : l' = [l EXCEPT ![p] = s] /\ Same(p, s) /\ s.pc \in Unclaimed
    /\ UNCHANGED <<bookVars, inboxVars>>

Claiming(p) ==
    /\ l[p].pc = "claim" /\ CanClaim(The(p))
    /\ intent' = [intent EXCEPT ![The(p)].status = "confirmed", ![The(p)].aged = FALSE]
    /\ won' = won \cup {The(p)}
    /\ l' = [l EXCEPT ![p] = At(p, "keys")]
    /\ UNCHANGED <<told, sends, inboxVars>>

LEMMA OnwardKeeps ==
    ASSUME ClaimInv, NEW p \in Listeners, Onward(p)
    PROVE  ClaimInv'
<1>1. PICK s : /\ l' = [l EXCEPT ![p] = s] /\ Same(p, s) /\ s.pc \notin Unclaimed
               /\ s.pc \in Unsent => l[p].pc \in Unsent
  BY DEF Onward
<1>2. UNCHANGED <<intent, won, sends, inbox, offset>>
  BY DEF Onward, bookVars, inboxVars
<1>3. \A q \in Listeners : l'[q] = IF q = p THEN s ELSE l[q]
  BY <1>1 DEF ClaimInv, ListenerShape
<1>4. \A q \in Listeners : l'[q].next = l[q].next /\ l'[q].top = l[q].top
  BY <1>1, <1>3 DEF Same
<1>5. \A q \in Listeners : The(q)' = The(q)
  BY <1>2, <1>4 DEF The, Tap
<1>6. \A q \in Listeners : Past(q)' <=> Past(q)
  BY <1>1, <1>3 DEF Past, Onward
<1>7. ListenerShape'
  BY <1>1, <1>2, <1>3, <1>4 DEF ClaimInv, ListenerShape, Same, Onward, Past, Unclaimed
<1>8. BookShape' /\ WonIsUsed' /\ SentIsWon'
  BY <1>2 DEF ClaimInv, BookShape, WonIsUsed, SentIsWon
<1>9. PastHasWon' /\ OneHolder'
  BY <1>2, <1>5, <1>6 DEF ClaimInv, PastHasWon, OneHolder
<1>10. UnsentYet'
  BY <1>1, <1>2, <1>3, <1>5 DEF ClaimInv, UnsentYet
<1> QED BY <1>7, <1>8, <1>9, <1>10 DEF ClaimInv

LEMMA SendingKeeps ==
    ASSUME ClaimInv, NEW p \in Listeners, Sending(p)
    PROVE  ClaimInv'
<1>1. PICK s : l' = [l EXCEPT ![p] = s] /\ Same(p, s) /\ s.pc \notin Unclaimed \cup Unsent
  BY DEF Sending
<1>2. UNCHANGED <<intent, won, inbox, offset>> /\ sends' = [sends EXCEPT ![The(p)] = @ + 1]
  BY DEF Sending, Sent, inboxVars
<1>3. \A q \in Listeners : l'[q] = IF q = p THEN s ELSE l[q]
  BY <1>1 DEF ClaimInv, ListenerShape
<1>4. \A q \in Listeners : l'[q].next = l[q].next /\ l'[q].top = l[q].top
  BY <1>1, <1>3 DEF Same
<1>5. \A q \in Listeners : The(q)' = The(q)
  BY <1>2, <1>4 DEF The, Tap
<1>6. \A q \in Listeners : Past(q)' <=> Past(q)
  BY <1>1, <1>3 DEF Past, Sending, Unclaimed, Unsent
<1>7. Past(p) /\ The(p) \in won /\ sends[The(p)] = 0
  BY DEF Sending, Unclaimed, Unsent, Past, ClaimInv, PastHasWon, UnsentYet
<1>8. ListenerShape'
  BY <1>1, <1>2, <1>3, <1>4, <1>7 DEF ClaimInv, ListenerShape, Same, Past, Unclaimed
<1>9. BookShape' /\ WonIsUsed' /\ SentIsWon'
  <2>1. sends' \in [Intents -> 0..1]
    BY <1>2, <1>7 DEF ClaimInv, BookShape
  <2> QED BY <1>2, <1>7, <2>1 DEF ClaimInv, BookShape, WonIsUsed, SentIsWon
<1>10. PastHasWon' /\ OneHolder'
  BY <1>2, <1>5, <1>6 DEF ClaimInv, PastHasWon, OneHolder
<1>11. ASSUME NEW q \in Listeners, l'[q].pc \in Unsent PROVE sends'[The(q)'] = 0
  <2>1. q # p /\ l[q].pc \in Unsent /\ Past(q)
    BY <1>1, <1>3, <1>11 DEF Past, Unsent, Unclaimed
  <2>2. The(q) # The(p)
    BY <1>7, <2>1 DEF ClaimInv, OneHolder
  <2>3. sends[The(q)] = 0 /\ The(q) \in Intents
    BY <2>1 DEF ClaimInv, UnsentYet, PastHasWon, BookShape
  <2> QED BY <1>2, <1>5, <2>2, <2>3 DEF ClaimInv, BookShape
<1> QED BY <1>8, <1>9, <1>10, <1>11 DEF ClaimInv, UnsentYet

LEMMA LeavingKeeps ==
    ASSUME ClaimInv, NEW p \in Listeners, Leaving(p)
    PROVE  ClaimInv'
<1>1. PICK s : /\ l' = [l EXCEPT ![p] = s] /\ DOMAIN s = Fields /\ s.pc = "idle"
               /\ s.next \in Nat \ {0} /\ s.top \in 0..Len(inbox)
  BY DEF Leaving
<1>2. UNCHANGED <<won, sends, inbox>> /\ offset' \in Nat
  BY DEF Leaving
<1>3. \A q \in Listeners : l'[q] = IF q = p THEN s ELSE l[q]
  BY <1>1 DEF ClaimInv, ListenerShape
<1>4. \A q \in Listeners : Past(q)' => q # p /\ Past(q)
  BY <1>1, <1>3 DEF Past, Unclaimed
<1>5. \A q \in Listeners : q # p => The(q)' = The(q)
  BY <1>2, <1>3 DEF The, Tap
<1>6. ListenerShape'
  BY <1>1, <1>2, <1>3 DEF ClaimInv, ListenerShape
<1>7. BookShape' /\ WonIsUsed'
  <2>1. CASE intent' = intent
    BY <1>2, <2>1 DEF ClaimInv, BookShape, WonIsUsed
  <2>2. CASE intent' # intent
    <3>1. PICK status \in {"done", "failed", "expired", "cancelled"} :
              The(p) \in Intents /\ intent' = [intent EXCEPT ![The(p)].status = status]
      BY <2>2 DEF Leaving
    <3>2. \A i \in Intents : i # The(p) => intent'[i] = intent[i]
      BY <3>1 DEF ClaimInv, BookShape
    <3>3. intent'[The(p)].status = status /\ DOMAIN intent'[The(p)] = Columns
      BY <3>1 DEF ClaimInv, BookShape, Columns
    <3> QED BY <1>2, <3>1, <3>2, <3>3 DEF ClaimInv, BookShape, WonIsUsed
  <2> QED BY <2>1, <2>2
<1>8. SentIsWon'
  BY <1>2 DEF ClaimInv, SentIsWon
<1>9. PastHasWon' /\ OneHolder'
  BY <1>2, <1>4, <1>5 DEF ClaimInv, PastHasWon, OneHolder
<1>10. UnsentYet'
  BY <1>1, <1>2, <1>3, <1>5 DEF ClaimInv, UnsentYet, Unsent
<1> QED BY <1>6, <1>7, <1>8, <1>9, <1>10 DEF ClaimInv

LEMMA StartingKeeps ==
    ASSUME ClaimInv, NEW p \in Listeners, Starting(p)
    PROVE  ClaimInv'
<1>1. PICK s : l' = [l EXCEPT ![p] = s] /\ Same(p, s) /\ s.pc \in Unclaimed
  BY DEF Starting
<1>2. UNCHANGED <<intent, won, sends, inbox, offset>>
  BY DEF Starting, bookVars, inboxVars
<1>3. \A q \in Listeners : l'[q] = IF q = p THEN s ELSE l[q]
  BY <1>1 DEF ClaimInv, ListenerShape
<1>4. \A q \in Listeners : l'[q].next = l[q].next /\ l'[q].top = l[q].top
  BY <1>1, <1>3 DEF Same
<1>5. \A q \in Listeners : The(q)' = The(q)
  BY <1>2, <1>4 DEF The, Tap
<1>6. \A q \in Listeners : Past(q)' => Past(q)
  BY <1>1, <1>3 DEF Past
<1>7. ListenerShape'
  BY <1>1, <1>2, <1>3, <1>4 DEF ClaimInv, ListenerShape, Same, Starting
<1>8. BookShape' /\ WonIsUsed' /\ SentIsWon'
  BY <1>2 DEF ClaimInv, BookShape, WonIsUsed, SentIsWon
<1>9. PastHasWon' /\ OneHolder'
  BY <1>2, <1>5, <1>6 DEF ClaimInv, PastHasWon, OneHolder
<1>10. UnsentYet'
  BY <1>1, <1>2, <1>3, <1>5 DEF ClaimInv, UnsentYet, Unsent, Unclaimed
<1> QED BY <1>7, <1>8, <1>9, <1>10 DEF ClaimInv

LEMMA ClaimingKeeps ==
    ASSUME ClaimInv, NEW p \in Listeners, Claiming(p)
    PROVE  ClaimInv'
<1> DEFINE s == At(p, "keys")
           i == The(p)
<1>1. l[p].next <= l[p].top /\ DOMAIN l[p] = Fields
  BY DEF ClaimInv, ListenerShape, Claiming
<1>2. i \in Intents /\ Same(p, s) /\ s.pc = "keys"
  BY <1>1, TapTyped, AtSame
<1>3. UNCHANGED <<sends, inbox, offset>> /\ won' = won \cup {i}
      /\ intent' = [intent EXCEPT ![i].status = "confirmed", ![i].aged = FALSE] /\ l' = [l EXCEPT ![p] = s]
  BY DEF Claiming, inboxVars
<1> HIDE DEF s, i
<1>4. \A q \in Listeners : l'[q] = IF q = p THEN s ELSE l[q]
  BY <1>3 DEF ClaimInv, ListenerShape
<1>5. \A q \in Listeners : l'[q].next = l[q].next /\ l'[q].top = l[q].top
  BY <1>2, <1>4 DEF Same
<1>6. \A q \in Listeners : The(q)' = The(q)
  BY <1>3, <1>5 DEF The, Tap
<1>7. i \notin won /\ The(p) = i
  BY DEF Claiming, CanClaim, ClaimInv, WonIsUsed, i
<1>8. \A q \in Listeners : Past(q)' => q = p \/ Past(q)
  BY <1>4 DEF Past
<1>9. \A q \in Listeners : Past(q) => The(q) # i
  BY <1>7 DEF ClaimInv, PastHasWon
<1>10. ListenerShape'
  BY <1>1, <1>2, <1>3, <1>4, <1>5 DEF ClaimInv, ListenerShape, Same
<1>11. BookShape' /\ WonIsUsed'
  <2>1. \A j \in Intents : j # i => intent'[j] = intent[j]
    BY <1>2, <1>3 DEF ClaimInv, BookShape
  <2>2. intent'[i].status = "confirmed" /\ DOMAIN intent'[i] = Columns
    BY <1>2, <1>3 DEF ClaimInv, BookShape, Columns
  <2> QED BY <1>2, <1>3, <2>1, <2>2 DEF ClaimInv, BookShape, WonIsUsed
<1>12. SentIsWon'
  BY <1>3 DEF ClaimInv, SentIsWon
<1>13. PastHasWon' /\ OneHolder'
  BY <1>3, <1>6, <1>7, <1>8, <1>9 DEF ClaimInv, PastHasWon, OneHolder
<1>14. UnsentYet'
  <2>1. sends[i] = 0
    BY <1>2, <1>7 DEF ClaimInv, SentIsWon
  <2> QED BY <1>3, <1>4, <1>6, <1>7, <2>1 DEF ClaimInv, UnsentYet
<1> QED BY <1>10, <1>11, <1>12, <1>13, <1>14 DEF ClaimInv
-----------------------------------------------------------------------------
(***************************************************************************)
(* Every action of a listener is one of those ways.                        *)
(***************************************************************************)
LEMMA Shapes ==
    ASSUME ClaimInv, NEW p \in Listeners
    PROVE  /\ DOMAIN l[p] = Fields
           /\ \A pc : Same(p, At(p, pc)) /\ At(p, pc).pc = pc
           /\ \A text : Same(p, End(p, text)) /\ End(p, text).pc = "finish"
<1>1. DOMAIN l[p] = Fields
  BY DEF ClaimInv, ListenerShape
<1> QED BY <1>1, AtSame, EndSame

\* A POST ends where its answer, its refusal or its silence leads.
LEMMA PostGoes ==
    ASSUME NEW p, NEW r, NEW a, NEW b, NEW c,
           Same(p, a), Same(p, b), Same(p, c), Post(p, r, a, b, c)
    PROVE  \E s : l' = [l EXCEPT ![p] = s] /\ Same(p, s) /\ s.pc \in {a.pc, b.pc, c.pc}
<1>1. \/ \E q : Go(p, [a EXCEPT !.got = q])
      \/ Go(p, b) \/ Go(p, c)
  BY DEF Post
<1>2. CASE \E q : Go(p, [a EXCEPT !.got = q])
  <2>1. PICK q : Go(p, [a EXCEPT !.got = q])
    BY <1>2
  <2>2. Same(p, [a EXCEPT !.got = q]) /\ [a EXCEPT !.got = q].pc = a.pc
    BY FieldSame
  <2> QED BY <2>1, <2>2 DEF Go
<1>3. CASE Go(p, b) \/ Go(p, c)
  BY <1>3 DEF Go
<1> QED BY <1>1, <1>2, <1>3

\* The same for a read.
LEMMA ReadGoes ==
    ASSUME NEW p, NEW a, NEW b, Same(p, a), Same(p, b), Read(p, a, b)
    PROVE  \E s : l' = [l EXCEPT ![p] = s] /\ Same(p, s) /\ s.pc \in {a.pc, b.pc}
BY DEF Read, Go

\* After a stop that is not there: the second attempt, or the last look.
LEMMA NextStopSame ==
    ASSUME NEW p, DOMAIN l[p] = Fields
    PROVE  Same(p, NextStop(p)) /\ NextStop(p).pc \in {"stop", "confirm"}
BY DEF NextStop, At, Same, Fields

\* The entry sequence, its own order apart.
LEMMA EntryOnward ==
    ASSUME ClaimInv, NEW p \in Listeners, Entry(p), ~Market(p)
    PROVE  Onward(p)
<1>0. /\ DOMAIN l[p] = Fields
      /\ \A pc : Same(p, At(p, pc)) /\ At(p, pc).pc = pc
      /\ \A text : Same(p, End(p, text)) /\ End(p, text).pc = "finish"
  BY Shapes
<1> USE DEF Onward, Past, Unclaimed, Unsent
<1>1. CASE EntryGuards(p)
  BY <1>0, <1>1 DEF EntryGuards, Read, Go
<1>2. CASE ClearStale(p)
  BY <1>0, <1>2 DEF ClearStale, Go
<1>3. CASE Margin(p)
  BY <1>0, <1>3 DEF Margin, Read, Go
<1>4. CASE MarketQuery(p)
  <2> DEFINE known == [At(p, "filled") EXCEPT !.got = done[The(p)].mkt]
  <2>1. Same(p, known) /\ known.pc = "filled"
    BY <1>0 DEF At, Same, Fields
  <2>2. Go(p, known) \/ Go(p, At(p, "mposition"))
    BY <1>4 DEF MarketQuery, Read
  <2>3. l[p].pc = "mquery" /\ UNCHANGED <<bookVars, inboxVars>>
    BY <1>4 DEF MarketQuery
  <2> HIDE DEF known
  <2> QED BY <1>0, <2>1, <2>2, <2>3 DEF Go
<1>5. CASE MarketPosition(p)
  <2> DEFINE known == [At(p, "filled") EXCEPT !.got = pos.qty]
  <2>1. Same(p, known) /\ known.pc = "filled"
    BY <1>0 DEF At, Same, Fields
  <2>2. Go(p, known) \/ Go(p, End(p, "failed")) \/ Go(p, End(p, "check"))
    BY <1>5 DEF MarketPosition, Read
  <2>3. l[p].pc = "mposition" /\ UNCHANGED <<bookVars, inboxVars>>
    BY <1>5 DEF MarketPosition
  <2> HIDE DEF known
  <2> QED BY <1>0, <2>1, <2>2, <2>3 DEF Go
<1>6. CASE Filled(p)
  <2> DEFINE known == [At(p, "stop") EXCEPT !.fill = l[p].got]
  <2>1. Same(p, known) /\ known.pc = "stop"
    BY <1>0 DEF At, Same, Fields
  <2>2. Go(p, known) \/ Go(p, End(p, "zero"))
    BY <1>6 DEF Filled
  <2>3. l[p].pc = "filled" /\ UNCHANGED <<bookVars, inboxVars>>
    BY <1>6 DEF Filled
  <2> HIDE DEF known
  <2> QED BY <1>0, <2>1, <2>2, <2>3 DEF Go
<1>7. CASE PlaceStop(p)
  <2>1. Same(p, NextStop(p)) /\ NextStop(p).pc \in {"stop", "confirm"}
    BY <1>0, NextStopSame
  <2> QED BY <1>0, <1>7, <2>1, PostGoes DEF PlaceStop
<1>8. CASE WouldTrigger(p)
  BY <1>0, <1>8 DEF WouldTrigger, Go
<1>9. CASE FindStop(p)
  <2>1. Same(p, NextStop(p)) /\ NextStop(p).pc \in {"stop", "confirm"}
    BY <1>0, NextStopSame
  <2>2. Go(p, At(p, "tp")) \/ Go(p, At(p, "again")) \/ Go(p, NextStop(p))
    BY <1>9 DEF FindStop, Read
  <2>3. l[p].pc \in {"find", "again"} /\ UNCHANGED <<bookVars, inboxVars>>
    BY <1>9 DEF FindStop
  <2> QED BY <1>0, <2>1, <2>2, <2>3 DEF Go
<1>10. CASE ConfirmStop(p)
  <2> DEFINE out == [At(p, "close") EXCEPT !.att = 0]
  <2>1. Same(p, out) /\ out.pc = "close"
    BY <1>0 DEF At, Same, Fields
  <2>2. Go(p, out) \/ Go(p, At(p, "tp"))
    BY <1>10 DEF ConfirmStop, Read
  <2>3. l[p].pc = "confirm" /\ UNCHANGED <<bookVars, inboxVars>>
    BY <1>10 DEF ConfirmStop
  <2> HIDE DEF out
  <2> QED BY <1>0, <2>1, <2>2, <2>3 DEF Go
<1>11. CASE CloseSend(p)
  BY <1>0, <1>11, PostGoes DEF CloseSend
<1>12. CASE CloseQuery(p)
  BY <1>0, <1>12 DEF CloseQuery, Read, Go
<1>13. CASE CloseCheck(p)
  <2> DEFINE again == [At(p, "cbefore") EXCEPT !.att = @ + 1]
  <2>1. Same(p, again) /\ again.pc = "cbefore"
    BY <1>0 DEF At, Same, Fields
  <2>2. Go(p, again) \/ Go(p, At(p, "close")) \/ Go(p, At(p, "orphans"))
        \/ Go(p, End(p, "naked"))
    BY <1>13 DEF CloseCheck, Read
  <2>3. l[p].pc \in {"cafter", "cbefore"} /\ UNCHANGED <<bookVars, inboxVars>>
    BY <1>13 DEF CloseCheck
  <2> HIDE DEF again
  <2> QED BY <1>0, <2>1, <2>2, <2>3 DEF Go
<1>14. CASE Orphans(p)
  BY <1>0, <1>14 DEF Orphans, Go
<1>15. CASE PlaceTP(p)
  BY <1>0, <1>15, PostGoes DEF PlaceTP
<1>16. CASE Link(p)
  BY <1>0, <1>16 DEF Link, Go
<1> QED BY <1>1, <1>2, <1>3, <1>4, <1>5, <1>6, <1>7, <1>8, <1>9, <1>10, <1>11, <1>12,
           <1>13, <1>14, <1>15, <1>16 DEF Entry

\* The stop move, the new stop apart.
LEMMA MoveOnward ==
    ASSUME ClaimInv, NEW p \in Listeners, Move(p), ~MovePlace(p)
    PROVE  Onward(p)
<1>0. /\ DOMAIN l[p] = Fields
      /\ \A pc : Same(p, At(p, pc)) /\ At(p, pc).pc = pc
      /\ \A text : Same(p, End(p, text)) /\ End(p, text).pc = "finish"
  BY Shapes
<1> USE DEF Onward, Past, Unclaimed, Unsent
<1>1. CASE MoveRead(p)
  BY <1>0, <1>1 DEF MoveRead, Read, Go, At, End, Same, Fields
<1>2. CASE MoveOrders(p)
  BY <1>0, <1>2 DEF MoveOrders, Read, Go, At, End, Same, Fields
<1>3. CASE MoveFind(p)
  BY <1>0, <1>3 DEF MoveFind, Read, Go
<1>4. CASE MoveCancel(p)
  BY <1>0, <1>4 DEF MoveCancel, Go
<1> QED BY <1>1, <1>2, <1>3, <1>4 DEF Move

\* The exit, the closing order apart.
LEMMA ExitOnward ==
    ASSUME ClaimInv, NEW p \in Listeners, Exit(p), ~ExitMarket(p)
    PROVE  Onward(p)
<1>0. /\ DOMAIN l[p] = Fields
      /\ \A pc : Same(p, At(p, pc)) /\ At(p, pc).pc = pc
      /\ \A text : Same(p, End(p, text)) /\ End(p, text).pc = "finish"
  BY Shapes
<1> USE DEF Onward, Past, Unclaimed, Unsent
<1>1. CASE ExitRead(p)
  BY <1>0, <1>1 DEF ExitRead, Read, Go, At, End, Same, Fields
<1>2. CASE ExitQuery(p)
  BY <1>0, <1>2 DEF ExitQuery, Read, Go
<1>3. CASE ExitPosition(p)
  BY <1>0, <1>3 DEF ExitPosition, Read, Go
<1>4. CASE ExitCancel(p)
  BY <1>0, <1>4 DEF ExitCancel, Go
<1> QED BY <1>1, <1>2, <1>3, <1>4 DEF Exit

\* The three orders that open, tighten and close are each POSTed by a Sending step.
LEMMA PostsAreSends ==
    ASSUME ClaimInv, NEW p \in Listeners, Market(p) \/ MovePlace(p) \/ ExitMarket(p)
    PROVE  Sending(p)
<1>0. /\ DOMAIN l[p] = Fields
      /\ \A pc : Same(p, At(p, pc)) /\ At(p, pc).pc = pc
      /\ \A text : Same(p, End(p, text)) /\ End(p, text).pc = "finish"
  BY Shapes
<1> USE DEF Sending, Unclaimed, Unsent
<1>1. CASE Market(p)
  BY <1>0, <1>1, PostGoes DEF Market
<1>2. CASE MovePlace(p)
  BY <1>0, <1>2, PostGoes DEF MovePlace
<1>3. CASE ExitMarket(p)
  BY <1>0, <1>3, PostGoes DEF ExitMarket
<1> QED BY <1>1, <1>2, <1>3

\* The listener's own bookkeeping, and its death.
LEMMA RestIsLeaving ==
    ASSUME ClaimInv, NEW p \in Listeners,
           \/ Fetch(p) \/ Store(p) \/ Swallow(p) \/ Decline(p) \/ Replay(p)
           \/ Expire(p) \/ Finish(p) \/ Crash(p)
    PROVE  Leaving(p)
<1>0. /\ DOMAIN l[p] = Fields
      /\ l[p].next \in Nat \ {0} /\ l[p].top \in 0..Len(inbox)
      /\ l[p].pc # "idle" => l[p].next <= l[p].top
      /\ offset \in Nat /\ Len(inbox) \in Nat
  BY DEF ClaimInv, ListenerShape, BookShape
<1>1. l[p].next <= l[p].top => The(p) \in Intents
  BY TapTyped
<1>2. /\ DOMAIN Handled(p) = Fields /\ Handled(p).pc = "idle"
      /\ Handled(p).next \in Nat \ {0} /\ Handled(p).top \in 0..Len(inbox)
  BY <1>0, HandledShape
<1>3. /\ DOMAIN Resting = Fields /\ Resting.pc = "idle"
      /\ Resting.next \in Nat \ {0} /\ Resting.top \in 0..Len(inbox)
  BY <1>0, RestShape
<1> USE DEF Leaving, Go, bookVars, inboxVars
<1>4. CASE Fetch(p)
  <2> DEFINE s == [l[p] EXCEPT !.next = offset + 1, !.top = Len(inbox)]
  <2>1. /\ DOMAIN s = Fields /\ s.pc = "idle"
        /\ s.next \in Nat \ {0} /\ s.top \in 0..Len(inbox)
    BY <1>0, <1>4 DEF Fetch, Fields
  <2> HIDE DEF s
  <2> QED BY <1>0, <1>4, <2>1 DEF Fetch, s
<1>5. CASE Store(p)
  <2>1. /\ l' = [l EXCEPT ![p] = Resting] /\ offset' = l[p].top
        /\ UNCHANGED <<intent, won, sends, inbox>>
    BY <1>5 DEF Store
  <2>2. l[p].top \in Nat
    BY <1>0
  <2> QED BY <1>3, <2>1, <2>2
<1>6. CASE Swallow(p)
  BY <1>0, <1>2, <1>6 DEF Swallow
<1>7. CASE Decline(p)
  BY <1>0, <1>1, <1>2, <1>7 DEF Decline, Due
<1>8. CASE Replay(p)
  BY <1>0, <1>2, <1>8 DEF Replay
<1>9. CASE Expire(p)
  BY <1>0, <1>1, <1>2, <1>9 DEF Expire
<1>10. CASE Finish(p)
  BY <1>0, <1>1, <1>2, <1>10 DEF Finish
<1>11. CASE Crash(p)
  BY <1>0, <1>3, <1>11 DEF Crash
<1> QED BY <1>4, <1>5, <1>6, <1>7, <1>8, <1>9, <1>10, <1>11

\* The claim, won or lost.
LEMMA ClaimIsClaiming ==
    ASSUME ClaimInv, NEW p \in Listeners, Claim(p)
    PROVE  Claiming(p) \/ Leaving(p)
<1>1. CASE CanClaim(The(p))
  BY <1>1 DEF Claim, Claiming, Go, inboxVars
<1>2. CASE ~CanClaim(The(p))
  <2>1. /\ l[p].next \in Nat \ {0} /\ l[p].top \in 0..Len(inbox) /\ offset \in Nat
    BY DEF ClaimInv, ListenerShape, BookShape
  <2> QED BY <1>2, <2>1, HandledShape DEF Claim, Leaving, Go, inboxVars
<1> QED BY <1>1, <1>2

\* Taking a tap up.
LEMMA ConfirmIsStarting ==
    ASSUME ClaimInv, NEW p \in Listeners, Confirm(p)
    PROVE  Starting(p)
BY Shapes DEF Confirm, Due, Starting, Go, Unclaimed

\* Checking the keys, once claimed.
LEMMA KeysIsOnward ==
    ASSUME ClaimInv, NEW p \in Listeners, Keys(p)
    PROVE  Onward(p)
BY Shapes DEF Keys, First, Read, Go, Onward, Past, Unclaimed, Unsent

LEMMA WorkSteps ==
    ASSUME ClaimInv, NEW p \in Listeners, Work(p) \/ Crash(p)
    PROVE  Onward(p) \/ Sending(p) \/ Leaving(p) \/ Starting(p) \/ Claiming(p)
<1>1. CASE Listen(p) \/ Crash(p)
  BY <1>1, RestIsLeaving, ClaimIsClaiming, ConfirmIsStarting, KeysIsOnward DEF Listen
<1>2. CASE Entry(p)
  BY <1>2, EntryOnward, PostsAreSends
<1>3. CASE Move(p)
  BY <1>3, MoveOnward, PostsAreSends
<1>4. CASE Exit(p)
  BY <1>4, ExitOnward, PostsAreSends
<1> QED BY <1>1, <1>2, <1>3, <1>4 DEF Work
-----------------------------------------------------------------------------
(***************************************************************************)
(* The rest of the world: it offers what was not won, lets previews age,   *)
(* and adds taps at the end of the inbox.                                  *)
(***************************************************************************)
Aside ==
    /\ UNCHANGED <<l, won, sends, offset>>
    /\ \/ UNCHANGED <<intent, inbox>>
       \/ /\ inbox' = inbox
          /\ \E i \in Intents \ won : \E r :
                /\ DOMAIN r = Columns /\ r.status = "preview"
                /\ intent' = [intent EXCEPT ![i] = r]
       \/ /\ intent' = intent
          /\ \E tap \in [say : {"yes", "no"}, i : Intents] : inbox' = Append(inbox, tap)

LEMMA AsideKeeps ==
    ASSUME ClaimInv, Aside
    PROVE  ClaimInv'
<1>0. UNCHANGED <<l, won, sends, offset>> /\ inbox \in Seq([say : {"yes", "no"}, i : Intents])
  BY DEF Aside, ClaimInv, BookShape
<1>1. CASE UNCHANGED <<intent, inbox>>
  <2>1. ListenerShape' BY <1>0, <1>1 DEF ClaimInv, ListenerShape
  <2>2. BookShape' BY <1>0, <1>1 DEF ClaimInv, BookShape
  <2>3. WonIsUsed' /\ SentIsWon' BY <1>0, <1>1 DEF ClaimInv, WonIsUsed, SentIsWon
  <2>4. \A p \in Listeners : The(p)' = The(p) /\ (Past(p)' <=> Past(p)) /\ l'[p] = l[p]
    BY <1>0, <1>1 DEF The, Tap, Past
  <2>5. PastHasWon' /\ UnsentYet' /\ OneHolder'
    BY <1>0, <2>4 DEF ClaimInv, PastHasWon, UnsentYet, OneHolder
  <2> QED BY <2>1, <2>2, <2>3, <2>5 DEF ClaimInv
<1>2. ASSUME inbox' = inbox, NEW i \in Intents \ won, NEW r, DOMAIN r = Columns,
             intent' = [intent EXCEPT ![i] = r]
      PROVE  ClaimInv'
  <2>1. ListenerShape' /\ PastHasWon' /\ UnsentYet' /\ OneHolder' /\ SentIsWon'
    BY <1>0, <1>2 DEF ClaimInv, ListenerShape, PastHasWon, UnsentYet, OneHolder, SentIsWon,
                      Past, The, Tap
  <2>2. BookShape' /\ WonIsUsed'
    BY <1>0, <1>2 DEF ClaimInv, BookShape, WonIsUsed
  <2> QED BY <2>1, <2>2 DEF ClaimInv
<1>3. ASSUME intent' = intent, NEW tap \in [say : {"yes", "no"}, i : Intents],
             inbox' = Append(inbox, tap)
      PROVE  ClaimInv'
  <2>1. /\ inbox' \in Seq([say : {"yes", "no"}, i : Intents])
        /\ Len(inbox') = Len(inbox) + 1 /\ Len(inbox) \in Nat
        /\ \A k \in 1..Len(inbox) : inbox'[k] = inbox[k]
    BY <1>0, <1>3, AppendProperties, LenProperties
  <2>2. \A p \in Listeners : l[p].next <= l[p].top => The(p)' = The(p)
    <3>1. \A p \in Listeners : l[p].next <= l[p].top => l[p].next \in 1..Len(inbox)
      BY <2>1 DEF ClaimInv, ListenerShape
    <3> QED BY <1>0, <2>1, <3>1 DEF The, Tap
  <2>3. \A p \in Listeners : Past(p) => The(p)' = The(p)
    BY <2>2 DEF ClaimInv, ListenerShape, Past, Unclaimed
  <2>4. ListenerShape'
    BY <1>0, <2>1 DEF ClaimInv, ListenerShape
  <2>5. BookShape' /\ WonIsUsed' /\ SentIsWon'
    BY <1>0, <1>3, <2>1 DEF ClaimInv, BookShape, WonIsUsed, SentIsWon
  <2>6. PastHasWon' /\ OneHolder'
    BY <1>0, <2>3 DEF ClaimInv, PastHasWon, OneHolder, Past
  <2>7. UnsentYet'
    BY <1>0, <2>3 DEF ClaimInv, UnsentYet, Past, Unsent, Unclaimed
  <2> QED BY <2>4, <2>5, <2>6, <2>7 DEF ClaimInv
<1> QED BY <1>1, <1>2, <1>3 DEF Aside

LEMMA OfferSteps ==
    ASSUME ClaimInv, NEW i \in Intents, NEW kind, NEW at, Offer(i, kind, at)
    PROVE  Aside
<1>1. PICK level : intent' = [intent EXCEPT ![i] =
          [kind |-> kind, status |-> "preview", aged |-> FALSE, level |-> level,
           qty |-> IF kind = "entry" THEN Size ELSE at.qty, gen |-> at.gen]]
  BY DEF Offer
<1>2. i \notin won
  BY DEF Offer, NoIntent, ClaimInv, WonIsUsed
<1> DEFINE r == [kind |-> kind, status |-> "preview", aged |-> FALSE, level |-> level,
                 qty |-> IF kind = "entry" THEN Size ELSE at.qty, gen |-> at.gen]
<1>3. DOMAIN r = Columns /\ r.status = "preview" /\ intent' = [intent EXCEPT ![i] = r]
  BY <1>1 DEF Columns
<1> HIDE DEF r
<1> QED BY <1>2, <1>3 DEF Offer, Aside, inboxVars

LEMMA OutsideSteps ==
    ASSUME ClaimInv, Outside \/ \E i \in Intents, kind \in Kinds : Offer(i, kind, pos)
    PROVE  Aside
<1>0. BookShape /\ WonIsUsed
  BY DEF ClaimInv
<1>1. ASSUME NEW i \in Intents, Age(i) PROVE Aside
  <2> DEFINE r == [intent[i] EXCEPT !.aged = TRUE]
  <2>1. intent' = [intent EXCEPT ![i] = r]
    BY <1>1 DEF Age
  <2>2. DOMAIN r = Columns /\ r.status = "preview" /\ i \notin won
    BY <1>0, <1>1 DEF Age, BookShape, WonIsUsed, Columns
  <2> HIDE DEF r
  <2> QED BY <1>1, <2>1, <2>2 DEF Age, Aside, inboxVars
<1>2. ASSUME NEW i \in Intents, NEW say \in {"yes", "no"}, Press(i, say) PROVE Aside
  <2>1. [say |-> say, i |-> i] \in [say : {"yes", "no"}, i : Intents]
    OBVIOUS
  <2> QED BY <1>2, <2>1 DEF Press, Aside, bookVars
<1>3. CASE (\E o \in orders : Trigger(o)) \/ (\E r \in late : Land(r)) \/ ByHand
  BY <1>3 DEF Trigger, Land, ByHand, Aside, bookVars, inboxVars
<1>4. ASSUME NEW i \in Intents, NEW kind \in Kinds, Offer(i, kind, pos) PROVE Aside
  BY <1>4, OfferSteps
<1> QED BY <1>1, <1>2, <1>3, <1>4 DEF Outside
-----------------------------------------------------------------------------
LEMMA ClaimInvInit ==
    Init => ClaimInv
<1> SUFFICES ASSUME Init PROVE ClaimInv
  OBVIOUS
<1>1. Len(inbox) = 0 /\ inbox \in Seq([say : {"yes", "no"}, i : Intents])
  BY DEF Init
<1>2. ListenerShape
  BY <1>1, RestShape DEF Init, ListenerShape
<1>3. BookShape
  BY <1>1 DEF Init, BookShape, NoIntent, Columns
<1>4. WonIsUsed /\ SentIsWon
  BY DEF Init, WonIsUsed, SentIsWon
<1>5. PastHasWon /\ UnsentYet /\ OneHolder
  BY RestShape DEF Init, PastHasWon, UnsentYet, OneHolder, Past, Unclaimed, Unsent
<1> QED BY <1>2, <1>3, <1>4, <1>5 DEF ClaimInv

LEMMA ClaimInvStep ==
    ClaimInv /\ [Next]_vars => ClaimInv'
<1> SUFFICES ASSUME ClaimInv, [Next]_vars PROVE ClaimInv'
  OBVIOUS
<1>1. ASSUME NEW p \in Listeners, Work(p) \/ Crash(p) PROVE ClaimInv'
  BY <1>1, WorkSteps, OnwardKeeps, SendingKeeps, LeavingKeeps, StartingKeeps, ClaimingKeeps
<1>2. CASE Outside \/ \E i \in Intents, kind \in Kinds : Offer(i, kind, pos)
  BY <1>2, OutsideSteps, AsideKeeps
<1>3. CASE UNCHANGED vars
  BY <1>3, AsideKeeps DEF vars, bookVars, inboxVars, Aside
<1> QED BY <1>1, <1>2, <1>3 DEF Next

\* Only what holds the claim may send: the invariant behind both theorems.
THEOREM ClaimInvariant == Spec => []ClaimInv
BY ClaimInvInit, ClaimInvStep, PTL DEF Spec

\* Whatever taps, redeliveries, crashes and listeners there are, the order of an
\* intent is POSTed at most once (store.claim_exec_intent, execute.confirm_*).
THEOREM OrderSentOnce == Spec => []SentOnce
<1>1. ClaimInv => SentOnce
  BY DEF ClaimInv, BookShape, SentOnce
<1> QED BY <1>1, ClaimInvariant, PTL
-----------------------------------------------------------------------------
(***************************************************************************)
(* The refinement: what is offered is what still waits as a preview.       *)
(***************************************************************************)
offered == {i \in Intents : intent[i].status = "preview"}
sent    == {i \in Intents : sends[i] = 1}

LEMMA WorkRefines ==
    ASSUME ClaimInv, NEW p \in Listeners,
           Onward(p) \/ Sending(p) \/ Leaving(p) \/ Starting(p) \/ Claiming(p)
    PROVE  [Book!Next]_(Book!vars)
<1> USE DEF Book!Next, Book!vars
<1>0. BookShape /\ WonIsUsed /\ SentIsWon /\ PastHasWon /\ UnsentYet
  BY DEF ClaimInv
<1>1. CASE Onward(p) \/ Starting(p)
  BY <1>1 DEF Onward, Starting, bookVars
<1>2. CASE Sending(p)
  <2>1. The(p) \in won /\ sends[The(p)] = 0 /\ won \subseteq Intents
    BY <1>0, <1>2 DEF Sending, PastHasWon, UnsentYet, BookShape, Past, Unsent, Unclaimed
  <2>2. intent' = intent /\ won' = won /\ sends' = [sends EXCEPT ![The(p)] = @ + 1]
    BY <1>2 DEF Sending, Sent
  <2>3. sent' = sent \cup {The(p)} /\ The(p) \in Intents /\ The(p) \notin sent
    BY <1>0, <2>1, <2>2 DEF sent, BookShape
  <2> QED BY <2>1, <2>2, <2>3 DEF Book!Send, sent
<1>3. CASE Leaving(p)
  <2>1. won' = won /\ sends' = sends
    BY <1>3 DEF Leaving
  <2>2. CASE intent' = intent
    BY <2>1, <2>2
  <2>3. CASE intent' # intent
    <3>1. PICK status \in {"done", "failed", "expired", "cancelled"} :
              The(p) \in Intents /\ intent' = [intent EXCEPT ![The(p)].status = status]
      BY <1>3, <2>3 DEF Leaving
    <3>2. \A i \in Intents : i # The(p) => intent'[i] = intent[i]
      BY <1>0, <3>1 DEF BookShape
    <3>3. intent'[The(p)].status = status
      BY <1>0, <3>1 DEF BookShape, Columns
    <3>4. offered' = offered \ {The(p)}
      BY <3>1, <3>2, <3>3 DEF offered
    <3> QED BY <2>1, <3>1, <3>4 DEF Book!Drop, offered
  <2> QED BY <2>2, <2>3
<1>4. CASE Claiming(p)
  <2>1. /\ The(p) \in Intents /\ intent[The(p)].status = "preview"
        /\ intent' = [intent EXCEPT ![The(p)].status = "confirmed", ![The(p)].aged = FALSE]
        /\ won' = won \cup {The(p)} /\ sends' = sends
    BY <1>4, TapTyped DEF Claiming, CanClaim, ClaimInv, ListenerShape
  <2>2. \A i \in Intents : i # The(p) => intent'[i] = intent[i]
    BY <1>0, <2>1 DEF BookShape
  <2>3. intent'[The(p)].status = "confirmed"
    BY <1>0, <2>1 DEF BookShape, Columns
  <2>4. offered' = offered \ {The(p)} /\ The(p) \in offered
    BY <2>1, <2>2, <2>3 DEF offered
  <2> QED BY <2>1, <2>4 DEF Book!Win, offered
<1> QED BY <1>1, <1>2, <1>3, <1>4

LEMMA AsideRefines ==
    ASSUME ClaimInv, Aside
    PROVE  [Book!Next]_(Book!vars)
<1> USE DEF Book!Next, Book!vars
<1>0. UNCHANGED <<won, sends>>
  BY DEF Aside
<1>1. CASE intent' = intent
  BY <1>0, <1>1
<1>2. ASSUME NEW i \in Intents \ won, NEW r, r.status = "preview",
             intent' = [intent EXCEPT ![i] = r]
      PROVE  [Book!Next]_(Book!vars)
  <2>1. offered' = offered \cup {i}
    BY <1>2 DEF ClaimInv, BookShape, offered
  <2> QED BY <1>0, <1>2, <2>1 DEF Book!Offer, offered
<1> QED BY <1>1, <1>2 DEF Aside

\* store.claim_exec_intent and the statuses implement the book of intents: an intent
\* is won by one tap or dropped, what was won is sent at most once, what was dropped never.
THEOREM IntentsImplementBook == Spec => ImplementsBook
<1>1. Init => Book!Init
  BY DEF Init, Book!Init, NoIntent
<1>2. ClaimInv /\ [Next]_vars => [Book!Next]_(Book!vars)
  <2> SUFFICES ASSUME ClaimInv, [Next]_vars PROVE [Book!Next]_(Book!vars)
    OBVIOUS
  <2>1. ASSUME NEW p \in Listeners, Work(p) \/ Crash(p) PROVE [Book!Next]_(Book!vars)
    BY <2>1, WorkSteps, WorkRefines
  <2>2. CASE Outside \/ \E i \in Intents, kind \in Kinds : Offer(i, kind, pos)
    BY <2>2, OutsideSteps, AsideRefines
  <2>3. CASE UNCHANGED vars
    BY <2>3, AsideRefines DEF vars, bookVars, inboxVars, Aside
  <2> QED BY <2>1, <2>2, <2>3 DEF Next
<1> QED BY <1>1, <1>2, ClaimInvariant, PTL DEF Spec, ImplementsBook, Book!Spec
-----------------------------------------------------------------------------
(***************************************************************************)
(* Types.                                                                  *)
(***************************************************************************)
Rows == [kind : {"none", "entry", "move", "exit"},
         status : {"none", "preview", "confirmed", "done", "failed", "cancelled", "expired"},
         aged : BOOLEAN, qty : Nat, level : Nat, gen : Nat]
Requests == [by : Intents \cup {Owner}, step : RestSteps \cup {"mkt", "cls", "ex"},
             qty : Nat, level : Nat]

RowsTyped == intent \in [Intents -> Rows]
AccountTyped ==
    /\ pos \in [qty : Nat, gen : Nat]
    /\ orders \subseteq Requests /\ IsFiniteSet(orders) /\ late \subseteq Requests
    /\ done \in [Intents -> [mkt : Nat, cls : Nat, ex : Nat]]
Counted(s) == s.got \in Nat /\ s.fill \in Nat

ExecInv == ClaimInv /\ RowsTyped /\ AccountTyped /\ \A p \in Listeners : Counted(l[p])

LEMMA LeastNat ==
    ASSUME NEW a \in Nat, NEW b \in Nat
    PROVE  Least(a, b) \in Nat /\ Least(a, b) <= a /\ Least(a, b) <= b
BY DEF Least

\* What an order may execute is a number, and no more than a closing order finds.
LEMMA FillsTyped ==
    ASSUME AccountTyped, NEW r \in Requests, NEW q \in Fills(r)
    PROVE  q \in Nat /\ (r.step \in {"cls", "ex"} => q <= pos.qty)
<1>1. r.qty \in Nat /\ pos.qty \in Nat
  BY DEF AccountTyped, Requests
<1>2. Least(r.qty, pos.qty) \in Nat /\ Least(r.qty, pos.qty) <= pos.qty
  BY <1>1, LeastNat
<1>3. CASE r.step = "mkt"
  BY <1>1, <1>3 DEF Fills
<1>4. CASE r.step \in {"cls", "ex"}
  BY <1>1, <1>2, <1>4 DEF Fills
<1>5. CASE r.step \notin {"mkt", "cls", "ex"}
  BY <1>5 DEF Fills
<1> QED BY <1>3, <1>4, <1>5

LEMMA ExecuteTyped ==
    ASSUME AccountTyped, NEW r \in Requests, NEW q \in Fills(r), Execute(r, q)
    PROVE  /\ pos' \in [qty : Nat, gen : Nat]
           /\ orders' \subseteq Requests /\ IsFiniteSet(orders')
           /\ done' \in [Intents -> [mkt : Nat, cls : Nat, ex : Nat]]
<1>1. q \in Nat /\ (r.step \in {"cls", "ex"} => q <= pos.qty) /\ pos \in [qty : Nat, gen : Nat]
  BY FillsTyped DEF AccountTyped
<1>2. pos' \in [qty : Nat, gen : Nat]
  <2>1. CASE r.step = "mkt" /\ q > 0
    BY <1>1, <2>1 DEF Execute
  <2>2. CASE r.step \in {"cls", "ex"}
    <3>1. pos' = [pos EXCEPT !.qty = @ - q] /\ pos.qty - q \in Nat
      BY <1>1, <2>2 DEF Execute
    <3> QED BY <1>1, <3>1
  <2>3. CASE ~(r.step = "mkt" /\ q > 0) /\ r.step \notin {"cls", "ex"}
    BY <1>1, <2>3 DEF Execute
  <2> QED BY <2>1, <2>2, <2>3
<1>3. orders' \subseteq Requests /\ IsFiniteSet(orders')
  BY FS_AddElement DEF Execute, AccountTyped
<1>4. done' \in [Intents -> [mkt : Nat, cls : Nat, ex : Nat]]
  <2>1. CASE r.step \in RestSteps
    BY <2>1 DEF Execute, AccountTyped
  <2>2. CASE r.step \in {"mkt", "cls", "ex"} /\ r.step \notin RestSteps
    BY <1>1, <2>2 DEF Execute, AccountTyped
  <2> QED BY <2>1, <2>2 DEF Requests
<1> QED BY <1>2, <1>3, <1>4

LEMMA PostTyped ==
    ASSUME AccountTyped, NEW p, NEW r \in Requests, NEW a, NEW b, NEW c, Post(p, r, a, b, c)
    PROVE  /\ AccountTyped'
           /\ \E s : /\ l' = [l EXCEPT ![p] = s]
                     /\ s \in {b, c} \/ \E q \in Nat : s = [a EXCEPT !.got = q]
<1>1. CASE \E q \in Fills(r) : /\ Execute(r, q) /\ Go(p, [a EXCEPT !.got = q])
                               /\ late' = late
  BY <1>1, ExecuteTyped, FillsTyped DEF AccountTyped, Go
<1>2. CASE Nothing /\ late' \subseteq late \cup {r} /\ (Go(p, b) \/ Go(p, c))
  BY <1>2 DEF AccountTyped, Go, Nothing
<1>3. CASE Go(p, c) /\ (\E q \in Fills(r) : Execute(r, q)) /\ late' = late
  BY <1>3, ExecuteTyped DEF AccountTyped, Go
<1> QED BY <1>1, <1>2, <1>3 DEF Post

LEMMA CancelKeeps ==
    ASSUME NEW T, CancelAll(T)
    PROVE  orders' \subseteq orders /\ orders \ T \subseteq orders'
BY DEF CancelAll

LEMMA FewerTyped ==
    ASSUME AccountTyped, orders' \subseteq orders, UNCHANGED <<pos, done, late>>
    PROVE  AccountTyped'
BY FS_Subset DEF AccountTyped

\* What a listener counts is counted on.
LEMMA CountedOn ==
    ASSUME NEW p, DOMAIN l[p] = Fields, Counted(l[p])
    PROVE  /\ \A pc : Counted(At(p, pc)) /\ \A n : Counted([At(p, pc) EXCEPT !.att = n])
           /\ \A pc, x : Counted([At(p, pc) EXCEPT !.olds = x])
           /\ \A pc : \A q \in Nat : Counted([At(p, pc) EXCEPT !.got = q])
           /\ \A pc : \A q \in Nat : Counted([At(p, pc) EXCEPT !.fill = q])
           /\ \A text : Counted(End(p, text))
           /\ Counted(NextStop(p)) /\ Counted(Handled(p)) /\ Counted(Resting)
BY DEF Counted, At, End, NextStop, Handled, Resting, Fields

\* A step of a listener: where it goes, and what it leaves of the account and the rows.
Typed(p) ==
    /\ AccountTyped' /\ RowsTyped'
    /\ \E s : l' = [l EXCEPT ![p] = s] /\ Counted(s)

LEMMA PostIsTyped ==
    ASSUME ExecInv, NEW p \in Listeners, l[p].pc # "idle", intent' = intent,
           NEW step \in RestSteps \cup {"mkt", "cls", "ex"}, NEW qty \in Nat, NEW level \in Nat,
           NEW a, NEW b, NEW c, Counted(b), Counted(c),
           \A q \in Nat : Counted([a EXCEPT !.got = q]),
           Post(p, Request(The(p), step, qty, level), a, b, c)
    PROVE  Typed(p)
<1>1. The(p) \in Intents
  BY TapTyped DEF ExecInv, ClaimInv, ListenerShape
<1>2. Request(The(p), step, qty, level) \in Requests
  BY <1>1 DEF Request, Requests
<1>3. AccountTyped' /\ \E s : /\ l' = [l EXCEPT ![p] = s]
                              /\ s \in {b, c} \/ \E q \in Nat : s = [a EXCEPT !.got = q]
  <2>1. AccountTyped BY DEF ExecInv
  <2> DEFINE r == Request(The(p), step, qty, level)
  <2>2. r \in Requests /\ Post(p, r, a, b, c) BY <1>2
  <2> HIDE DEF r
  <2> QED BY <2>1, <2>2, PostTyped
<1>4. RowsTyped'
  BY DEF ExecInv, RowsTyped
<1>5. PICK s : /\ l' = [l EXCEPT ![p] = s]
               /\ s \in {b, c} \/ \E q \in Nat : s = [a EXCEPT !.got = q]
  BY <1>3
<1>6. Counted(s)
  BY <1>5
<1> QED BY <1>3, <1>4, <1>5, <1>6 DEF Typed

\* A step that leaves account and rows alone, or only has fewer orders.
LEMMA QuietIsTyped ==
    ASSUME ExecInv, NEW p \in Listeners, orders' \subseteq orders,
           UNCHANGED <<intent, pos, done, late>>, NEW s, Go(p, s), Counted(s)
    PROVE  Typed(p)
<1>1. AccountTyped' /\ RowsTyped'
  BY FewerTyped DEF ExecInv, RowsTyped
<1> QED BY <1>1 DEF Typed, Go

\* A step that gives the intent in hand a status.
LEMMA StatusIsTyped ==
    ASSUME ExecInv, NEW p \in Listeners, UNCHANGED account, NEW s, Go(p, s), Counted(s),
           NEW status \in {"confirmed", "done", "failed", "cancelled", "expired"},
           intent' = [intent EXCEPT ![The(p)].status = status]
    PROVE  Typed(p)
<1>1. AccountTyped'
  BY DEF ExecInv, AccountTyped, account
<1>2. RowsTyped'
  BY DEF ExecInv, RowsTyped, Rows
<1> QED BY <1>1, <1>2 DEF Typed, Go

LEMMA CountedThere ==
    ASSUME ExecInv, NEW p \in Listeners
    PROVE  /\ \A pc : Counted(At(p, pc)) /\ \A n : Counted([At(p, pc) EXCEPT !.att = n])
           /\ \A pc, x : Counted([At(p, pc) EXCEPT !.olds = x])
           /\ \A pc : \A q \in Nat : Counted([At(p, pc) EXCEPT !.got = q])
           /\ \A pc : \A q \in Nat : Counted([At(p, pc) EXCEPT !.fill = q])
           /\ \A text : Counted(End(p, text))
           /\ Counted(NextStop(p)) /\ Counted(Handled(p)) /\ Counted(Resting)
           /\ l[p].got \in Nat /\ l[p].fill \in Nat /\ pos.qty \in Nat
<1>1. DOMAIN l[p] = Fields /\ Counted(l[p])
  BY DEF ExecInv, ClaimInv, ListenerShape
<1>2. l[p].got \in Nat /\ l[p].fill \in Nat /\ pos.qty \in Nat
  BY <1>1 DEF Counted, ExecInv, AccountTyped
<1> QED BY <1>1, <1>2, CountedOn

LEMMA ListenTyped ==
    ASSUME ExecInv, NEW p \in Listeners, Listen(p) \/ Crash(p)
    PROVE  Typed(p)
<1>0. /\ \A pc : Counted(At(p, pc)) /\ \A text : Counted(End(p, text))
      /\ Counted(Handled(p)) /\ Counted(Resting)
  BY CountedThere
<1> USE DEF account, bookVars, inboxVars
<1>1. CASE Fetch(p)
  <2> DEFINE s == [l[p] EXCEPT !.next = offset + 1, !.top = Len(inbox)]
  <2>1. Counted(s)
    BY DEF ExecInv, ClaimInv, ListenerShape, Counted, Fields
  <2> QED BY <1>1, <2>1, QuietIsTyped DEF Fetch
<1>2. CASE Store(p) \/ Crash(p)
  BY <1>0, <1>2, QuietIsTyped DEF Store, Crash
<1>3. CASE Swallow(p) \/ Replay(p)
  BY <1>0, <1>3, QuietIsTyped DEF Swallow, Replay
<1>4. CASE Decline(p)
  BY <1>0, <1>4, QuietIsTyped, StatusIsTyped DEF Decline
<1>5. CASE Confirm(p)
  BY <1>0, <1>5, QuietIsTyped DEF Confirm
<1>6. CASE Expire(p)
  BY <1>0, <1>6, StatusIsTyped DEF Expire
<1>7. CASE Claim(p)
  BY <1>0, <1>7, QuietIsTyped, StatusIsTyped DEF Claim
<1>8. CASE Keys(p)
  BY <1>0, <1>8, QuietIsTyped DEF Keys, Read
<1>9. CASE Finish(p)
  BY <1>0, <1>9, StatusIsTyped DEF Finish
<1> QED BY <1>1, <1>2, <1>3, <1>4, <1>5, <1>6, <1>7, <1>8, <1>9 DEF Listen

\* The quantity of an intent in hand, and its level, are numbers.
LEMMA RowTyped ==
    ASSUME ExecInv, NEW p \in Listeners, l[p].pc # "idle"
    PROVE  The(p) \in Intents /\ intent[The(p)].qty \in Nat /\ intent[The(p)].level \in Nat
<1>1. The(p) \in Intents
  BY TapTyped DEF ExecInv, ClaimInv, ListenerShape
<1> QED BY <1>1 DEF ExecInv, RowsTyped, Rows

LEMMA PostsTyped ==
    ASSUME ExecInv, NEW p \in Listeners,
           \/ Market(p) \/ PlaceStop(p) \/ CloseSend(p) \/ PlaceTP(p)
           \/ MovePlace(p) \/ ExitMarket(p)
    PROVE  Typed(p)
<1>0. /\ \A pc : Counted(At(p, pc)) /\ \A text : Counted(End(p, text))
      /\ \A pc : \A q \in Nat : Counted([At(p, pc) EXCEPT !.got = q])
      /\ Counted(NextStop(p)) /\ l[p].fill \in Nat
  BY CountedThere
<1> USE DEF bookVars, RestSteps, StopSteps
<1>1. CASE Market(p)
  BY <1>0, <1>1, RowTyped, PostIsTyped DEF Market
<1>2. CASE PlaceStop(p)
  <2>1. StopStep(p) \in RestSteps
    BY DEF StopStep
  <2> QED BY <1>0, <1>2, <2>1, PostIsTyped DEF PlaceStop
<1>3. CASE CloseSend(p)
  BY <1>0, <1>3, PostIsTyped DEF CloseSend
<1>4. CASE PlaceTP(p)
  BY <1>0, <1>4, PostIsTyped DEF PlaceTP
<1>5. CASE MovePlace(p)
  BY <1>0, <1>5, RowTyped, PostIsTyped DEF MovePlace
<1>6. CASE ExitMarket(p)
  BY <1>0, <1>6, PostIsTyped DEF ExitMarket
<1> QED BY <1>1, <1>2, <1>3, <1>4, <1>5, <1>6

LEMMA CancelsTyped ==
    ASSUME ExecInv, NEW p \in Listeners,
           ClearStale(p) \/ ConfirmStop(p) \/ Orphans(p) \/ MoveCancel(p) \/ ExitCancel(p)
    PROVE  Typed(p)
<1>0. /\ \A pc : Counted(At(p, pc)) /\ Counted([At(p, pc) EXCEPT !.att = 0])
      /\ \A text : Counted(End(p, text))
  BY CountedThere
<1> USE DEF bookVars
<1>1. CASE ClearStale(p) \/ Orphans(p) \/ MoveCancel(p)
  BY <1>0, <1>1, CancelKeeps, QuietIsTyped DEF ClearStale, Orphans, MoveCancel
<1>2. CASE ConfirmStop(p)
  <2>1. orders' \subseteq orders
    BY <1>2, CancelKeeps DEF ConfirmStop
  <2>2. Go(p, At(p, "tp")) \/ Go(p, [At(p, "close") EXCEPT !.att = 0])
    BY <1>2 DEF ConfirmStop, Read
  <2> QED BY <1>0, <1>2, <2>1, <2>2, QuietIsTyped DEF ConfirmStop
<1>3. CASE ExitCancel(p)
  <2>1. orders' \subseteq orders
    BY <1>3, CancelKeeps DEF ExitCancel
  <2> QED BY <1>0, <1>3, <2>1, QuietIsTyped DEF ExitCancel
<1> QED BY <1>1, <1>2, <1>3

LEMMA ReadsTyped ==
    ASSUME ExecInv, NEW p \in Listeners,
           \/ EntryGuards(p) \/ Margin(p) \/ MarketQuery(p) \/ MarketPosition(p) \/ Filled(p)
           \/ WouldTrigger(p) \/ FindStop(p) \/ CloseQuery(p) \/ CloseCheck(p) \/ Link(p)
           \/ MoveRead(p) \/ MoveOrders(p) \/ MoveFind(p)
           \/ ExitRead(p) \/ ExitQuery(p) \/ ExitPosition(p)
    PROVE  Typed(p)
<1>0. /\ \A pc : Counted(At(p, pc)) /\ \A n : Counted([At(p, pc) EXCEPT !.att = n])
      /\ \A pc, x : Counted([At(p, pc) EXCEPT !.olds = x])
      /\ \A pc : \A q \in Nat : Counted([At(p, pc) EXCEPT !.got = q])
      /\ \A pc : \A q \in Nat : Counted([At(p, pc) EXCEPT !.fill = q])
      /\ \A text : Counted(End(p, text))
      /\ Counted(NextStop(p)) /\ l[p].got \in Nat /\ pos.qty \in Nat
  BY CountedThere
<1> USE DEF bookVars, account, Read
<1>1. CASE EntryGuards(p) \/ Margin(p)
  BY <1>0, <1>1, QuietIsTyped DEF EntryGuards, Margin
<1>2. CASE MarketQuery(p)
  <2>1. done[The(p)].mkt \in Nat
    BY <1>2, RowTyped DEF MarketQuery, ExecInv, AccountTyped
  <2> QED BY <1>0, <1>2, <2>1, QuietIsTyped DEF MarketQuery
<1>3. CASE MarketPosition(p)
  BY <1>0, <1>3, QuietIsTyped DEF MarketPosition
<1>4. CASE Filled(p)
  BY <1>0, <1>4, QuietIsTyped DEF Filled
<1>5. CASE WouldTrigger(p) \/ CloseQuery(p) \/ Link(p)
  BY <1>0, <1>5, QuietIsTyped DEF WouldTrigger, CloseQuery, Link
<1>6. CASE FindStop(p)
  BY <1>0, <1>6, QuietIsTyped DEF FindStop
<1>7. CASE CloseCheck(p)
  <2>1. \E s : Go(p, s) /\ Counted(s)
    <3> DEFINE again == [At(p, "cbefore") EXCEPT !.att = @ + 1]
    <3>1. Counted(again)
      BY <1>0
    <3>2. Go(p, again) \/ Go(p, At(p, "close")) \/ Go(p, At(p, "orphans"))
          \/ Go(p, End(p, "naked"))
      BY <1>7 DEF CloseCheck
    <3> HIDE DEF again
    <3> QED BY <1>0, <3>1, <3>2
  <2> QED BY <1>7, <2>1, QuietIsTyped DEF CloseCheck
<1>8. CASE MoveRead(p) \/ MoveFind(p)
  BY <1>0, <1>8, QuietIsTyped DEF MoveRead, MoveFind
<1>9. CASE MoveOrders(p)
  BY <1>0, <1>9, QuietIsTyped DEF MoveOrders
<1>10. CASE ExitRead(p) \/ ExitQuery(p) \/ ExitPosition(p)
  BY <1>0, <1>10, QuietIsTyped DEF ExitRead, ExitQuery, ExitPosition
<1> QED BY <1>1, <1>2, <1>3, <1>4, <1>5, <1>6, <1>7, <1>8, <1>9, <1>10

LEMMA OfferTyped ==
    ASSUME ExecInv, NEW i \in Intents, NEW kind, NEW at, at.qty \in Nat, at.gen \in Nat,
           Offer(i, kind, at)
    PROVE  AccountTyped' /\ RowsTyped' /\ l' = l
<1>1. PICK level \in IF kind = "move" THEN Levels ELSE {0} :
          intent' = [intent EXCEPT ![i] =
              [kind |-> kind, status |-> "preview", aged |-> FALSE, level |-> level,
               qty |-> IF kind = "entry" THEN Size ELSE at.qty, gen |-> at.gen]]
  BY DEF Offer
<1>2. level \in Nat /\ kind \in {"entry", "move", "exit"} /\ Size \in Nat
  BY SizeAssumption, KindAssumption DEF Offer
<1>3. RowsTyped'
  BY <1>1, <1>2 DEF ExecInv, RowsTyped, Rows
<1> QED BY <1>3 DEF Offer, ExecInv, AccountTyped, account

LEMMA OutsideTyped ==
    ASSUME ExecInv, Outside \/ \E i \in Intents, kind \in Kinds : Offer(i, kind, pos)
    PROVE  AccountTyped' /\ RowsTyped' /\ l' = l
<1> USE DEF bookVars, account
<1>1. ASSUME NEW i \in Intents, Age(i) PROVE AccountTyped' /\ RowsTyped' /\ l' = l
  <2>1. RowsTyped /\ AccountTyped BY DEF ExecInv
  <2>2. AccountTyped' /\ l' = l BY <1>1, <2>1 DEF Age, AccountTyped
  <2>3. RowsTyped' BY <1>1, <2>1 DEF Age, RowsTyped, Rows
  <2> QED BY <2>2, <2>3
<1>2. ASSUME NEW i \in Intents, NEW say, Press(i, say)
      PROVE  AccountTyped' /\ RowsTyped' /\ l' = l
  BY <1>2 DEF Press, ExecInv, AccountTyped, RowsTyped
<1>3. ASSUME NEW o \in orders, Trigger(o) PROVE AccountTyped' /\ RowsTyped' /\ l' = l
  <2>1. pos \in [qty : Nat, gen : Nat] /\ o.qty \in Nat /\ pos.qty \in Nat
    BY DEF ExecInv, AccountTyped, Requests
  <2>2. pos.qty - Least(pos.qty, o.qty) \in Nat
    <3>1. Least(pos.qty, o.qty) \in Nat /\ Least(pos.qty, o.qty) <= pos.qty
      BY <2>1, LeastNat
    <3> QED BY <2>1, <3>1
  <2>3. pos' \in [qty : Nat, gen : Nat]
    BY <1>3, <2>1, <2>2 DEF Trigger
  <2>4. orders' \subseteq orders /\ IsFiniteSet(orders')
    BY <1>3, FS_Subset DEF Trigger, ExecInv, AccountTyped
  <2> QED BY <1>3, <2>3, <2>4 DEF Trigger, ExecInv, AccountTyped, RowsTyped
<1>4. ASSUME NEW r \in late, Land(r) PROVE AccountTyped' /\ RowsTyped' /\ l' = l
  <2>1. r \in Requests /\ late' \subseteq late /\ l' = l /\ intent' = intent /\ AccountTyped
    BY <1>4 DEF Land, ExecInv, AccountTyped
  <2>2. CASE Nothing
    BY <2>1, <2>2 DEF Nothing, AccountTyped, ExecInv, RowsTyped
  <2>3. CASE \E q \in Fills(r) : Execute(r, q)
    BY <2>1, <2>3, ExecuteTyped DEF AccountTyped, ExecInv, RowsTyped
  <2> QED BY <1>4, <2>2, <2>3 DEF Land
<1>5. CASE ByHand
  <2>1. pos \in [qty : Nat, gen : Nat]
    BY DEF ExecInv, AccountTyped
  <2>2. pos' \in [qty : Nat, gen : Nat]
    BY <1>5, <2>1 DEF ByHand
  <2>3. Request(Owner, "own", pos.qty, 0) \in Requests
    BY <2>1 DEF Request, Requests, RestSteps, StopSteps
  <2>4. orders' \subseteq Requests /\ IsFiniteSet(orders')
    BY <1>5, <2>3, FS_AddElement DEF ByHand, ExecInv, AccountTyped
  <2> QED BY <1>5, <2>2, <2>4 DEF ByHand, ExecInv, AccountTyped, RowsTyped
<1>6. ASSUME NEW i \in Intents, NEW kind \in Kinds, Offer(i, kind, pos)
      PROVE  AccountTyped' /\ RowsTyped' /\ l' = l
  <2>1. pos.qty \in Nat /\ pos.gen \in Nat BY DEF ExecInv, AccountTyped
  <2> QED BY <1>6, <2>1, OfferTyped
<1> QED BY <1>1, <1>2, <1>3, <1>4, <1>5, <1>6 DEF Outside

LEMMA ExecInvInit == Init => ExecInv
<1> SUFFICES ASSUME Init PROVE ExecInv
  OBVIOUS
<1>1. RowsTyped
  BY DEF Init, RowsTyped, Rows, NoIntent
<1>2. AccountTyped
  BY FS_EmptySet DEF Init, AccountTyped, Flat
<1>3. \A p \in Listeners : Counted(l[p])
  BY DEF Init, Counted, Resting
<1> QED BY <1>1, <1>2, <1>3, ClaimInvInit DEF ExecInv

LEMMA ExecInvStep == ExecInv /\ [Next]_vars => ExecInv'
<1> SUFFICES ASSUME ExecInv, [Next]_vars PROVE ExecInv'
  OBVIOUS
<1>0. ClaimInv'
  BY ClaimInvStep DEF ExecInv
<1>1. ASSUME NEW p \in Listeners, Work(p) \/ Crash(p) PROVE ExecInv'
  <2>1. Typed(p)
    BY <1>1, ListenTyped, PostsTyped, CancelsTyped, ReadsTyped DEF Work, Entry, Move, Exit
  <2>2. PICK s : l' = [l EXCEPT ![p] = s] /\ Counted(s)
    BY <2>1 DEF Typed
  <2>3. \A q \in Listeners : l'[q] = IF q = p THEN s ELSE l[q]
    BY <2>2 DEF ExecInv, ClaimInv, ListenerShape
  <2>4. \A q \in Listeners : Counted(l'[q])
    BY <2>2, <2>3 DEF ExecInv
  <2>5. AccountTyped' /\ RowsTyped'
    BY <2>1 DEF Typed
  <2> QED BY <1>0, <2>4, <2>5 DEF ExecInv, Counted
<1>2. CASE Outside \/ \E i \in Intents, kind \in Kinds : Offer(i, kind, pos)
  BY <1>0, <1>2, OutsideTyped DEF ExecInv, Counted
<1>3. CASE UNCHANGED vars
  BY <1>0, <1>3 DEF vars, bookVars, account, ExecInv, RowsTyped, AccountTyped, Counted
<1> QED BY <1>1, <1>2, <1>3 DEF Next

THEOREM ExecInvariant == Spec => []ExecInv
BY ExecInvInit, ExecInvStep, PTL DEF Spec

\* Whatever is bought, closed, cancelled, lost and carried out late by however many
\* listeners, the account never holds less than nothing and no count is negative
\* (reduce-only orders, execute.py and futures.py).
THEOREM ExecTypeCorrect == Spec => []TypeOK
<1>1. ExecInv => TypeOK
  <2> SUFFICES ASSUME ExecInv PROVE TypeOK
    OBVIOUS
  <2>1. /\ sends \in [Intents -> Nat] /\ won \subseteq Intents /\ offset \in Nat
        /\ inbox \in Seq([say : {"yes", "no"}, i : Intents])
    BY DEF ExecInv, ClaimInv, BookShape
  <2>2. pos.qty \in Nat /\ pos.gen \in Nat
        /\ \A o \in orders \cup late : o.by \in Intents \cup {Owner} /\ o.qty \in Nat
    BY DEF ExecInv, AccountTyped, Requests
  <2> QED BY <2>1, <2>2 DEF TypeOK, ExecInv, RowsTyped, Rows
<1> QED BY <1>1, ExecInvariant, PTL
-----------------------------------------------------------------------------
(***************************************************************************)
(* One listener, which is what the code starts, and MARKET orders that are *)
(* filled in full: a position that lost its stops is told, and stops are   *)
(* not taken from a position that has them.                                *)
(*                                                                         *)
(* As long as the owner does not trade by hand and no entry that was given *)
(* up is carried out after all, everything has one size: the position is   *)
(* of Size or none, and every order would close it all.  So one stop       *)
(* covers, and what fires leaves nothing.                                  *)
(***************************************************************************)
Calm == manual = 0 /\ strays = {}

Gone    == {"clear", "margin", "market", "orphans", "xcancel"}
Asking  == {"mquery", "mposition"}
Filling == {"stop", "find", "again", "confirm", "close", "cquery", "cafter", "cbefore"}
Moving  == {"mplace", "mfind", "mcancel"}
Sized   == Filling \cup {"tp", "morders", "mplace", "mfind", "xmarket", "xquery", "xposition"}
Bought  == Filling \cup Asking \cup {"filled", "tp"}

OneSize ==
    /\ pos.qty \in {0, Size}
    /\ \A o \in orders : o.step \in RestSteps
    /\ \A o \in orders \cup late :
           o.qty = Size /\ (o.step \in {"mkt", "sl0", "sl1"} => o.level = 0)
    /\ \A i \in Intents : intent[i].status # "none" => intent[i].qty = Size
    /\ \A i \in Intents : done[i].mkt \in {0, Size}

\* Before its order is sent, an intent has left nothing behind.
NothingOf(i) ==
    /\ done[i].mkt = 0 /\ done[i].cls = 0 /\ done[i].ex = 0
    /\ \A o \in orders \cup late : o.by # i
UnsentIsClean == \A i \in Intents : sends[i] = 0 => NothingOf(i)

\* What a listener at state s with intent i may rely on.
Fits(s, i) ==
    /\ s.pc \in Gone => pos.qty = 0
    /\ s.pc \in Asking => /\ pos.qty <= done[i].mkt /\ done[i].cls = 0 /\ done[i].ex = 0
                          /\ \A r \in late : r.by = i => r.step = "mkt"
    /\ s.pc = "filled" => s.got = Size
    /\ s.pc \in Sized => s.fill = Size
    /\ s.pc \in Bought => sends[i] # 0
    /\ s.pc \notin Unclaimed /\ (done[i].cls > 0 \/ done[i].ex > 0) => pos.qty = 0
    /\ s.pc \in Moving => \A o \in s.olds : o.by # i
    /\ s.pc = "mcancel" => pos.qty = 0 \/ Rests(orders, i, "ms")

\* An entry that may still come is one whose listener asks for it, or has given it up:
\* it was told so, is about to be, or its listener died.
Held(i) == \E p \in Listeners : Past(p) /\ The(p) = i
Unsure(s) == s.pc \in Asking \/ (s.pc = "finish" /\ s.text \in {"failed", "check"})
GivenUp(i) ==
    \/ told[i] \in {"failed", "check"}
    \/ intent[i].status = "confirmed" /\ ~Held(i)
LateEntries ==
    \A r \in late : r.step = "mkt" =>
        /\ done[r.by].mkt = 0
        /\ GivenUp(r.by) \/ \E p \in Listeners : The(p) = r.by /\ Unsure(l[p])

CalmFacts ==
    /\ OneSize /\ UnsentIsClean /\ LateEntries
    /\ \A p \in Listeners : Fits(l[p], The(p))
CalmInv == Calm => CalmFacts

StatusInv ==
    /\ manual \in Nat
    /\ \A i \in Intents : intent[i].status # "none" => intent[i].qty > 0
    /\ \A r \in late : r.by \in Intents /\ (r.step = "mkt" => r.qty > 0)
    /\ DOMAIN told = Intents /\ told = [i \in Intents |-> told[i]]
    /\ \A p \in Listeners : Past(p) => intent[The(p)].status = "confirmed"
    /\ \A p \in Listeners : l[p].pc = "expire" => intent[The(p)].status \in {"preview", "expired"}
    /\ \A i \in Intents : told[i] \in {"naked", "check", "failed"} =>
                              intent[i].status \in {"done", "failed"}

\* A position without stops was reported, will be, or the listener still works on it.
Reported ==
    \E i \in Intents :
       \/ told[i] \in {"naked", "check"}
       \/ told[i] = "failed" /\ done[i].mkt > 0
       \/ intent[i].status = "confirmed" /\ ~Held(i)
Reports(s, i) ==
    s.pc = "finish" /\ (s.text \in {"naked", "check"} \/ (s.text = "failed" /\ done[i].mkt > 0))
Safe == pos.qty = 0 \/ Stops(orders) # {}
Guarded(s) == Safe \/ s.pc \in Filling \cup Asking \cup {"filled"}
ReportInv ==
    manual = 0 => \/ Reported
                  \/ \E p \in Listeners : Reports(l[p], The(p))
                  \/ strays = {} /\ \A p \in Listeners : Guarded(l[p])

SoloInv == ExecInv /\ StatusInv /\ CalmInv /\ ReportInv
-----------------------------------------------------------------------------
(***************************************************************************)
(* Where a step leaves the one listener.                                   *)
(***************************************************************************)
LEMMA GoesTo ==
    ASSUME ExecInv, NEW p \in Listeners, NEW s, l' = [l EXCEPT ![p] = s]
    PROVE  l'[p] = s
BY DEF ExecInv, ClaimInv, ListenerShape

LEMMA SameTap ==
    ASSUME ExecInv, NEW p \in Listeners, NEW s, l' = [l EXCEPT ![p] = s], Same(p, s), inbox' = inbox
    PROVE  The(p)' = The(p)
BY GoesTo DEF Same, The, Tap

LEMMA BusyTap ==
    ASSUME ExecInv, NEW p \in Listeners, l[p].pc # "idle"
    PROVE  The(p) \in Intents /\ (Past(p) => The(p) \in won)
BY TapTyped DEF ExecInv, ClaimInv, ListenerShape, PastHasWon

\* What the code carries along from one state to the next.
Like(p, s) == Same(p, s) /\ s.got = l[p].got /\ s.fill = l[p].fill /\ s.olds = l[p].olds

LEMMA Places ==
    ASSUME ExecInv, NEW p \in Listeners
    PROVE  /\ \A pc : Like(p, At(p, pc)) /\ At(p, pc).pc = pc
           /\ \A text : Same(p, End(p, text)) /\ End(p, text).pc = "finish" /\ End(p, text).text = text
           /\ \A pc, q : Same(p, [At(p, pc) EXCEPT !.got = q]) /\ [At(p, pc) EXCEPT !.got = q].pc = pc
                         /\ [At(p, pc) EXCEPT !.got = q].got = q
                         /\ [At(p, pc) EXCEPT !.got = q].fill = l[p].fill
                         /\ [At(p, pc) EXCEPT !.got = q].olds = l[p].olds
           /\ \A pc, q : Same(p, [At(p, pc) EXCEPT !.fill = q]) /\ [At(p, pc) EXCEPT !.fill = q].pc = pc
                         /\ [At(p, pc) EXCEPT !.fill = q].fill = q
           /\ \A pc, n : Like(p, [At(p, pc) EXCEPT !.att = n]) /\ [At(p, pc) EXCEPT !.att = n].pc = pc
           /\ \A pc, x : Same(p, [At(p, pc) EXCEPT !.olds = x]) /\ [At(p, pc) EXCEPT !.olds = x].pc = pc
                         /\ [At(p, pc) EXCEPT !.olds = x].fill = l[p].fill
                         /\ [At(p, pc) EXCEPT !.olds = x].olds = x
           /\ Like(p, NextStop(p)) /\ NextStop(p).pc \in {"stop", "confirm"}
<1>1. DOMAIN l[p] = Fields
  BY DEF ExecInv, ClaimInv, ListenerShape
<1> QED BY <1>1 DEF Like, Same, At, End, NextStop, Fields

LEMMA AllFields ==
    ASSUME ExecInv, NEW p \in Listeners
    PROVE  DOMAIN l[p] = Fields
BY DEF ExecInv, ClaimInv, ListenerShape

\* What no step of a listener touches.
LEMMA WorkAlone ==
    ASSUME NEW p, Work(p) \/ Crash(p)
    PROVE  UNCHANGED <<strays, manual, inbox>>
<1> USE DEF account, limits, bookVars, inboxVars
<1>1. CASE Listen(p) \/ Crash(p)
  BY <1>1 DEF Listen, Crash, Fetch, Store, Swallow, Decline, Replay, Confirm, Expire, Claim,
              Keys, Finish
<1>2. CASE Entry(p)
  <2>1. CASE \/ EntryGuards(p) \/ ClearStale(p) \/ Margin(p) \/ Market(p) \/ MarketQuery(p)
             \/ MarketPosition(p) \/ Filled(p) \/ PlaceStop(p)
    BY <2>1 DEF EntryGuards, ClearStale, Margin, Market, MarketQuery, MarketPosition, Filled,
                PlaceStop
  <2>2. CASE \/ WouldTrigger(p) \/ FindStop(p) \/ ConfirmStop(p) \/ CloseSend(p)
             \/ CloseQuery(p) \/ CloseCheck(p) \/ Orphans(p) \/ PlaceTP(p) \/ Link(p)
    BY <2>2 DEF WouldTrigger, FindStop, ConfirmStop, CloseSend, CloseQuery, CloseCheck, Orphans,
                PlaceTP, Link
  <2> QED BY <1>2, <2>1, <2>2 DEF Entry
<1>3. CASE Move(p)
  BY <1>3 DEF Move, MoveRead, MoveOrders, MovePlace, MoveFind, MoveCancel
<1>4. CASE Exit(p)
  BY <1>4 DEF Exit, ExitRead, ExitMarket, ExitQuery, ExitPosition, ExitCancel
<1> QED BY <1>1, <1>2, <1>3, <1>4 DEF Work

\* Neither the hand of the owner nor a stray entry is ever taken back.
LEMMA CalmBefore ==
    ASSUME StatusInv, [Next]_vars
    PROVE  (Calm' => Calm) /\ (manual' = 0 => manual = 0) /\ manual' \in Nat
<1> USE DEF Calm
<1>0. manual \in Nat
  BY DEF StatusInv
<1>1. ASSUME NEW p \in Listeners, Work(p) \/ Crash(p) PROVE UNCHANGED <<strays, manual>>
  BY <1>1, WorkAlone
<1>2. CASE Outside
  <2>1. ASSUME NEW i \in Intents, NEW say, Age(i) \/ Press(i, say) PROVE UNCHANGED <<strays, manual>>
    BY <2>1 DEF Age, Press, account, limits
  <2>2. ASSUME NEW o, Trigger(o) PROVE UNCHANGED <<strays, manual>>
    BY <2>2 DEF Trigger, limits
  <2>3. ASSUME NEW r, Land(r) PROVE strays \subseteq strays' /\ manual' = manual
    BY <2>3 DEF Land, limits
  <2>4. CASE ByHand
    BY <1>0, <2>4 DEF ByHand
  <2> QED BY <1>0, <1>2, <2>1, <2>2, <2>3, <2>4 DEF Outside
<1>3. ASSUME NEW i \in Intents, NEW kind \in Kinds, Offer(i, kind, pos)
      PROVE  UNCHANGED <<strays, manual>>
  BY <1>3 DEF Offer, account, limits
<1>4. CASE UNCHANGED vars
  BY <1>0, <1>4 DEF vars, account, limits
<1> QED BY <1>0, <1>1, <1>2, <1>3, <1>4 DEF Next
-----------------------------------------------------------------------------
(***************************************************************************)
(* Statuses and what was told.                                             *)
(***************************************************************************)
LEMMA LateGrows ==
    ASSUME NEW p, NEW r, NEW a, NEW b, NEW c, Post(p, r, a, b, c)
    PROVE  late' \subseteq late \cup {r}
BY DEF Post

\* Only MARKET orders of intents in hand become late entries.
LEMMA LatePositive ==
    ASSUME ExecInv, StatusInv, NEW p \in Listeners, Work(p) \/ Crash(p)
    PROVE  \A r \in late' : r.by \in Intents /\ (r.step = "mkt" => r.qty > 0)
<1>0. \A r \in late : r.by \in Intents /\ (r.step = "mkt" => r.qty > 0)
  BY DEF StatusInv
<1> USE DEF account
<1>1. CASE Listen(p) \/ Crash(p)
  <2>1. late' = late
    BY <1>1 DEF Listen, Crash, Fetch, Store, Swallow, Decline, Replay, Confirm, Expire, Claim,
                Keys, Finish
  <2> QED BY <1>0, <2>1
<1>2. CASE Market(p)
  <2>1. Past(p) /\ l[p].pc # "idle"
    BY <1>2 DEF Market, Past, Unclaimed
  <2>2. The(p) \in Intents /\ intent[The(p)].status = "confirmed"
    BY <2>1, BusyTap DEF StatusInv
  <2>3. intent[The(p)].qty > 0
    BY <2>2 DEF StatusInv
  <2>4. late' \subseteq late \cup {Request(The(p), "mkt", intent[The(p)].qty, 0)}
    BY <1>2, LateGrows DEF Market
  <2> QED BY <1>0, <2>2, <2>3, <2>4 DEF Request
<1>3. CASE PlaceStop(p) \/ CloseSend(p) \/ PlaceTP(p) \/ MovePlace(p) \/ ExitMarket(p)
  <2>1. PICK step, qty, level :
            /\ step \in RestSteps \cup {"cls", "ex"}
            /\ late' \subseteq late \cup {Request(The(p), step, qty, level)}
    <3>1. StopStep(p) \in RestSteps /\ "tp" \in RestSteps /\ "ms" \in RestSteps
      BY DEF StopStep, RestSteps, StopSteps
    <3> QED BY <1>3, <3>1, LateGrows DEF PlaceStop, CloseSend, PlaceTP, MovePlace, ExitMarket
  <2>2. step # "mkt"
    BY <2>1 DEF RestSteps, StopSteps
  <2>3. The(p) \in Intents
    <3>1. l[p].pc # "idle"
      BY <1>3 DEF PlaceStop, CloseSend, PlaceTP, MovePlace, ExitMarket
    <3> QED BY <3>1, BusyTap
  <2> QED BY <1>0, <2>1, <2>2, <2>3 DEF Request
<1>4. CASE Entry(p) /\ ~Market(p) /\ ~PlaceStop(p) /\ ~CloseSend(p) /\ ~PlaceTP(p)
  <2>1. late' = late
    BY <1>4 DEF Entry, EntryGuards, ClearStale, Margin, MarketQuery, MarketPosition, Filled,
                WouldTrigger, FindStop, ConfirmStop, CloseQuery, CloseCheck, Orphans, Link
  <2> QED BY <1>0, <2>1
<1>5. CASE (Move(p) /\ ~MovePlace(p)) \/ (Exit(p) /\ ~ExitMarket(p))
  <2>1. late' = late
    BY <1>5 DEF Move, MoveRead, MoveOrders, MoveFind, MoveCancel, Exit, ExitRead, ExitQuery,
                ExitPosition, ExitCancel
  <2> QED BY <1>0, <2>1
<1> QED BY <1>1, <1>2, <1>3, <1>4, <1>5 DEF Work

ToldShape == DOMAIN told = Intents /\ told = [i \in Intents |-> told[i]]

LEMMA StatusWork ==
    ASSUME NEW p, Listeners = {p}, ExecInv, StatusInv, Work(p) \/ Crash(p)
    PROVE  StatusInv'
<1> DEFINE i == The(p)
<1>0. /\ inbox' = inbox /\ manual' = manual /\ manual \in Nat /\ ToldShape
      /\ \A r \in late' : r.by \in Intents /\ (r.step = "mkt" => r.qty > 0)
      /\ DOMAIN intent = Intents /\ \A j \in Intents : DOMAIN intent[j] = Columns
  BY WorkAlone, LatePositive DEF StatusInv, ToldShape, ExecInv, ClaimInv, BookShape
<1>1. CASE Entry(p) \/ Move(p) \/ Exit(p) \/ Keys(p)
  <2>1. Onward(p) \/ Sending(p)
    BY <1>1, EntryOnward, MoveOnward, ExitOnward, KeysIsOnward, PostsAreSends DEF ExecInv
  <2>2. PICK s : l' = [l EXCEPT ![p] = s] /\ Same(p, s) /\ s.pc \notin Unclaimed
    BY <2>1 DEF Onward, Sending
  <2>3. UNCHANGED <<intent, told>> /\ Past(p)
    BY <2>1 DEF Onward, Sending, bookVars, Past, Unsent, Unclaimed
  <2>4. l'[p] = s /\ The(p)' = The(p)
    BY <1>0, <2>2, GoesTo, SameTap
  <2> QED BY <1>0, <2>2, <2>3, <2>4 DEF StatusInv, Past, Unclaimed, ToldShape
<1>2. CASE Fetch(p) \/ Store(p) \/ Swallow(p) \/ Replay(p) \/ Crash(p)
           \/ (Claim(p) /\ ~CanClaim(i))
  <2>1. UNCHANGED <<intent, told>>
    BY <1>2 DEF Fetch, Store, Swallow, Replay, Crash, Claim, bookVars
  <2>2. PICK s : l' = [l EXCEPT ![p] = s] /\ s.pc = "idle"
    <3>1. CASE Fetch(p)
      <4> DEFINE s == [l[p] EXCEPT !.next = offset + 1, !.top = Len(inbox)]
      <4>1. s.pc = "idle" /\ l' = [l EXCEPT ![p] = s]
        BY <3>1 DEF Fetch, Go, ExecInv, ClaimInv, ListenerShape, Fields
      <4> QED BY <4>1
    <3>2. CASE Store(p) \/ Crash(p)
      BY <3>2, RestShape DEF Store, Crash, Go
    <3>3. CASE Swallow(p) \/ Replay(p) \/ (Claim(p) /\ ~CanClaim(i))
      BY <3>3, HandledShape DEF Swallow, Replay, Claim, Go
    <3> QED BY <1>2, <3>1, <3>2, <3>3
  <2>3. l'[p] = s
    BY <2>2, GoesTo
  <2> QED BY <1>0, <2>1, <2>2, <2>3 DEF StatusInv, Past, Unclaimed, ToldShape
<1>3. CASE Decline(p) \/ Expire(p) \/ Finish(p)
  <2>1. l' = [l EXCEPT ![p] = Handled(p)] /\ Handled(p).pc = "idle"
    BY <1>3, HandledShape DEF Decline, Expire, Finish, Go
  <2>2. l'[p].pc = "idle"
    BY <2>1, GoesTo
  <2>3. CASE intent' = intent /\ told' = told
    BY <1>0, <2>2, <2>3 DEF StatusInv, Past, Unclaimed, ToldShape
  <2>4. ASSUME Decline(p), intent' # intent PROVE StatusInv'
    <3>1. /\ intent[i].status = "preview" /\ told' = told
          /\ intent' = [intent EXCEPT ![i].status = "cancelled"]
      BY <2>4 DEF Decline
    <3>2. \A j \in Intents : intent'[j] = IF j = i THEN [intent[i] EXCEPT !.status = "cancelled"]
                                                   ELSE intent[j]
      BY <1>0, <3>1
    <3>3. \A j \in Intents : intent'[j].qty = intent[j].qty
                             /\ intent'[j].status = IF j = i THEN "cancelled" ELSE intent[j].status
      BY <1>0, <3>2 DEF Columns
    <3> QED BY <1>0, <2>2, <3>1, <3>3 DEF StatusInv, Past, Unclaimed, ToldShape
  <2>5. ASSUME Expire(p) \/ Finish(p) PROVE StatusInv'
    <3>1. PICK status, text :
              /\ intent' = [intent EXCEPT ![i].status = status]
              /\ told' = [told EXCEPT ![i] = text]
              /\ status # "none" /\ intent[i].status # "none"
              /\ text \in {"naked", "check", "failed"} => status \in {"done", "failed"}
      <4>1. CASE Expire(p)
        BY <4>1 DEF Expire, StatusInv
      <4>2. CASE Finish(p)
        <5>1. Past(p)
          BY <4>2 DEF Finish, Past, Unclaimed
        <5> QED BY <4>2, <5>1 DEF Finish, StatusInv
      <4> QED BY <2>5, <4>1, <4>2
    <3>2. \A j \in Intents : intent'[j] = IF j = i THEN [intent[i] EXCEPT !.status = status]
                                                   ELSE intent[j]
      BY <1>0, <3>1
    <3>3. \A j \in Intents : intent'[j].qty = intent[j].qty
                             /\ intent'[j].status = IF j = i THEN status ELSE intent[j].status
      BY <1>0, <3>2 DEF Columns
    <3>4. /\ DOMAIN told' = Intents /\ told' = [j \in Intents |-> told'[j]]
          /\ \A j \in Intents : told'[j] = IF j = i THEN text ELSE told[j]
      BY <1>0, <3>1 DEF ToldShape
    <3> QED BY <1>0, <2>2, <3>1, <3>3, <3>4 DEF StatusInv, Past, Unclaimed
  <2> QED BY <1>3, <2>3, <2>4, <2>5 DEF Decline
<1>4. CASE Confirm(p)
  <2>1. PICK pc \in {"expire", "claim"} :
            /\ l' = [l EXCEPT ![p] = At(p, pc)] /\ intent[i].status \in {"preview", "expired"}
            /\ UNCHANGED <<intent, told>>
    BY <1>4 DEF Confirm, Go, bookVars
  <2>2. Same(p, At(p, pc)) /\ At(p, pc).pc = pc
    BY Places DEF Like
  <2>3. l'[p].pc = pc /\ The(p)' = The(p)
    BY <1>0, <2>1, <2>2, GoesTo, SameTap
  <2> QED BY <1>0, <2>1, <2>3 DEF StatusInv, Past, Unclaimed, ToldShape
<1>5. CASE Claim(p) /\ CanClaim(i)
  <2>1. /\ l' = [l EXCEPT ![p] = At(p, "keys")] /\ intent[i].status = "preview" /\ told' = told
        /\ intent' = [intent EXCEPT ![i].status = "confirmed", ![i].aged = FALSE] /\ l[p].pc = "claim"
    BY <1>5 DEF Claim, CanClaim, Go
  <2>5. Same(p, At(p, "keys")) /\ At(p, "keys").pc = "keys"
    BY Places DEF Like
  <2>2. l'[p].pc = "keys" /\ The(p)' = i /\ i \in Intents
    BY <1>0, <2>1, <2>5, GoesTo, SameTap, BusyTap
  <2>3. \A j \in Intents : intent'[j] = IF j = i THEN [intent[i] EXCEPT !.status = "confirmed", !.aged = FALSE]
                                                 ELSE intent[j]
    BY <1>0, <2>1
  <2>4. \A j \in Intents : intent'[j].qty = intent[j].qty
                           /\ intent'[j].status = IF j = i THEN "confirmed" ELSE intent[j].status
    BY <1>0, <2>3 DEF Columns
  <2> QED BY <1>0, <2>1, <2>2, <2>4 DEF StatusInv, Past, Unclaimed, ToldShape
<1> QED BY <1>1, <1>2, <1>3, <1>4, <1>5 DEF Work, Listen

\* What happens around the listeners leaves them and the taps they handle alone.
LEMMA TapStays ==
    ASSUME ExecInv, Outside \/ \E i \in Intents, kind \in Kinds : Offer(i, kind, pos)
    PROVE  l' = l /\ \A q \in Listeners : l[q].pc # "idle" => The(q)' = The(q)
<1>0. l' = l
  BY OutsideTyped
<1>1. \A q \in Listeners : l[q].pc # "idle" => The(q)' = The(q)
  <2>1. Aside
    BY OutsideSteps DEF ExecInv
  <2>2. CASE inbox' = inbox
    BY <1>0, <2>2 DEF The, Tap
  <2>3. ASSUME NEW tap \in [say : {"yes", "no"}, i : Intents], inbox' = Append(inbox, tap)
        PROVE  \A q \in Listeners : l[q].pc # "idle" => The(q)' = The(q)
    <3>1. inbox \in Seq([say : {"yes", "no"}, i : Intents])
      BY DEF ExecInv, ClaimInv, BookShape
    <3>2. Len(inbox) \in Nat /\ \A k \in 1..Len(inbox) : inbox'[k] = inbox[k]
      BY <2>3, <3>1, AppendProperties, LenProperties
    <3>3. \A q \in Listeners : l[q].pc # "idle" => l[q].next \in 1..Len(inbox)
      BY <3>2 DEF ExecInv, ClaimInv, ListenerShape
    <3> QED BY <1>0, <3>2, <3>3 DEF The, Tap
  <2> QED BY <2>1, <2>2, <2>3 DEF Aside
<1> QED BY <1>0, <1>1

LEMMA StatusOutside ==
    ASSUME ExecInv, StatusInv, Outside \/ \E i \in Intents, kind \in Kinds : Offer(i, kind, pos)
    PROVE  StatusInv'
<1>0. ToldShape /\ manual' \in Nat /\ l' = l
  BY CalmBefore, OutsideTyped DEF StatusInv, ToldShape, Next
<1>1. \A q \in Listeners : l[q].pc # "idle" => The(q)' = The(q)
  BY TapStays
<1>2. \A r \in late' : r.by \in Intents /\ (r.step = "mkt" => r.qty > 0)
  <2>1. late' \subseteq late
    BY DEF Outside, Age, Press, Trigger, Land, ByHand, Offer, account
  <2> QED BY <2>1 DEF StatusInv
<1>3. told' = told
  BY DEF Outside, Age, Press, Trigger, Land, ByHand, Offer, bookVars
<1>4. CASE intent' = intent
  BY <1>0, <1>1, <1>2, <1>3, <1>4 DEF StatusInv, Past, Unclaimed, ToldShape
<1>5. ASSUME NEW i \in Intents, NEW r, r.status = "preview", r.qty > 0, intent' = [intent EXCEPT ![i] = r],
             intent[i].status \in {"none", "preview"}
      PROVE  StatusInv'
  <2>1. \A j \in Intents : intent'[j] = IF j = i THEN r ELSE intent[j]
    BY <1>5 DEF ExecInv, ClaimInv, BookShape
  <2> QED BY <1>0, <1>1, <1>2, <1>3, <1>5, <2>1, BusyTap DEF StatusInv, Past, Unclaimed, ToldShape
<1>6. ASSUME NEW i \in Intents, Age(i) PROVE StatusInv'
  <2> DEFINE r == [intent[i] EXCEPT !.aged = TRUE]
  <2>1. r.status = "preview" /\ r.qty = intent[i].qty /\ intent[i].status = "preview"
        /\ intent' = [intent EXCEPT ![i] = r]
    BY <1>6 DEF Age, ExecInv, ClaimInv, BookShape, Columns
  <2>2. r.qty > 0
    BY <2>1 DEF StatusInv
  <2> HIDE DEF r
  <2> QED BY <1>5, <2>1, <2>2
<1>7. ASSUME NEW i \in Intents, NEW kind \in Kinds, Offer(i, kind, pos) PROVE StatusInv'
  <2>1. PICK level :
            intent' = [intent EXCEPT ![i] =
                [kind |-> kind, status |-> "preview", aged |-> FALSE, level |-> level,
                 qty |-> IF kind = "entry" THEN Size ELSE pos.qty, gen |-> pos.gen]]
    BY <1>7 DEF Offer
  <2> DEFINE r == [kind |-> kind, status |-> "preview", aged |-> FALSE, level |-> level,
                   qty |-> IF kind = "entry" THEN Size ELSE pos.qty, gen |-> pos.gen]
  <2>2. r.status = "preview" /\ r.qty > 0 /\ intent[i].status = "none"
    BY <1>7, SizeAssumption DEF Offer, NoIntent
  <2>3. intent' = [intent EXCEPT ![i] = r]
    BY <2>1
  <2> HIDE DEF r
  <2> QED BY <1>5, <2>2, <2>3
<1>8. CASE (\E i \in Intents, say \in {"yes", "no"} : Press(i, say)) \/ (\E o \in orders : Trigger(o))
           \/ (\E r \in late : Land(r)) \/ ByHand
  <2>1. intent' = intent
    BY <1>8 DEF Press, Trigger, Land, ByHand, bookVars
  <2> QED BY <1>4, <2>1
<1> QED BY <1>6, <1>7, <1>8 DEF Outside
-----------------------------------------------------------------------------
(***************************************************************************)
(* The calm: reads and cancels of the listener at work.                    *)
(***************************************************************************)
LEMMA FewerCalm ==
    ASSUME NEW p, Listeners = {p}, ExecInv, CalmFacts, NEW s,
           l' = [l EXCEPT ![p] = s], Same(p, s), Past(p), s.pc \notin Unclaimed,
           l[p].pc # "finish", orders' \subseteq orders,
           UNCHANGED <<pos, done, late, intent, told, sends, inbox>>,
           l[p].pc \in Asking => Unsure(s) \/ done[The(p)].mkt > 0,
           s.pc = "mcancel" => orders' = orders, Fits(s, The(p))
    PROVE  CalmFacts'
<1>1. l'[p] = s /\ The(p)' = The(p)
  BY GoesTo, SameTap
<1>2. OneSize' /\ UnsentIsClean'
  BY DEF CalmFacts, OneSize, UnsentIsClean, NothingOf
<1>3. \A i : Held(i)' <=> Held(i)
  BY <1>1 DEF Held, Past
<1>4. LateEntries'
  BY <1>1, <1>3 DEF CalmFacts, LateEntries, GivenUp, Unsure
<1>5. Fits(l[p], The(p))'
  BY <1>1 DEF Fits, Rests
<1> QED BY <1>1, <1>2, <1>4, <1>5 DEF CalmFacts

LEMMA CalmNumbers ==
    ASSUME ExecInv, CalmFacts
    PROVE  /\ Size \in Nat /\ Size > 0 /\ pos.qty \in {0, Size}
           /\ \A i \in Intents : done[i].mkt \in {0, Size} /\ done[i].cls \in Nat /\ done[i].ex \in Nat
BY SizeAssumption DEF ExecInv, AccountTyped, CalmFacts, OneSize

LEMMA EntryReadsCalm ==
    ASSUME NEW p, Listeners = {p}, ExecInv, CalmFacts,
           \/ EntryGuards(p) \/ Margin(p) \/ MarketQuery(p) \/ MarketPosition(p) \/ Filled(p)
           \/ WouldTrigger(p) \/ FindStop(p) \/ CloseQuery(p) \/ CloseCheck(p) \/ Link(p)
    PROVE  CalmFacts'
<1> DEFINE i == The(p)
<1>0. Size \in Nat /\ Size > 0 /\ pos.qty \in {0, Size} /\ Fits(l[p], i) /\ inbox' = inbox
  BY CalmNumbers, WorkAlone DEF CalmFacts, Work, Entry
<1>n. l[p].pc # "idle" => /\ done[i].mkt \in {0, Size} /\ done[i].cls \in Nat /\ done[i].ex \in Nat
  BY CalmNumbers, BusyTap
<1> USE DEF Gone, Asking, Filling, Moving, Sized, Bought, Unclaimed
<1>1. CASE EntryGuards(p)
  <2>1. PICK s : /\ l' = [l EXCEPT ![p] = s] /\ Same(p, s)
                 /\ s.pc = "finish" \/ (s.pc = "clear" /\ pos.qty = 0)
    BY <1>0, <1>1, Places DEF EntryGuards, Read, Go, Like
  <2>2. Fits(s, i)
    BY <1>0, <1>1, <2>1 DEF EntryGuards, Fits
  <2> QED BY <1>0, <1>1, <2>1, <2>2, FewerCalm DEF EntryGuards, bookVars, account, Past
<1>2. CASE Margin(p)
  <2>1. PICK s : l' = [l EXCEPT ![p] = s] /\ Same(p, s) /\ s.pc \in {"finish", "market"}
    BY <1>2, Places DEF Margin, Read, Go, Like
  <2>2. Fits(s, i)
    BY <1>0, <1>2, <2>1 DEF Margin, Fits
  <2> QED BY <1>0, <1>2, <2>1, <2>2, FewerCalm DEF Margin, bookVars, account, Past
<1>3. CASE MarketQuery(p)
  <2>1. PICK s : /\ l' = [l EXCEPT ![p] = s] /\ Same(p, s)
                 /\ \/ s.pc = "mposition"
                    \/ s.pc = "filled" /\ done[i].mkt > 0 /\ s.got = done[i].mkt
    <3> DEFINE s == [At(p, "filled") EXCEPT !.got = done[i].mkt]
    <3>1. Go(p, At(p, "mposition")) \/ (done[i].mkt > 0 /\ l' = [l EXCEPT ![p] = s])
      BY <1>3 DEF MarketQuery, Read, Go
    <3>2. Same(p, s) /\ s.pc = "filled" /\ s.got = done[i].mkt
      BY AllFields DEF Same, At, Fields
    <3> HIDE DEF s
    <3> QED BY <3>1, <3>2, Places DEF Go, Like
  <2>2. Fits(s, i)
    BY <1>0, <1>n, <1>3, <2>1 DEF MarketQuery, Fits
  <2> QED BY <1>0, <1>3, <2>1, <2>2, FewerCalm DEF MarketQuery, bookVars, account, Past, Unsure
<1>4. CASE MarketPosition(p)
  <2>1. PICK s : /\ l' = [l EXCEPT ![p] = s] /\ Same(p, s)
                 /\ \/ s.pc = "finish" /\ s.text \in {"failed", "check"}
                    \/ s.pc = "filled" /\ pos.qty # 0 /\ s.got = pos.qty
    <3> DEFINE s == [At(p, "filled") EXCEPT !.got = pos.qty]
    <3>1. \/ Go(p, End(p, "failed")) \/ Go(p, End(p, "check"))
          \/ pos.qty # 0 /\ l' = [l EXCEPT ![p] = s]
      BY <1>4 DEF MarketPosition, Read, Go
    <3>2. Same(p, s) /\ s.pc = "filled" /\ s.got = pos.qty
      BY AllFields DEF Same, At, Fields
    <3> HIDE DEF s
    <3> QED BY <3>1, <3>2, Places DEF Go
  <2>2. Fits(s, i)
    BY <1>0, <1>n, <1>4, <2>1 DEF MarketPosition, Fits
  <2>3. Unsure(s) \/ done[i].mkt > 0
    BY <1>0, <1>n, <1>4, <2>1 DEF MarketPosition, Fits, Unsure
  <2> QED BY <1>0, <1>4, <2>1, <2>2, <2>3, FewerCalm DEF MarketPosition, bookVars, account, Past
<1>5. CASE Filled(p)
  <2>1. l[p].got = Size /\ sends[i] # 0
    BY <1>0, <1>5 DEF Filled, Fits
  <2>2. PICK s : l' = [l EXCEPT ![p] = s] /\ Same(p, s) /\ s.pc = "stop" /\ s.fill = Size
    <3> DEFINE s == [At(p, "stop") EXCEPT !.fill = l[p].got]
    <3>0. l[p].got # 0
      BY <1>0, <2>1
    <3>1. l' = [l EXCEPT ![p] = s]
      BY <1>5, <3>0 DEF Filled, Go
    <3>2. Same(p, s) /\ s.pc = "stop" /\ s.fill = l[p].got
      BY AllFields DEF Same, At, Fields
    <3> HIDE DEF s
    <3> QED BY <2>1, <3>1, <3>2
  <2>3. Fits(s, i)
    BY <1>0, <1>5, <2>1, <2>2 DEF Filled, Fits
  <2> QED BY <1>0, <1>5, <2>2, <2>3, FewerCalm DEF Filled, bookVars, account, Past
<1>6. CASE WouldTrigger(p) \/ FindStop(p) \/ CloseQuery(p) \/ CloseCheck(p)
  <2>1. PICK s : /\ l' = [l EXCEPT ![p] = s] /\ Same(p, s)
                 /\ \/ s.pc \in Filling \cup {"tp"} /\ s.fill = l[p].fill
                    \/ s.pc = "finish"
                    \/ s.pc = "orphans" /\ (pos.qty = 0 \/ done[i].cls > 0)
    <3>1. CASE WouldTrigger(p)
      <4>1. Go(p, At(p, "confirm"))
        BY <3>1 DEF WouldTrigger
      <4>2. Like(p, At(p, "confirm")) /\ At(p, "confirm").pc = "confirm"
        BY Places
      <4> QED BY <4>1, <4>2 DEF Go, Like
    <3>2. CASE FindStop(p)
      BY <3>2, Places DEF FindStop, Read, Go, Like
    <3>3. CASE CloseQuery(p)
      BY <3>3, Places DEF CloseQuery, CloseFilled, Read, Go, Like
    <3>4. CASE CloseCheck(p)
      <4> DEFINE again == [At(p, "cbefore") EXCEPT !.att = @ + 1]
      <4>1. Like(p, again) /\ again.pc = "cbefore"
        BY Places
      <4>2. \/ Go(p, again) \/ Go(p, At(p, "close")) \/ Go(p, End(p, "naked"))
            \/ Go(p, At(p, "orphans")) /\ pos.qty = 0
        BY <3>4 DEF CloseCheck, Read
      <4> HIDE DEF again
      <4> QED BY <4>1, <4>2, Places DEF Go, Like
    <3> QED BY <1>6, <3>1, <3>2, <3>3, <3>4
  <2>2. l[p].pc \in Filling /\ UNCHANGED <<pos, orders, done, late, intent, told, sends>>
    BY <1>6 DEF WouldTrigger, FindStop, CloseQuery, CloseCheck, bookVars, account
  <2>3. Fits(s, i)
    BY <1>0, <1>n, <2>1, <2>2 DEF Fits
  <2> QED BY <1>0, <2>1, <2>2, <2>3, FewerCalm DEF Past
<1>7. CASE Link(p)
  <2>1. PICK s : l' = [l EXCEPT ![p] = s] /\ Same(p, s) /\ s.pc = "finish"
    <3>1. Go(p, End(p, "entered"))
      BY <1>7 DEF Link
    <3>2. Same(p, End(p, "entered")) /\ End(p, "entered").pc = "finish"
      BY Places
    <3> QED BY <3>1, <3>2 DEF Go
  <2>2. Fits(s, i)
    BY <1>0, <1>7, <2>1 DEF Link, Fits
  <2> QED BY <1>0, <1>7, <2>1, <2>2, FewerCalm DEF Link, bookVars, account, Past
<1> QED BY <1>1, <1>2, <1>3, <1>4, <1>5, <1>6, <1>7

LEMMA OtherReadsCalm ==
    ASSUME NEW p, Listeners = {p}, ExecInv, CalmFacts,
           \/ Keys(p) \/ MoveRead(p) \/ MoveOrders(p) \/ MoveFind(p)
           \/ ExitRead(p) \/ ExitQuery(p) \/ ExitPosition(p)
    PROVE  CalmFacts'
<1> DEFINE i == The(p)
<1>0. Size \in Nat /\ Size > 0 /\ pos.qty \in {0, Size} /\ Fits(l[p], i) /\ inbox' = inbox
  BY CalmNumbers, WorkAlone DEF CalmFacts, Work, Listen, Move, Exit
<1>a. /\ l[p].pc \notin Unclaimed /\ l[p].pc # "finish" /\ l[p].pc \notin Asking
      /\ UNCHANGED <<pos, orders, done, late, intent, told, sends>>
  BY DEF Keys, MoveRead, MoveOrders, MoveFind, ExitRead, ExitQuery, ExitPosition, bookVars,
         account, Unclaimed, Asking
<1>n. done[i].cls \in Nat /\ done[i].ex \in Nat
  BY <1>a, CalmNumbers, BusyTap DEF Unclaimed
<1>f. \A text : Same(p, End(p, text)) /\ End(p, text).pc = "finish"
  BY Places
<1> USE DEF Gone, Asking, Filling, Moving, Sized, Bought, Unclaimed
<1>b. ASSUME NEW s, l' = [l EXCEPT ![p] = s], Same(p, s), s.pc \notin Unclaimed, Fits(s, i)
      PROVE  CalmFacts'
  BY <1>0, <1>a, <1>b, FewerCalm DEF Past
<1>c. ASSUME NEW text, Go(p, End(p, text)) PROVE CalmFacts'
  <2>1. Fits(End(p, text), i)
    BY <1>0, <1>a, <1>f DEF Fits
  <2> QED BY <1>b, <1>c, <1>f, <2>1 DEF Go
<1>d. ASSUME NEW pc \in {"guards", "mread", "xread", "xposition", "xcancel"}, Go(p, At(p, pc)),
             pc = "xposition" => l[p].pc = "xquery", pc = "xcancel" => pos.qty = 0
      PROVE  CalmFacts'
  <2>1. Like(p, At(p, pc)) /\ At(p, pc).pc = pc
    BY Places
  <2>2. Fits(At(p, pc), i)
    BY <1>0, <1>a, <1>d, <2>1 DEF Fits, Like
  <2> QED BY <1>b, <1>d, <2>1, <2>2 DEF Go, Like
<1>1. CASE Keys(p)
  BY <1>1, <1>c, <1>d DEF Keys, Read, First
<1>2. CASE MoveRead(p) \/ ExitRead(p)
  <2>1. PICK pc \in {"morders", "xmarket"} :
            \/ \E text : Go(p, End(p, text))
            \/ pos.qty # 0 /\ Go(p, [At(p, pc) EXCEPT !.fill = pos.qty])
    BY <1>2 DEF MoveRead, ExitRead, Read
  <2> DEFINE s == [At(p, pc) EXCEPT !.fill = pos.qty]
  <2>2. Same(p, s) /\ s.pc = pc /\ s.fill = pos.qty
    BY AllFields DEF Same, At, Fields
  <2> HIDE DEF s
  <2>3. ASSUME pos.qty # 0 PROVE Fits(s, i)
    BY <1>0, <1>a, <2>2, <2>3 DEF Fits
  <2> QED BY <1>b, <1>c, <2>1, <2>2, <2>3 DEF Go, s
<1>3. CASE MoveOrders(p)
  <2>1. \/ \E text : Go(p, End(p, text))
        \/ Go(p, [At(p, "mplace") EXCEPT !.olds = Stops(orders)])
    BY <1>3 DEF MoveOrders, Read
  <2> DEFINE s == [At(p, "mplace") EXCEPT !.olds = Stops(orders)]
  <2>2. Same(p, s) /\ s.pc = "mplace" /\ s.fill = l[p].fill /\ s.olds = Stops(orders)
    BY AllFields DEF Same, At, Fields
  <2> HIDE DEF s
  <2>3. l[p].fill = Size /\ sends[i] = 0 /\ i \in Intents
    BY <1>0, <1>3, BusyTap DEF MoveOrders, Fits, ExecInv, ClaimInv, UnsentYet, Unsent
  <2>4. \A o \in Stops(orders) : o.by # i
    BY <2>3 DEF CalmFacts, UnsentIsClean, NothingOf, Stops
  <2>5. Fits(s, i)
    BY <1>0, <1>a, <2>2, <2>3, <2>4 DEF Fits
  <2> QED BY <1>b, <1>c, <2>1, <2>2, <2>5 DEF Go, s
<1>4. CASE MoveFind(p)
  <2>1. (\E text : Go(p, End(p, text))) \/ (Rests(orders, i, "ms") /\ Go(p, At(p, "mcancel")))
    BY <1>4 DEF MoveFind, Read
  <2>2. Like(p, At(p, "mcancel")) /\ At(p, "mcancel").pc = "mcancel" /\ l[p].pc = "mfind"
    BY <1>4, Places DEF MoveFind
  <2>3. ASSUME Rests(orders, i, "ms") PROVE Fits(At(p, "mcancel"), i)
    BY <1>0, <1>a, <2>2, <2>3 DEF Fits, Like
  <2> QED BY <1>b, <1>c, <2>1, <2>2, <2>3 DEF Go, Like
<1>5. CASE ExitQuery(p)
  <2>1. done[i].ex > 0 => pos.qty = 0
    BY <1>0, <1>a DEF Fits
  <2>2. l[p].pc = "xquery" /\ \/ Go(p, At(p, "xposition"))
                              \/ done[i].ex > 0 /\ Go(p, At(p, "xcancel"))
    BY <1>5 DEF ExitQuery, Read
  <2> QED BY <1>d, <2>1, <2>2
<1>6. CASE ExitPosition(p)
  <2>1. (\E text : Go(p, End(p, text))) \/ (pos.qty = 0 /\ Go(p, At(p, "xcancel")))
    BY <1>0, <1>6 DEF ExitPosition, Read
  <2> QED BY <1>c, <1>d, <2>1
<1> QED BY <1>1, <1>2, <1>3, <1>4, <1>5, <1>6

LEMMA CancelsCalm ==
    ASSUME NEW p, Listeners = {p}, ExecInv, CalmFacts,
           ClearStale(p) \/ ConfirmStop(p) \/ Orphans(p) \/ MoveCancel(p) \/ ExitCancel(p)
    PROVE  CalmFacts'
<1> DEFINE i == The(p)
<1>0. Fits(l[p], i) /\ inbox' = inbox
  BY WorkAlone DEF CalmFacts, Work, Entry, Move, Exit
<1>a. /\ UNCHANGED <<pos, done, late, intent, told, sends>>
      /\ l[p].pc \in {"clear", "confirm", "orphans", "mcancel", "xcancel"}
  BY DEF ClearStale, ConfirmStop, Orphans, MoveCancel, ExitCancel, bookVars
<1> USE DEF Gone, Asking, Filling, Moving, Sized, Bought, Unclaimed
<1>1. PICK s : /\ l' = [l EXCEPT ![p] = s] /\ Same(p, s)
               /\ \/ s.pc = "finish"
                  \/ s.pc = "margin" /\ l[p].pc = "clear"
                  \/ s.pc \in {"tp", "close"} /\ s.fill = l[p].fill /\ l[p].pc = "confirm"
  <2>f. \A text : Same(p, End(p, text)) /\ End(p, text).pc = "finish"
    BY Places
  <2>1. CASE ClearStale(p)
    <3>1. Like(p, At(p, "margin")) /\ At(p, "margin").pc = "margin"
      BY Places
    <3> QED BY <2>1, <3>1 DEF ClearStale, Go, Like
  <2>2. CASE ConfirmStop(p)
    <3> DEFINE out == [At(p, "close") EXCEPT !.att = 0]
    <3>1. Go(p, out) \/ Go(p, At(p, "tp"))
      BY <2>2 DEF ConfirmStop, Read
    <3>2. Like(p, out) /\ out.pc = "close" /\ Like(p, At(p, "tp")) /\ At(p, "tp").pc = "tp"
      BY Places
    <3> HIDE DEF out
    <3> QED BY <2>2, <3>1, <3>2 DEF ConfirmStop, Go, Like
  <2>3. CASE Orphans(p) \/ MoveCancel(p) \/ ExitCancel(p)
    <3>1. \E text : Go(p, End(p, text))
      BY <2>3 DEF Orphans, MoveCancel, ExitCancel
    <3> QED BY <2>f, <3>1 DEF Go
  <2> QED BY <2>1, <2>2, <2>3
<1>2. orders' \subseteq orders
  <2>1. CASE ClearStale(p) \/ Orphans(p) \/ MoveCancel(p)
    BY <2>1, CancelKeeps DEF ClearStale, Orphans, MoveCancel
  <2>2. CASE ConfirmStop(p)
    BY <2>2, CancelKeeps DEF ConfirmStop
  <2>3. CASE ExitCancel(p)
    BY <2>3, CancelKeeps DEF ExitCancel
  <2> QED BY <2>1, <2>2, <2>3
<1>3. Fits(s, i)
  BY <1>0, <1>a, <1>1 DEF Fits
<1> QED BY <1>0, <1>a, <1>1, <1>2, <1>3, FewerCalm DEF Past
-----------------------------------------------------------------------------
(***************************************************************************)
(* The calm: what is POSTed.                                               *)
(***************************************************************************)
Account(r, q) == q \in Fills(r) /\ Execute(r, q) /\ late' = late

LEMMA PostSplits ==
    ASSUME NEW p, NEW r, NEW a, NEW b, NEW c, Post(p, r, a, b, c)
    PROVE  \E s : /\ l' = [l EXCEPT ![p] = s]
                  /\ \/ \E q : Account(r, q) /\ s \in {[a EXCEPT !.got = q], c}
                     \/ Nothing /\ late' \subseteq late \cup {r} /\ s = c
                     \/ Nothing /\ late' = late /\ s = b
<1>1. CASE \E q \in Fills(r) : /\ Execute(r, q) /\ Go(p, [a EXCEPT !.got = q])
                               /\ late' = late
  BY <1>1 DEF Account, Go
<1>2. CASE Nothing /\ Go(p, b) /\ late' = late
  BY <1>2 DEF Go
<1>3. CASE (\E q \in Fills(r) : Execute(r, q)) /\ Go(p, c) /\ late' = late
  BY <1>3 DEF Account, Go
<1>4. CASE Nothing /\ Go(p, c) /\ late' \subseteq late \cup {r}
  BY <1>4 DEF Go
<1> QED BY <1>1, <1>2, <1>3, <1>4 DEF Post

\* Orders of one size that are filled in full: a purchase of Size, or the position is gone.
LEMMA Executed ==
    ASSUME ExecInv, pos.qty \in {0, Size}, ~Thin, NEW r \in Requests, r.by \in Intents, r.qty = Size,
           NEW q \in Fills(r), Execute(r, q)
    PROVE  /\ r.step = "mkt" =>
                /\ q = Size /\ pos'.qty = pos.qty + Size /\ orders' = orders
                /\ done'[r.by].mkt = Size
                /\ done'[r.by].cls = done[r.by].cls /\ done'[r.by].ex = done[r.by].ex
           /\ r.step \in {"cls", "ex"} =>
                /\ pos.qty = Size /\ pos'.qty = 0 /\ orders' = orders
                /\ done'[r.by].mkt = done[r.by].mkt
           /\ r.step \in RestSteps =>
                pos' = pos /\ orders' = orders \cup {r} /\ done' = done
           /\ \A j \in Intents : j # r.by => done'[j] = done[j]
<1>0. Size \in Nat /\ Size > 0 /\ pos \in [qty : Nat, gen : Nat]
      /\ done \in [Intents -> [mkt : Nat, cls : Nat, ex : Nat]]
  BY SizeAssumption DEF ExecInv, AccountTyped
<1>1. CASE r.step = "mkt"
  <2>1. q = Size
    BY <1>1 DEF Fills
  <2>2. /\ pos' = [qty |-> pos.qty + Size, gen |-> pos.gen + 1] /\ orders' = orders
        /\ done' = [done EXCEPT ![r.by]["mkt"] = Size]
    BY <1>0, <1>1, <2>1 DEF Execute, RestSteps, StopSteps
  <2> QED BY <1>0, <1>1, <2>1, <2>2 DEF RestSteps, StopSteps
<1>2. CASE r.step \in {"cls", "ex"}
  <2>1. pos.qty = Size /\ q = Size
    <3>1. pos.qty # 0 /\ q = Least(r.qty, pos.qty)
      BY <1>2 DEF Fills
    <3> QED BY <1>0, <3>1 DEF Least
  <2>2. /\ pos' = [pos EXCEPT !.qty = @ - Size] /\ orders' = orders
        /\ done' = [done EXCEPT ![r.by][r.step] = Size]
    BY <1>2, <2>1 DEF Execute, RestSteps, StopSteps
  <2>3. pos'.qty = 0
    BY <1>0, <2>1, <2>2
  <2> QED BY <1>0, <1>2, <2>1, <2>2, <2>3 DEF RestSteps, StopSteps
<1>3. CASE r.step \in RestSteps
  BY <1>0, <1>3 DEF Execute, RestSteps, StopSteps
<1> QED BY <1>1, <1>2, <1>3 DEF Requests

LEMMA SentCalm ==
    ASSUME NEW p, Listeners = {p}, ExecInv, StatusInv, CalmFacts, ~Thin,
           NEW r \in Requests, r.by = The(p), r.qty = Size,
           r.step \in {"mkt", "sl0", "sl1"} => r.level = 0,
           l[p].pc \notin Unclaimed \cup Asking \cup {"finish"},
           UNCHANGED <<intent, told, inbox>>, sends'[The(p)] # 0,
           \A j \in Intents : j # The(p) => sends'[j] = sends[j],
           (Nothing /\ late' \subseteq late \cup {r}) \/ (\E q : Account(r, q)),
           NEW s, l' = [l EXCEPT ![p] = s], Same(p, s), s.pc \notin Unclaimed,
           r.step = "mkt" => pos.qty = 0 /\ NothingOf(The(p)),
           r.step = "mkt" /\ late' # late => s.pc \in Asking,
           Fits(s, The(p))'
    PROVE  CalmFacts'
<1> DEFINE i == The(p)
<1>0. /\ Size \in Nat /\ Size > 0 /\ pos.qty \in {0, Size} /\ i \in Intents
      /\ OneSize /\ UnsentIsClean /\ LateEntries
  BY CalmNumbers, BusyTap DEF CalmFacts, Unclaimed
<1>1. l'[p] = s /\ The(p)' = i
  BY GoesTo, SameTap
<1>2. /\ pos'.qty \in {0, Size} /\ orders' \subseteq orders \cup {r}
      /\ late' \subseteq late \cup {r} /\ (orders' # orders => r.step \in RestSteps)
      /\ \A j \in Intents : done'[j].mkt \in {0, Size}
      /\ \A j \in Intents : j # i => done'[j] = done[j]
      /\ r.step # "mkt" => done'[i].mkt = done[i].mkt
  <2>1. CASE Nothing /\ late' \subseteq late \cup {r}
    BY <1>0, <2>1 DEF Nothing, OneSize
  <2>2. ASSUME NEW q, Account(r, q) PROVE <1>2
    BY <1>0, <2>2, Executed DEF OneSize, Account, Requests
  <2> QED BY <2>1, <2>2
<1>3. OneSize'
  BY <1>0, <1>2 DEF OneSize, Requests
<1>4. UnsentIsClean'
  BY <1>0, <1>2 DEF UnsentIsClean, NothingOf
<1>5. \A j : Held(j)' <=> Held(j)
  BY <1>1 DEF Held, Past
<1>6. LateEntries'
  <2>1. ASSUME NEW x \in late', x.step = "mkt"
        PROVE  done'[x.by].mkt = 0 /\ (GivenUp(x.by)' \/ (The(p)' = x.by /\ Unsure(l'[p])))
    <3>1. CASE x \in late
      <4>1. done[x.by].mkt = 0 /\ GivenUp(x.by)
        BY <1>0, <2>1, <3>1 DEF LateEntries, Unsure, CalmFacts
      <4>2. GivenUp(x.by)'
        BY <1>5, <4>1 DEF GivenUp
      <4>3. done'[x.by].mkt = 0
        <5>1. CASE x.by = i
          <6>1. r.step # "mkt"
            BY <3>1, <5>1 DEF NothingOf
          <6> QED BY <1>2, <4>1, <5>1, <6>1
        <5>2. CASE x.by # i
          <6>1. x.by \in Intents
            BY <3>1 DEF StatusInv
          <6> QED BY <1>2, <4>1, <5>2, <6>1
        <5> QED BY <5>1, <5>2
      <4> QED BY <4>2, <4>3
    <3>2. CASE x \notin late
      <4>1. x = r /\ late' # late
        BY <1>2, <3>2
      <4>2. s.pc \in Asking /\ NothingOf(i)
        BY <2>1, <4>1
      <4>3. done' = done
        BY <4>1 DEF Account, Nothing
      <4> QED BY <1>1, <4>1, <4>2, <4>3 DEF NothingOf, Unsure
    <3> QED BY <3>1, <3>2
  <2> QED BY <2>1 DEF LateEntries
<1>7. Fits(l[p], The(p))'
  BY <1>1
<1> QED BY <1>1, <1>3, <1>4, <1>6, <1>7 DEF CalmFacts

LEMMA MarketCalm ==
    ASSUME NEW p, Listeners = {p}, ExecInv, StatusInv, CalmFacts, ~Thin, Market(p)
    PROVE  CalmFacts'
<1> DEFINE i == The(p)
           r == Request(i, "mkt", Size, 0)
<1>0. /\ Size \in Nat /\ Size > 0 /\ Fits(l[p], i) /\ l[p].pc = "market" /\ i \in Intents
      /\ sends[i] = 0 /\ DOMAIN sends = Intents /\ inbox' = inbox
  BY CalmNumbers, BusyTap, WorkAlone
     DEF CalmFacts, Market, ExecInv, ClaimInv, UnsentYet, Unsent, BookShape, Work, Entry
<1>1. NothingOf(i) /\ pos.qty = 0
  BY <1>0 DEF CalmFacts, UnsentIsClean, Fits, Gone
<1>2. intent[i].qty = Size
  <2>1. intent[i].status = "confirmed"
    BY <1>0 DEF StatusInv, Past, Unclaimed
  <2> QED BY <1>0, <2>1 DEF CalmFacts, OneSize
<1>3. /\ UNCHANGED <<intent, told>> /\ sends'[i] # 0
      /\ \A j \in Intents : j # i => sends'[j] = sends[j]
  BY <1>0 DEF Market, Sent
<1>4. Post(p, r, At(p, "filled"), End(p, "refused"), At(p, "mquery"))
  BY <1>2 DEF Market
<1>5. r \in Requests /\ r.by = i /\ r.qty = Size /\ r.step = "mkt" /\ r.level = 0
  BY <1>0 DEF Request, Requests
<1> HIDE DEF r
<1>6. PICK s : /\ l' = [l EXCEPT ![p] = s]
               /\ \/ \E q : Account(r, q) /\ s \in {[At(p, "filled") EXCEPT !.got = q], At(p, "mquery")}
                  \/ Nothing /\ late' \subseteq late \cup {r} /\ s = At(p, "mquery")
                  \/ Nothing /\ late' = late /\ s = End(p, "refused")
  BY <1>4, PostSplits
<1>7. /\ \A q : LET s1 == [At(p, "filled") EXCEPT !.got = q]
                IN  Same(p, s1) /\ s1.pc = "filled" /\ s1.got = q
      /\ Like(p, At(p, "mquery")) /\ At(p, "mquery").pc = "mquery"
      /\ Same(p, End(p, "refused")) /\ End(p, "refused").pc = "finish"
  BY Places
<1>8. /\ Same(p, s) /\ s.pc \notin Unclaimed
      /\ \/ \E q : Account(r, q) /\ ((s.pc = "filled" /\ s.got = q) \/ s.pc = "mquery")
         \/ Nothing /\ late' \subseteq late \cup {r} /\ s.pc = "mquery"
         \/ Nothing /\ late' = late /\ s.pc = "finish"
  <2>1. ASSUME NEW q, Account(r, q), s = [At(p, "filled") EXCEPT !.got = q]
        PROVE  Same(p, s) /\ s.pc = "filled" /\ s.got = q
    BY <2>1, <1>7
  <2>2. ASSUME s = At(p, "mquery") PROVE Same(p, s) /\ s.pc = "mquery"
    BY <2>2, <1>7 DEF Like
  <2>3. ASSUME s = End(p, "refused") PROVE Same(p, s) /\ s.pc = "finish"
    BY <2>3, <1>7
  <2>4. CASE \E q : Account(r, q) /\ s \in {[At(p, "filled") EXCEPT !.got = q], At(p, "mquery")}
    <3>1. PICK q : Account(r, q) /\ s \in {[At(p, "filled") EXCEPT !.got = q], At(p, "mquery")}
      BY <2>4
    <3> QED BY <3>1, <2>1, <2>2 DEF Unclaimed
  <2> QED BY <1>6, <2>2, <2>3, <2>4 DEF Unclaimed
<1>9. Fits(s, i)'
  <2>1. The(p)' = i
    BY <1>0, <1>6, <1>8, SameTap
  <2> USE DEF Fits, Gone, Asking, Filling, Moving, Sized, Bought
  <2>2. ASSUME NEW q, Account(r, q), (s.pc = "filled" /\ s.got = q) \/ s.pc = "mquery"
        PROVE  Fits(s, i)'
    <3>1. /\ q = Size /\ pos'.qty = Size /\ done'[i].mkt = Size
          /\ done'[i].cls = 0 /\ done'[i].ex = 0
      BY <1>0, <1>1, <1>5, <2>2, Executed DEF NothingOf, Account
    <3>2. \A x \in late' : x.by = i => x.step = "mkt"
      BY <1>1, <2>2 DEF Account, NothingOf
    <3> QED BY <1>0, <1>3, <2>1, <2>2, <3>1, <3>2
  <2>3. CASE Nothing /\ late' \subseteq late \cup {r} /\ s.pc = "mquery"
    <3>1. pos'.qty = 0 /\ done' = done
      BY <1>1, <2>3 DEF Nothing
    <3>2. \A x \in late' : x.by = i => x.step = "mkt"
      BY <1>1, <1>5, <2>3 DEF NothingOf
    <3> QED BY <1>0, <1>1, <1>3, <2>1, <2>3, <3>1, <3>2 DEF NothingOf
  <2>4. CASE Nothing /\ late' = late /\ s.pc = "finish"
    <3>1. pos'.qty = 0
      BY <1>1, <2>4 DEF Nothing
    <3> QED BY <2>1, <2>4, <3>1
  <2> QED BY <1>8, <2>2, <2>3, <2>4
<1>a. late' # late => s.pc \in Asking
  BY <1>8 DEF Account, Asking
<1>b. (Nothing /\ late' \subseteq late \cup {r}) \/ (\E q : Account(r, q))
  BY <1>8
<1> QED BY <1>0, <1>1, <1>3, <1>5, <1>6, <1>8, <1>9, <1>a, <1>b, SentCalm DEF Unclaimed, Asking

\* Stops, take-profits and the closes of an entry, a move's stop and an exit's order:
\* where the listener is when they are answered, refused, lost.
Carries(p, s) ==
    /\ Same(p, s) /\ s.pc \notin Unclaimed \cup Asking \cup {"filled"}
    /\ s.pc = "finish" \/ (s.fill = l[p].fill /\ s.olds = l[p].olds)
    /\ s.pc \in Moving => l[p].pc \in Moving

Answer(a, q) == [a EXCEPT !.got = q]
Posting(p, step, level, a, b, c) ==
    /\ Post(p, Request(The(p), step, l[p].fill, level), a, b, c)
    /\ \A q : Carries(p, Answer(a, q)) /\ Answer(a, q).pc = a.pc
    /\ Carries(p, b) /\ Carries(p, c) /\ {b.pc, c.pc} \cap (Gone \cup {"mcancel"}) = {}
    /\ (a.pc \in Gone => step \in {"cls", "ex"}) /\ (a.pc = "mcancel" => step = "ms")
    /\ step \in {"sl0", "sl1"} => level = 0

LEMMA PostCalm ==
    ASSUME NEW p, Listeners = {p}, ExecInv, StatusInv, CalmFacts, ~Thin,
           NEW step \in RestSteps \cup {"cls", "ex"}, NEW level \in Nat,
           l[p].pc \in {"stop", "close", "tp", "mplace", "xmarket"},
           UNCHANGED <<intent, told, inbox>>, sends'[The(p)] # 0,
           \A j \in Intents : j # The(p) => sends'[j] = sends[j],
           NEW a, NEW b, NEW c, Posting(p, step, level, a, b, c)
    PROVE  CalmFacts'
<1> DEFINE i == The(p)
           r == Request(i, step, Size, level)
<1>0. /\ Size \in Nat /\ Size > 0 /\ pos.qty \in {0, Size} /\ Fits(l[p], i) /\ i \in Intents
      /\ done[i].cls \in Nat /\ done[i].ex \in Nat
  BY CalmNumbers, BusyTap DEF CalmFacts
<1>1. l[p].fill = Size
  BY <1>0 DEF Fits, Sized, Filling
<1>5. /\ r \in Requests /\ r.by = i /\ r.qty = Size /\ r.step = step /\ r.level = level
      /\ step # "mkt"
  BY <1>0 DEF Request, Requests, RestSteps, StopSteps
<1>4. /\ Post(p, r, a, b, c)
      /\ \A q : Carries(p, Answer(a, q)) /\ Answer(a, q).pc = a.pc
      /\ Carries(p, b) /\ Carries(p, c) /\ b.pc \notin Gone \cup {"mcancel"}
      /\ c.pc \notin Gone \cup {"mcancel"}
      /\ (a.pc \in Gone => step \in {"cls", "ex"}) /\ (a.pc = "mcancel" => step = "ms")
      /\ step \in {"sl0", "sl1"} => level = 0
  BY <1>1 DEF Posting
<1> HIDE DEF r
<1>6. PICK s : /\ l' = [l EXCEPT ![p] = s]
               /\ \/ \E q : Account(r, q) /\ s \in {Answer(a, q), c}
                  \/ Nothing /\ late' \subseteq late \cup {r} /\ s = c
                  \/ Nothing /\ late' = late /\ s = b
  BY <1>4, PostSplits DEF Answer
<1>7. /\ Carries(p, s)
      /\ \/ \E q : Account(r, q) /\ s.pc \in {a.pc, c.pc}
         \/ Nothing /\ s.pc \in {b.pc, c.pc}
      /\ (Nothing /\ late' \subseteq late \cup {r}) \/ (\E q : Account(r, q))
  BY <1>4, <1>6
<1>8. The(p)' = i
  BY <1>0, <1>6, <1>7, SameTap DEF Carries
<1>9. \/ /\ pos' = pos /\ done' = done /\ (s.pc \in {b.pc, c.pc} \/ (s.pc = a.pc /\ step \in RestSteps))
         /\ s.pc = "mcancel" => r \in orders'
      \/ pos'.qty = 0 /\ (s.pc = "mcancel" => FALSE)
  <2>1. CASE Nothing /\ s.pc \in {b.pc, c.pc}
    BY <1>4, <2>1 DEF Nothing
  <2>2. ASSUME NEW q, Account(r, q), s.pc \in {a.pc, c.pc} PROVE <1>9
    <3>1. CASE step \in {"cls", "ex"}
      BY <1>0, <1>4, <1>5, <2>2, <3>1, Executed DEF RestSteps, StopSteps, Account
    <3>2. CASE step \in RestSteps
      BY <1>0, <1>5, <2>2, <3>2, Executed DEF Account
    <3> QED BY <3>1, <3>2
  <2> QED BY <1>7, <2>1, <2>2
<1>a. Fits(s, i)'
  <2> USE DEF Gone, Asking, Filling, Moving, Sized, Bought, Unclaimed
  <2>0. s.pc \notin Asking \cup {"filled"}
    BY <1>7 DEF Carries
  <2>1. s.pc \in Gone => pos'.qty = 0
    BY <1>4, <1>5, <1>9 DEF RestSteps, StopSteps
  <2>2. s.pc \in Sized => s.fill = Size
    BY <1>1, <1>7 DEF Carries
  <2>3. done'[i].cls > 0 \/ done'[i].ex > 0 => pos'.qty = 0
    BY <1>0, <1>9 DEF Fits
  <2>4. s.pc \in Moving => \A o \in s.olds : o.by # i
    BY <1>0, <1>7 DEF Fits, Carries
  <2>5. s.pc = "mcancel" => pos'.qty = 0 \/ Rests(orders', i, "ms")
    <3>1. s.pc = "mcancel" => r.step = "ms"
      BY <1>4, <1>5, <1>9
    <3> QED BY <1>5, <1>9, <3>1 DEF Rests
  <2> QED BY <1>8, <2>0, <2>1, <2>2, <2>3, <2>4, <2>5 DEF Fits
<1>b. /\ Same(p, s) /\ s.pc \notin Unclaimed
      /\ l[p].pc \notin Unclaimed \cup Asking \cup {"finish"}
  BY <1>7 DEF Carries, Unclaimed, Asking
<1> QED BY <1>0, <1>4, <1>5, <1>6, <1>7, <1>a, <1>b, SentCalm

LEMMA LaterPostsCalm ==
    ASSUME NEW p, Listeners = {p}, ExecInv, StatusInv, CalmFacts, ~Thin,
           PlaceStop(p) \/ CloseSend(p) \/ PlaceTP(p) \/ MovePlace(p) \/ ExitMarket(p)
    PROVE  CalmFacts'
<1> DEFINE i == The(p)
<1>0. /\ Fits(l[p], i) /\ i \in Intents /\ inbox' = inbox /\ DOMAIN sends = Intents
      /\ l[p].pc \in {"stop", "close", "tp", "mplace", "xmarket"}
      /\ intent[i].level \in Nat
      /\ l[p].pc \in {"mplace", "xmarket"} => sends[i] = 0
  <2>1. l[p].pc \in {"stop", "close", "tp", "mplace", "xmarket"}
    BY DEF PlaceStop, CloseSend, PlaceTP, MovePlace, ExitMarket
  <2>2. i \in Intents
    BY <2>1, BusyTap
  <2>3. intent[i].level \in Nat
    BY <2>2 DEF ExecInv, RowsTyped, Rows
  <2>4. inbox' = inbox
    BY WorkAlone DEF Work, Entry, Move, Exit
  <2> QED BY <2>1, <2>2, <2>3, <2>4
          DEF CalmFacts, ExecInv, ClaimInv, UnsentYet, Unsent, BookShape
<1>2. UNCHANGED <<intent, told>>
  BY DEF PlaceStop, CloseSend, PlaceTP, MovePlace, ExitMarket, bookVars
<1>3. sends'[i] # 0 /\ \A j \in Intents : j # i => sends'[j] = sends[j]
  <2>1. CASE PlaceStop(p) \/ CloseSend(p) \/ PlaceTP(p)
    <3>1. sends' = sends /\ l[p].pc \in Bought
      BY <2>1 DEF PlaceStop, CloseSend, PlaceTP, bookVars, Bought, Filling
    <3> QED BY <1>0, <3>1 DEF Fits
  <2>2. CASE MovePlace(p) \/ ExitMarket(p)
    <3>1. sends[i] = 0 /\ sends' = [sends EXCEPT ![i] = @ + 1]
      BY <1>0, <2>2 DEF MovePlace, ExitMarket, Sent
    <3> QED BY <1>0, <3>1
  <2> QED BY <2>1, <2>2
<1> USE DEF Unclaimed, Asking, Moving, Gone
<1>p. /\ \A pc : Like(p, At(p, pc)) /\ At(p, pc).pc = pc
      /\ \A text : Same(p, End(p, text)) /\ End(p, text).pc = "finish"
      /\ \A pc, q : LET s == [At(p, pc) EXCEPT !.got = q]
                    IN  Same(p, s) /\ s.pc = pc /\ s.fill = l[p].fill /\ s.olds = l[p].olds
      /\ Like(p, NextStop(p)) /\ NextStop(p).pc \in {"stop", "confirm"}
  BY Places
<1>4. \A pc \in {"tp", "find", "orphans", "cafter", "cquery", "link", "xcancel", "xquery"} :
          /\ Carries(p, At(p, pc))
          /\ \A q : Carries(p, Answer(At(p, pc), q)) /\ Answer(At(p, pc), q).pc = At(p, pc).pc
  BY <1>p DEF Carries, Like, Answer
<1>5. Carries(p, NextStop(p)) /\ \A text : Carries(p, End(p, text))
  BY <1>p DEF Carries, Like
<1>b. ASSUME NEW step \in RestSteps \cup {"cls", "ex"}, NEW level \in Nat, NEW a, NEW b, NEW c,
             Posting(p, step, level, a, b, c)
      PROVE  CalmFacts'
  BY <1>0, <1>2, <1>3, <1>b, PostCalm
<1>6. CASE PlaceStop(p)
  <2>1. Post(p, Request(i, StopStep(p), l[p].fill, 0), At(p, "tp"), NextStop(p), At(p, "find"))
    BY <1>6 DEF PlaceStop
  <2>2. StopStep(p) \in RestSteps
    BY DEF StopStep, RestSteps, StopSteps
  <2>3. Posting(p, StopStep(p), 0, At(p, "tp"), NextStop(p), At(p, "find"))
    BY <1>p, <1>4, <1>5, <2>1 DEF Posting
  <2> QED BY <1>b, <2>2, <2>3
<1>7. CASE CloseSend(p)
  <2>1. Post(p, Request(i, "cls", l[p].fill, 0), At(p, "orphans"), At(p, "cafter"), At(p, "cquery"))
    BY <1>7 DEF CloseSend
  <2>2. Posting(p, "cls", 0, At(p, "orphans"), At(p, "cafter"), At(p, "cquery"))
    BY <1>p, <1>4, <2>1 DEF Posting
  <2> QED BY <1>b, <2>2
<1>8. CASE PlaceTP(p)
  <2>1. Post(p, Request(i, "tp", l[p].fill, 0), At(p, "link"), At(p, "link"), At(p, "link"))
    BY <1>8 DEF PlaceTP
  <2>2. Posting(p, "tp", 0, At(p, "link"), At(p, "link"), At(p, "link"))
    BY <1>p, <1>4, <2>1 DEF Posting
  <2> QED BY <1>b, <2>2 DEF RestSteps
<1>9. CASE MovePlace(p)
  <2>1. Post(p, Request(i, "ms", l[p].fill, intent[i].level), At(p, "mcancel"), End(p, "kept"),
             At(p, "mfind"))
    BY <1>9 DEF MovePlace
  <2>2. /\ Carries(p, At(p, "mfind"))
        /\ \A q : /\ Carries(p, Answer(At(p, "mcancel"), q))
                  /\ Answer(At(p, "mcancel"), q).pc = At(p, "mcancel").pc
    BY <1>9, <1>p DEF Carries, Like, MovePlace, Answer
  <2>3. Posting(p, "ms", intent[i].level, At(p, "mcancel"), End(p, "kept"), At(p, "mfind"))
    BY <1>p, <1>5, <2>1, <2>2 DEF Posting
  <2> QED BY <1>0, <1>b, <2>3 DEF RestSteps, StopSteps
<1>a. CASE ExitMarket(p)
  <2>1. Post(p, Request(i, "ex", l[p].fill, 0), At(p, "xcancel"), End(p, "refused"), At(p, "xquery"))
    BY <1>a DEF ExitMarket
  <2>2. Posting(p, "ex", 0, At(p, "xcancel"), End(p, "refused"), At(p, "xquery"))
    BY <1>p, <1>4, <1>5, <2>1 DEF Posting
  <2> QED BY <1>b, <2>2
<1> QED BY <1>6, <1>7, <1>8, <1>9, <1>a
-----------------------------------------------------------------------------
(***************************************************************************)
(* The calm: the taps and the claim.                                       *)
(***************************************************************************)
LEMMA BookCalm ==
    ASSUME NEW p, Listeners = {p}, ExecInv, StatusInv, CalmFacts,
           UNCHANGED <<pos, orders, done, late, sends, inbox>>,
           \A j \in Intents : intent'[j].status # "none" =>
                                  intent[j].status # "none" /\ intent'[j].qty = intent[j].qty,
           \A j \in Intents : GivenUp(j) \/ (j = The(p) /\ Unsure(l[p])) => GivenUp(j)',
           NEW s, l' = [l EXCEPT ![p] = s], s.pc \in Unclaimed \cup {"keys"},
           s.pc = "keys" => \A i : i = The(p)' => done[i].cls = 0 /\ done[i].ex = 0
    PROVE  CalmFacts'
<1>1. l'[p] = s
  BY GoesTo
<1>2. OneSize' /\ UnsentIsClean'
  BY DEF CalmFacts, OneSize, UnsentIsClean, NothingOf
<1>3. LateEntries'
  <2>1. ASSUME NEW x \in late', x.step = "mkt"
        PROVE  done'[x.by].mkt = 0 /\ GivenUp(x.by)'
    <3>1. x \in late /\ x.by \in Intents
      BY <2>1 DEF StatusInv
    <3>2. done[x.by].mkt = 0 /\ (GivenUp(x.by) \/ (x.by = The(p) /\ Unsure(l[p])))
      BY <2>1, <3>1 DEF CalmFacts, LateEntries
    <3> QED BY <3>1, <3>2
  <2> QED BY <2>1 DEF LateEntries
<1>4. Fits(l[p], The(p))'
  <2>1. s.pc \in Unclaimed \cup {"keys"} /\ (s.pc = "keys" => ~(done'[The(p)'].cls > 0 \/ done'[The(p)'].ex > 0))
    OBVIOUS
  <2> QED BY <1>1, <2>1 DEF Fits, Gone, Asking, Filling, Moving, Sized, Bought, Unclaimed
<1> QED BY <1>2, <1>3, <1>4 DEF CalmFacts

LEMMA ListenCalm ==
    ASSUME NEW p, Listeners = {p}, ExecInv, StatusInv, CalmFacts,
           Crash(p) \/ (Listen(p) /\ ~Keys(p))
    PROVE  CalmFacts'
<1> DEFINE i == The(p)
<1>0. /\ UNCHANGED <<pos, orders, done, late, sends, inbox>> /\ ToldShape
      /\ DOMAIN intent = Intents /\ \A j \in Intents : DOMAIN intent[j] = Columns
  BY WorkAlone DEF StatusInv, ToldShape, ExecInv, ClaimInv, BookShape, Work, Listen, Crash, Fetch,
         Store, Swallow, Decline, Replay, Confirm, Expire, Claim, Finish, account, bookVars
<1>1. ASSUME Fetch(p) \/ Store(p) \/ Swallow(p) \/ Replay(p) \/ Confirm(p) \/ Crash(p)
             \/ (Claim(p) /\ ~CanClaim(i))
      PROVE  CalmFacts'
  <2>1. UNCHANGED <<intent, told>>
    BY <1>1 DEF Fetch, Store, Swallow, Replay, Confirm, Crash, Claim, bookVars
  <2>2. PICK s : /\ l' = [l EXCEPT ![p] = s] /\ s.pc \in Unclaimed
                 /\ s.pc = "idle" \/ l[p].pc = "idle"
    <3>1. CASE Fetch(p)
      <4> DEFINE s == [l[p] EXCEPT !.next = offset + 1, !.top = Len(inbox)]
      <4>1. s.pc = "idle" /\ l' = [l EXCEPT ![p] = s]
        BY <3>1 DEF Fetch, Go, ExecInv, ClaimInv, ListenerShape, Fields
      <4> QED BY <4>1 DEF Unclaimed
    <3>2. CASE Store(p) \/ Crash(p)
      BY <3>2, RestShape DEF Store, Crash, Go, Unclaimed
    <3>3. CASE Swallow(p) \/ Replay(p) \/ (Claim(p) /\ ~CanClaim(i))
      BY <3>3, HandledShape DEF Swallow, Replay, Claim, Go, Unclaimed
    <3>4. CASE Confirm(p)
      <4>1. PICK pc \in {"expire", "claim"} : l' = [l EXCEPT ![p] = At(p, pc)] /\ l[p].pc = "idle"
        BY <3>4 DEF Confirm, Go, Due
      <4>2. At(p, pc).pc = pc
        BY Places
      <4> QED BY <4>1, <4>2 DEF Unclaimed
    <3> QED BY <1>1, <3>1, <3>2, <3>3, <3>4
  <2>3. \A j \in Intents : GivenUp(j) \/ (j = i /\ Unsure(l[p])) => GivenUp(j)'
    <3>1. ~Past(p)'
      BY <2>2, GoesTo DEF Past
    <3>2. Unsure(l[p]) => intent[i].status = "confirmed"
      BY DEF Unsure, Asking, StatusInv, Past, Unclaimed
    <3> QED BY <2>1, <3>1, <3>2 DEF GivenUp, Held
  <2>4. s.pc # "keys"
    BY <2>2 DEF Unclaimed
  <2> QED BY <1>0, <2>1, <2>2, <2>3, <2>4, BookCalm
<1>2. ASSUME Decline(p) \/ Expire(p) \/ Finish(p) PROVE CalmFacts'
  <2>1. PICK s : l' = [l EXCEPT ![p] = s] /\ s.pc = "idle"
    BY <1>2, HandledShape DEF Decline, Expire, Finish, Go
  <2>2. /\ l[p].pc \in {"idle", "expire", "finish"} /\ i \in Intents
        /\ \/ intent' = intent /\ told' = told /\ l[p].pc = "idle"
           \/ \E status, text :
                /\ intent' = [intent EXCEPT ![i].status = status]
                /\ told' = [told EXCEPT ![i] = text] \/ (told' = told /\ text = told[i])
                /\ intent[i].status # "none"
                /\ \/ l[p].pc # "finish" /\ intent[i].status \in {"preview", "expired"}
                   \/ l[p].pc = "finish" /\ intent[i].status = "confirmed" /\ text = l[p].text
    <3>1. CASE Decline(p)
      <4>1. l[p].pc = "idle" /\ l[p].next <= l[p].top
        BY <3>1 DEF Decline, Due
      <4>2. i \in Intents
        BY <4>1, TapTyped DEF ExecInv
      <4> QED BY <3>1, <4>1, <4>2 DEF Decline
    <3>2. CASE Expire(p)
      <4>1. l[p].pc = "expire" /\ intent[i].status \in {"preview", "expired"}
        BY <3>2 DEF Expire, StatusInv
      <4> QED BY <3>2, <4>1, BusyTap DEF Expire
    <3>3. CASE Finish(p)
      <4>1. l[p].pc = "finish" /\ intent[i].status = "confirmed"
        BY <3>3 DEF Finish, StatusInv, Past, Unclaimed
      <4> QED BY <3>3, <4>1, BusyTap DEF Finish
    <3> QED BY <1>2, <3>1, <3>2, <3>3
  <2>3. ~Past(p)' /\ ~Past(p)' /\ s.pc \in Unclaimed /\ s.pc # "keys"
    BY <2>1, GoesTo DEF Past, Unclaimed
  <2>4. CASE intent' = intent /\ told' = told /\ l[p].pc = "idle"
    <3>1. \A j \in Intents : GivenUp(j) \/ (j = i /\ Unsure(l[p])) => GivenUp(j)'
      BY <2>3, <2>4 DEF GivenUp, Held, Unsure, Asking
    <3> QED BY <1>0, <2>1, <2>3, <2>4, <3>1, BookCalm
  <2>5. ASSUME NEW status, NEW text, intent' = [intent EXCEPT ![i].status = status],
               told' = [told EXCEPT ![i] = text] \/ (told' = told /\ text = told[i]),
               intent[i].status # "none",
               \/ l[p].pc # "finish" /\ intent[i].status \in {"preview", "expired"}
               \/ l[p].pc = "finish" /\ intent[i].status = "confirmed" /\ text = l[p].text
        PROVE  CalmFacts'
    <3>1. \A j \in Intents : intent'[j] = IF j = i THEN [intent[i] EXCEPT !.status = status]
                                                   ELSE intent[j]
      BY <1>0, <2>5
    <3>2. \A j \in Intents : intent'[j].qty = intent[j].qty
                             /\ intent'[j].status = IF j = i THEN status ELSE intent[j].status
      BY <1>0, <3>1 DEF Columns
    <3>3. \A j \in Intents : told'[j] = IF j = i THEN text ELSE told[j]
      BY <1>0, <2>2, <2>5 DEF ToldShape
    <3>4. ASSUME NEW j \in Intents, GivenUp(j) \/ (j = i /\ Unsure(l[p])) PROVE GivenUp(j)'
      <4>1. CASE j # i
        <5>1. GivenUp(j)
          BY <3>4, <4>1
        <5> QED BY <2>3, <3>2, <3>3, <4>1, <5>1 DEF GivenUp, Held
      <4>2. CASE j = i
        <5>1. told[i] \notin {"failed", "check"}
          BY <2>2, <2>5 DEF StatusInv
        <5>2. intent[i].status = "confirmed" => Held(i)
          BY <2>2, <2>5 DEF Held, Past, Unclaimed
        <5>3. Unsure(l[p])
          BY <3>4, <4>2, <5>1, <5>2 DEF GivenUp
        <5>4. text \in {"failed", "check"}
          BY <2>2, <2>5, <5>3 DEF Unsure, Asking
        <5> QED BY <3>3, <4>2, <5>4 DEF GivenUp
      <4> QED BY <4>1, <4>2
    <3>5. \A j \in Intents : intent'[j].status # "none" =>
                                  intent[j].status # "none" /\ intent'[j].qty = intent[j].qty
      BY <2>5, <3>2
    <3> QED BY <1>0, <2>1, <2>3, <3>4, <3>5, BookCalm
  <2> QED BY <2>2, <2>4, <2>5
<1>3. ASSUME Claim(p), CanClaim(i) PROVE CalmFacts'
  <2>1. /\ l' = [l EXCEPT ![p] = At(p, "keys")] /\ intent[i].status = "preview" /\ told' = told
        /\ intent' = [intent EXCEPT ![i].status = "confirmed", ![i].aged = FALSE] /\ l[p].pc = "claim"
    BY <1>3 DEF Claim, CanClaim, Go
  <2>2. Same(p, At(p, "keys")) /\ At(p, "keys").pc = "keys"
    BY Places DEF Like
  <2>3. l'[p].pc = "keys" /\ The(p)' = i /\ i \in Intents
    BY <1>0, <2>1, <2>2, GoesTo, SameTap, BusyTap
  <2>4. \A j \in Intents : intent'[j] = IF j = i THEN [intent[i] EXCEPT !.status = "confirmed", !.aged = FALSE]
                                                 ELSE intent[j]
    BY <1>0, <2>1
  <2>5. \A j \in Intents : intent'[j].qty = intent[j].qty
                           /\ intent'[j].status = IF j = i THEN "confirmed" ELSE intent[j].status
    BY <1>0, <2>4 DEF Columns
  <2>6. ASSUME NEW j \in Intents, GivenUp(j) \/ (j = i /\ Unsure(l[p])) PROVE GivenUp(j)'
    <3>1. GivenUp(j)
      BY <2>1, <2>6 DEF Unsure, Asking
    <3>2. CASE told[j] \in {"failed", "check"}
      BY <2>1, <3>2 DEF GivenUp
    <3>3. CASE intent[j].status = "confirmed"
      BY <2>1, <2>3, <2>5, <3>3 DEF GivenUp, Held
    <3> QED BY <3>1, <3>2, <3>3 DEF GivenUp
  <2>7. done[i].cls = 0 /\ done[i].ex = 0
    <3>1. i \notin won
      BY <2>1 DEF ExecInv, ClaimInv, WonIsUsed
    <3>2. sends[i] = 0
      BY <2>3, <3>1 DEF ExecInv, ClaimInv, SentIsWon
    <3> QED BY <2>3, <3>2 DEF CalmFacts, UnsentIsClean, NothingOf
  <2>8. PICK s : s = At(p, "keys") OBVIOUS
  <2>9. l' = [l EXCEPT ![p] = s] /\ s.pc = "keys"
    BY <2>1, <2>2, <2>8
  <2>a. \A j \in Intents : intent'[j].status # "none" =>
                                  intent[j].status # "none" /\ intent'[j].qty = intent[j].qty
    BY <2>1, <2>5
  <2>b. \A k : k = The(p)' => done[k].cls = 0 /\ done[k].ex = 0
    BY <2>3, <2>7
  <2> QED BY <1>0, <2>6, <2>9, <2>a, <2>b, BookCalm
<1> QED BY <1>1, <1>2, <1>3 DEF Listen
-----------------------------------------------------------------------------
(***************************************************************************)
(* The calm: around the listener.                                          *)
(***************************************************************************)
LEMMA BesideCalm ==
    ASSUME NEW p, Listeners = {p}, ExecInv, StatusInv, CalmFacts,
           l' = l, l[p].pc # "idle" => The(p)' = The(p), UNCHANGED <<sends, told>>,
           \A j \in Intents : intent[j].status = "confirmed" => intent'[j].status = "confirmed",
           late' \subseteq late,
           \A x \in late' : x.step = "mkt" => done'[x.by].mkt = 0,
           OneSize', UnsentIsClean',
           l[p].pc # "idle" => \A i : i = The(p) => Fits(l[p], i)'
    PROVE  CalmFacts'
<1>1. \A j : Held(j)' <=> Held(j)
  BY DEF Held, Past, Unclaimed
<1>2. LateEntries'
  <2>1. ASSUME NEW x \in late', x.step = "mkt"
        PROVE  GivenUp(x.by)' \/ (The(p)' = x.by /\ Unsure(l'[p]))
    <3>1. x.by \in Intents /\ (GivenUp(x.by) \/ (The(p) = x.by /\ Unsure(l[p])))
      BY <2>1 DEF CalmFacts, LateEntries, StatusInv
    <3>2. GivenUp(x.by) => GivenUp(x.by)'
      BY <1>1, <3>1 DEF GivenUp
    <3>3. Unsure(l[p]) => l[p].pc # "idle"
      BY DEF Unsure, Asking
    <3> QED BY <3>1, <3>2, <3>3
  <2> QED BY <2>1 DEF LateEntries
<1>3. Fits(l[p], The(p))'
  <2>1. CASE l[p].pc = "idle"
    <3>1. l'[p].pc = "idle"
      BY <2>1
    <3> QED BY <3>1 DEF Fits, Gone, Asking, Filling, Moving, Sized, Bought, Unclaimed
  <2>2. CASE l[p].pc # "idle"
    <3>1. PICK i : i = The(p) OBVIOUS
    <3>2. Fits(l[p], i)' /\ The(p)' = i
      BY <2>2, <3>1
    <3> QED BY <3>2
  <2> QED BY <2>1, <2>2
<1> QED BY <1>2, <1>3 DEF CalmFacts

LEMMA TriggerCalm ==
    ASSUME NEW p, Listeners = {p}, ExecInv, StatusInv, CalmFacts, NEW o \in orders, Trigger(o)
    PROVE  CalmFacts'
<1>0. /\ Size \in Nat /\ Size > 0 /\ pos.qty \in {0, Size} /\ o.qty = Size
      /\ pos \in [qty : Nat, gen : Nat]
  BY CalmNumbers DEF CalmFacts, OneSize, ExecInv, AccountTyped
<1>1. /\ orders' \subseteq orders /\ l' = l
      /\ UNCHANGED <<intent, told, sends, done, late, inbox>>
  BY DEF Trigger, bookVars, inboxVars
<1>2. pos'.qty = 0
  <2>1. pos' = [pos EXCEPT !.qty = pos.qty - Least(pos.qty, o.qty)]
    BY DEF Trigger
  <2>2. pos.qty - Least(pos.qty, o.qty) = 0
    BY <1>0 DEF Least
  <2> QED BY <1>0, <2>1, <2>2
<1>3. The(p)' = The(p)
  BY <1>1 DEF The, Tap
<1>4. OneSize' /\ UnsentIsClean'
  BY <1>1, <1>2 DEF CalmFacts, OneSize, UnsentIsClean, NothingOf
<1>5. ASSUME NEW i, i = The(p), l[p].pc # "idle" PROVE Fits(l[p], i)'
  <2>1. Fits(l[p], i) /\ (l[p].pc \in Asking => 0 <= done[i].mkt)
    <3>1. i \in Intents
      BY <1>5, BusyTap
    <3> QED BY <1>0, <1>5, <3>1, CalmNumbers DEF CalmFacts
  <2> QED BY <1>1, <1>2, <2>1 DEF Fits
<1>6. \A x \in late' : x.step = "mkt" => done'[x.by].mkt = 0
  BY <1>1 DEF CalmFacts, LateEntries
<1> QED BY <1>1, <1>3, <1>4, <1>5, <1>6, BesideCalm

\* A late entry is carried out in the calm only while its listener asks for it.
LEMMA LandCalm ==
    ASSUME NEW p, Listeners = {p}, ExecInv, StatusInv, CalmFacts, ~Thin, strays' = {},
           NEW r \in late, Land(r)
    PROVE  CalmFacts'
<1>0. /\ Size \in Nat /\ Size > 0 /\ pos.qty \in {0, Size} /\ r.qty = Size /\ r \in Requests
      /\ r.by \in Intents /\ sends[r.by] # 0
      /\ done \in [Intents -> [mkt : Nat, cls : Nat, ex : Nat]]
  BY CalmNumbers
     DEF CalmFacts, OneSize, StatusInv, UnsentIsClean, NothingOf, ExecInv, AccountTyped
<1>1. late' = late \ {r} /\ l' = l /\ UNCHANGED <<intent, told, sends, inbox>>
  BY DEF Land, bookVars, inboxVars
<1>3. The(p)' = The(p) /\ (l[p].pc # "idle" => The(p) \in Intents)
  BY <1>1, BusyTap DEF The, Tap
<1>f. Fits(l[p], The(p)) /\ OneSize /\ UnsentIsClean /\ LateEntries
  BY DEF CalmFacts
<1>4. CASE Nothing
  <2>1. OneSize' /\ UnsentIsClean'
    BY <1>1, <1>4, <1>f DEF Nothing, OneSize, UnsentIsClean, NothingOf
  <2>2. ASSUME NEW i, i = The(p) PROVE Fits(l[p], i)'
    BY <1>1, <1>4, <1>f, <2>2 DEF Nothing, Fits
  <2>3. \A x \in late' : x.step = "mkt" => done'[x.by].mkt = 0
    BY <1>1, <1>4, <1>f DEF Nothing, LateEntries
  <2> QED BY <1>1, <1>3, <2>1, <2>2, <2>3, BesideCalm
<1>5. ASSUME NEW q \in Fills(r), Execute(r, q) PROVE CalmFacts'
  <2>0. /\ r.step = "mkt" =>
             /\ pos'.qty = pos.qty + Size /\ orders' = orders /\ done'[r.by].mkt = Size
             /\ done'[r.by].cls = done[r.by].cls /\ done'[r.by].ex = done[r.by].ex
        /\ r.step \in {"cls", "ex"} =>
             pos'.qty = 0 /\ orders' = orders /\ done'[r.by].mkt = done[r.by].mkt
        /\ r.step \in RestSteps =>
             pos' = pos /\ orders' = orders \cup {r} /\ done' = done
        /\ \A j \in Intents : j # r.by => done'[j] = done[j]
    BY <1>0, <1>5, Executed
  <2>1. CASE r.step = "mkt"
    <3>1. l[p].pc \in Asking /\ The(p) = r.by /\ done[r.by].mkt = 0 /\ pos.qty = 0
      <4>1. Asks(p, r.by)
        <5>1. CASE Nothing
          <6>1. pos' = pos
            BY <5>1 DEF Nothing
          <6> QED BY <1>0, <2>0, <2>1, <6>1
        <5>2. CASE strays' = IF r.step = "mkt" /\ ~\E a \in Listeners : Asks(a, r.by)
                             THEN strays \cup {r.by} ELSE strays
          BY <2>1, <5>2
        <5> QED BY <5>1, <5>2 DEF Land
      <4>2. done[r.by].mkt = 0
        BY <1>f, <2>1 DEF LateEntries
      <4> QED BY <1>0, <1>f, <4>1, <4>2 DEF Asks, Asking, Fits
    <3>2. \A x \in late' : x.step = "mkt" => x.by # r.by
      <4>1. ASSUME NEW x \in late, x.step = "mkt", x.by = r.by PROVE x = r
        <5>1. x \in Requests /\ x.qty = Size /\ x.level = 0 /\ r.qty = Size /\ r.level = 0
          BY <1>f, <2>1, <4>1 DEF OneSize, ExecInv, AccountTyped
        <5> QED BY <1>0, <2>1, <4>1, <5>1 DEF Requests
      <4> QED BY <1>1, <4>1
    <3>3. OneSize' /\ UnsentIsClean'
      BY <1>0, <1>1, <1>f, <2>0, <2>1, <3>1 DEF OneSize, UnsentIsClean, NothingOf
    <3>4. ASSUME NEW i, i = The(p) PROVE Fits(l[p], i)'
      <4>1. l[p].pc \notin Gone \cup Moving \cup {"filled"} \cup Sized /\ l[p].pc # "mcancel"
        BY <3>1 DEF Asking, Gone, Moving, Sized, Filling
      <4>2. done[i].cls = 0 /\ done[i].ex = 0 /\ \A x \in late : x.by = i => x.step = "mkt"
        BY <1>f, <3>1, <3>4 DEF Fits
      <4>3. pos'.qty = Size /\ done'[i].mkt = Size /\ done'[i].cls = 0 /\ done'[i].ex = 0
        BY <1>0, <2>0, <2>1, <3>1, <3>4, <4>2
      <4> QED BY <1>0, <1>1, <1>f, <3>4, <4>1, <4>2, <4>3 DEF Fits
    <3>5. \A x \in late' : x.step = "mkt" => done'[x.by].mkt = 0
      <4>1. ASSUME NEW x \in late', x.step = "mkt" PROVE done'[x.by].mkt = 0
        <5>1. x \in late /\ x.by \in Intents /\ x.by # r.by
          BY <1>1, <3>2, <4>1 DEF StatusInv
        <5> QED BY <1>f, <2>0, <4>1, <5>1 DEF LateEntries
      <4> QED BY <4>1
    <3> QED BY <1>1, <1>3, <3>3, <3>4, <3>5, BesideCalm
  <2>2. CASE r.step \in {"cls", "ex"}
    <3>1. l[p].pc \in Asking => The(p) # r.by
      BY <1>f, <2>2 DEF Fits
    <3>2. \A j \in Intents : done'[j].mkt = done[j].mkt
      BY <2>0, <2>2
    <3>3. OneSize' /\ UnsentIsClean'
      BY <1>0, <1>1, <1>f, <2>0, <2>2, <3>2 DEF OneSize, UnsentIsClean, NothingOf
    <3>4. ASSUME NEW i, i = The(p), l[p].pc # "idle" PROVE Fits(l[p], i)'
      <4>1. pos'.qty = 0 /\ i \in Intents /\ Fits(l[p], i)
        BY <1>3, <1>f, <2>0, <2>2, <3>4
      <4>2. l[p].pc \in Asking => /\ 0 <= done'[i].mkt /\ done'[i].cls = 0 /\ done'[i].ex = 0
                                  /\ \A x \in late' : x.by = i => x.step = "mkt"
        <5>1. ASSUME l[p].pc \in Asking PROVE i # r.by
          BY <3>1, <3>4, <5>1
        <5> QED BY <1>0, <1>1, <2>0, <3>2, <4>1, <5>1 DEF Fits
      <4>3. l'[p] = l[p] /\ sends' = sends
        BY <1>1
      <4> QED BY <4>1, <4>2, <4>3 DEF Fits
    <3>5. \A x \in late' : x.step = "mkt" => done'[x.by].mkt = 0
      BY <1>1, <1>f, <3>2 DEF LateEntries, StatusInv
    <3> QED BY <1>1, <1>3, <3>3, <3>4, <3>5, BesideCalm
  <2>3. CASE r.step \in RestSteps
    <3>1. OneSize' /\ UnsentIsClean'
      BY <1>0, <1>1, <1>f, <2>0, <2>3 DEF OneSize, UnsentIsClean, NothingOf
    <3>2. ASSUME NEW i, i = The(p) PROVE Fits(l[p], i)'
      BY <1>1, <1>f, <2>0, <2>3, <3>2 DEF Fits, Rests
    <3>3. \A x \in late' : x.step = "mkt" => done'[x.by].mkt = 0
      BY <1>1, <1>f, <2>0, <2>3 DEF LateEntries
    <3> QED BY <1>1, <1>3, <3>1, <3>2, <3>3, BesideCalm
  <2> QED BY <1>0, <2>1, <2>2, <2>3 DEF Requests
<1> QED BY <1>4, <1>5 DEF Land

LEMMA OutsideCalm ==
    ASSUME NEW p, Listeners = {p}, ExecInv, StatusInv, CalmFacts, ~Thin, Calm',
           Outside \/ \E i \in Intents, kind \in Kinds : Offer(i, kind, pos)
    PROVE  CalmFacts'
<1>0. l' = l /\ (l[p].pc # "idle" => The(p)' = The(p))
  BY TapStays
<1>1. ASSUME UNCHANGED <<pos, orders, done, late, sends, told>>,
             \A j \in Intents : intent[j].status = "confirmed" => intent'[j].status = "confirmed",
             \A j \in Intents : intent'[j].status # "none" => intent'[j].qty = Size
      PROVE  CalmFacts'
  <2>1. OneSize' /\ UnsentIsClean'
    BY <1>1 DEF CalmFacts, OneSize, UnsentIsClean, NothingOf
  <2>2. ASSUME NEW i, i = The(p) PROVE Fits(l[p], i)'
    BY <1>0, <1>1, <2>2 DEF CalmFacts, Fits
  <2>3. \A x \in late' : x.step = "mkt" => done'[x.by].mkt = 0
    BY <1>1 DEF CalmFacts, LateEntries
  <2> QED BY <1>0, <1>1, <2>1, <2>2, <2>3, BesideCalm
<1>2. ASSUME NEW i \in Intents, Age(i) PROVE CalmFacts'
  <2>1. /\ intent' = [intent EXCEPT ![i].aged = TRUE]
        /\ UNCHANGED <<pos, orders, done, late, sends, told>>
    BY <1>2 DEF Age, account
  <2>2. \A j \in Intents : intent'[j].status = intent[j].status /\ intent'[j].qty = intent[j].qty
    BY <2>1 DEF ExecInv, ClaimInv, BookShape, Columns
  <2> QED BY <1>1, <2>1, <2>2 DEF CalmFacts, OneSize
<1>3. ASSUME NEW i \in Intents, NEW say, Press(i, say) PROVE CalmFacts'
  <2>1. UNCHANGED <<intent, pos, orders, done, late, sends, told>>
    BY <1>3 DEF Press, account, bookVars
  <2> QED BY <1>1, <2>1 DEF CalmFacts, OneSize
<1>4. ASSUME NEW i \in Intents, NEW kind \in Kinds, Offer(i, kind, pos) PROVE CalmFacts'
  <2>1. /\ UNCHANGED <<pos, orders, done, late, sends, told>> /\ intent[i].status = "none"
        /\ IF kind = "entry" THEN TRUE ELSE pos.qty > 0
    BY <1>4 DEF Offer, account, NoIntent
  <2>2. PICK level : intent' = [intent EXCEPT ![i] =
            [kind |-> kind, status |-> "preview", aged |-> FALSE, level |-> level,
             qty |-> IF kind = "entry" THEN Size ELSE pos.qty, gen |-> pos.gen]]
    BY <1>4 DEF Offer
  <2>3. \A j \in Intents : j # i => intent'[j] = intent[j]
    BY <2>2 DEF ExecInv, ClaimInv, BookShape
  <2>4. intent'[i].qty = Size
    <3>1. intent'[i].qty = IF kind = "entry" THEN Size ELSE pos.qty
      BY <2>2 DEF ExecInv, ClaimInv, BookShape
    <3>2. Size \in Nat /\ Size > 0 /\ pos.qty \in {0, Size}
      BY CalmNumbers
    <3> QED BY <2>1, <3>1, <3>2
  <2> QED BY <1>1, <2>1, <2>3, <2>4 DEF CalmFacts, OneSize
<1>5. CASE ByHand
  <2>1. manual' # 0
    BY <1>5 DEF ByHand, StatusInv
  <2> QED BY <2>1 DEF Calm
<1> QED BY <1>2, <1>3, <1>4, <1>5, TriggerCalm, LandCalm DEF Outside, Calm

LEMMA CalmStep ==
    ASSUME NEW p, Listeners = {p}, ExecInv, StatusInv, CalmInv, ~Thin, [Next]_vars
    PROVE  CalmInv'
<1> SUFFICES ASSUME Calm' PROVE CalmFacts'
  BY DEF CalmInv
<1>1. CalmFacts
  BY CalmBefore DEF CalmInv
<1>2. CASE Crash(p) \/ Listen(p)
  BY <1>1, <1>2, ListenCalm, OtherReadsCalm
<1>3. CASE Entry(p)
  BY <1>1, <1>3, EntryReadsCalm, CancelsCalm, MarketCalm, LaterPostsCalm DEF Entry
<1>4. CASE Move(p) \/ Exit(p)
  BY <1>1, <1>4, OtherReadsCalm, CancelsCalm, LaterPostsCalm DEF Move, Exit
<1>5. CASE Outside \/ \E i \in Intents, kind \in Kinds : Offer(i, kind, pos)
  BY <1>1, <1>5, OutsideCalm
<1>6. CASE UNCHANGED vars
  <2>1. UNCHANGED <<intent, told, sends, inbox, l, pos, orders, done, late>>
    BY <1>6 DEF vars, bookVars, inboxVars, account
  <2> QED BY <1>1, <2>1 DEF CalmFacts, OneSize, UnsentIsClean, NothingOf, LateEntries, Fits,
                            GivenUp, Held, Unsure, Past, The, Tap
<1> QED BY <1>2, <1>3, <1>4, <1>5, <1>6 DEF Next, Work
-----------------------------------------------------------------------------
(***************************************************************************)
(* One stop covers, and stops stay with the position they were placed for. *)
(***************************************************************************)
LEMMA StopCovers ==
    ASSUME NEW S \in SUBSET Requests, IsFiniteSet(S), NEW o \in Stops(S), NEW qty \in Nat, o.qty >= qty
    PROVE  Coverage(S, qty, 1) = "full"
<1> DEFINE f == [x \in Stops(S) |-> x.qty]
<1>1. IsFiniteSet(Stops(S)) /\ \A x \in Stops(S) : f[x] = x.qty /\ f[x] \in Nat
  BY FS_Subset DEF Stops, Requests
<1>2. f[o] = o.qty /\ f[o] \in Nat
  BY <1>1
<1>3. CoveredQty(S) = SumFunctionOnSet(f, Stops(S))
  BY DEF CoveredQty
<1> HIDE DEF f
<1>4. SumFunctionOnSet(f, {o}) = o.qty
  <2>1. SumFunctionOnSet(f, {} \cup {o}) = SumFunctionOnSet(f, {}) + f[o]
    <3>1. PICK e : e = {}
      OBVIOUS
    <3>2. IsFiniteSet(e) /\ o \notin e /\ f[o] \in Int /\ \A y \in e : f[y] \in Int
      BY <1>2, <3>1, FS_EmptySet
    <3>3. SumFunctionOnSet(f, e \cup {o}) = SumFunctionOnSet(f, e) + f[o]
      BY <3>2, SumAdd
    <3> QED BY <3>1, <3>3
  <2>2. {} \cup {o} = {o}
    OBVIOUS
  <2> QED BY <1>2, <2>1, <2>2, SumEmpty
<1>5. /\ CoveredQty(S) \in Nat /\ SumFunctionOnSet(f, {o}) <= CoveredQty(S)
  BY <1>1, <1>3, SumMore
<1> QED BY <1>2, <1>4, <1>5 DEF Coverage

LEMMA OneStopCovers ==
    ASSUME ExecInv, CalmFacts, pos.qty > 0
    PROVE  Bare <=> Stops(orders) = {}
<1>1. CASE Stops(orders) = {}
  BY <1>1 DEF Bare, Coverage
<1>2. ASSUME NEW o \in Stops(orders) PROVE ~Bare
  <2>1. /\ o.qty = Size /\ pos.qty \in Nat /\ pos.qty = Size
        /\ orders \in SUBSET Requests /\ IsFiniteSet(orders)
    BY CalmNumbers DEF CalmFacts, OneSize, Stops, ExecInv, AccountTyped
  <2>2. o.qty >= pos.qty
    BY <2>1
  <2> QED BY <2>1, <2>2, StopCovers DEF Bare
<1> QED BY <1>1, <1>2

LEMMA PostKeepsOrders ==
    ASSUME NEW p, NEW r, NEW a, NEW b, NEW c, Post(p, r, a, b, c)
    PROVE  orders \subseteq orders'
BY DEF Post, Execute, Nothing

\* Of two stops of an entry one is the second.
LEMMA TwoStops ==
    ASSUME ExecInv, CalmFacts, NEW i, NEW M,
           M = {o \in orders : o.by = i /\ o.step \in {"sl0", "sl1"}}, Cardinality(M) = 2
    PROVE  \E o \in M : o.step = "sl0"
<1> SUFFICES ASSUME \A o \in M : o.step = "sl1" PROVE FALSE
  OBVIOUS
<1>1. \A x, y \in M : x = y
  <2>1. ASSUME NEW x \in M, NEW y \in M PROVE x = y
    <3>1. x \in Requests /\ y \in Requests
      BY DEF ExecInv, AccountTyped
    <3>2. x.step = y.step /\ x.by = y.by /\ x.qty = y.qty /\ x.level = y.level
      BY DEF CalmFacts, OneSize
    <3> QED BY <3>1, <3>2 DEF Requests
  <2> QED BY <2>1
<1>2. M # {}
  BY FS_EmptySet
<1>3. PICK x : M = {x}
  <2>1. PICK x \in M : TRUE BY <1>2
  <2>2. M = {x} BY <1>1, <2>1
  <2> QED BY <2>2
<1>4. Cardinality({x}) = 1
  BY FS_Singleton
<1>5. Cardinality(M) = 1
  BY <1>3, <1>4
<1> QED BY <1>5

LEMMA StopsStay ==
    ASSUME NEW p, Listeners = {p}, ExecInv, StatusInv, CalmFacts, [Next]_vars,
           pos' = pos, pos.qty > 0, Stops(orders) # {}
    PROVE  Stops(orders) \cap Stops(orders') # {}
<1> DEFINE i == The(p)
<1>0. Fits(l[p], i) /\ Size \in Nat /\ Size > 0 /\ pos.qty = Size
  BY CalmNumbers DEF CalmFacts
<1>1. CASE orders \subseteq orders'
  BY <1>1 DEF Stops
<1>2. ASSUME NEW o \in orders, Trigger(o) PROVE FALSE
  <2>1. o.qty = Size /\ pos \in [qty : Nat, gen : Nat]
    BY DEF CalmFacts, OneSize, ExecInv, AccountTyped
  <2>2. pos'.qty = pos.qty - Least(pos.qty, o.qty)
    BY <1>2, <2>1 DEF Trigger
  <2> QED BY <1>0, <2>1, <2>2 DEF Least
<1>3. CASE ClearStale(p) \/ Orphans(p) \/ ExitCancel(p)
  BY <1>0, <1>3 DEF ClearStale, Orphans, ExitCancel, Fits, Gone
<1>4. CASE ConfirmStop(p)
  <2> DEFINE mine == {o \in orders : o.by = i /\ o.step \in {"sl0", "sl1"}}
  <2>1. CASE orders' = orders
    BY <1>1, <2>1
  <2>2. CASE Cardinality(mine) = 2 /\ CancelAll({o \in mine : o.step = "sl1"})
    <3>1. PICK o \in mine : o.step = "sl0"
      BY <2>2, TwoStops
    <3>2. o \in orders'
      BY <2>2, <3>1, CancelKeeps
    <3> QED BY <3>1, <3>2 DEF Stops, StopSteps
  <2> QED BY <1>4, <2>1, <2>2 DEF ConfirmStop
<1>5. CASE MoveCancel(p)
  <2>1. PICK o \in orders : o.by = i /\ o.step = "ms" /\ o \notin l[p].olds
    BY <1>0, <1>5 DEF MoveCancel, Fits, Moving, Rests
  <2>2. o \in orders'
    BY <1>5, <2>1, CancelKeeps DEF MoveCancel
  <2> QED BY <2>1, <2>2 DEF Stops, StopSteps
<1>6. CASE Listen(p) \/ Crash(p)
  <2>1. orders' = orders
    BY <1>6 DEF Listen, Crash, Fetch, Store, Swallow, Decline, Replay, Confirm, Expire, Claim,
                Keys, Finish, account
  <2> QED BY <1>1, <2>1
<1>7. CASE PlaceStop(p) \/ CloseSend(p) \/ PlaceTP(p) \/ MovePlace(p) \/ ExitMarket(p) \/ Market(p)
  <2>1. orders \subseteq orders'
    BY <1>7, PostKeepsOrders DEF PlaceStop, CloseSend, PlaceTP, MovePlace, ExitMarket, Market
  <2> QED BY <1>1, <2>1
<1>8. CASE \/ EntryGuards(p) \/ Margin(p) \/ MarketQuery(p) \/ MarketPosition(p) \/ Filled(p)
           \/ WouldTrigger(p) \/ FindStop(p) \/ CloseQuery(p) \/ CloseCheck(p) \/ Link(p)
  <2>1. orders' = orders
    BY <1>8 DEF EntryGuards, Margin, MarketQuery, MarketPosition, Filled, WouldTrigger, FindStop,
                CloseQuery, CloseCheck, Link, account
  <2> QED BY <1>1, <2>1
<1>9. CASE \/ MoveRead(p) \/ MoveOrders(p) \/ MoveFind(p) \/ ExitRead(p) \/ ExitQuery(p)
           \/ ExitPosition(p)
  <2>1. orders' = orders
    BY <1>9 DEF MoveRead, MoveOrders, MoveFind, ExitRead, ExitQuery, ExitPosition, account
  <2> QED BY <1>1, <2>1
<1>a. CASE Outside \/ \E j \in Intents, kind \in Kinds : Offer(j, kind, pos)
  <2>1. (\E o \in orders : Trigger(o)) \/ orders \subseteq orders'
    <3>1. ASSUME NEW j \in Intents, NEW say, NEW kind, Age(j) \/ Press(j, say) \/ Offer(j, kind, pos)
          PROVE  orders' = orders
      BY <3>1 DEF Age, Press, Offer, account
    <3>2. ASSUME NEW r \in late, Land(r) PROVE orders \subseteq orders'
      BY <3>2 DEF Land, Execute, Nothing
    <3>3. CASE ByHand
      BY <3>3 DEF ByHand
    <3> QED BY <1>a, <3>1, <3>2, <3>3 DEF Outside
  <2> QED BY <1>1, <1>2, <2>1
<1>b. CASE UNCHANGED vars
  BY <1>1, <1>b DEF vars, account
<1>c. CASE Entry(p)
  BY <1>c, <1>3, <1>4, <1>7, <1>8 DEF Entry
<1>d. CASE Move(p) \/ Exit(p)
  BY <1>d, <1>3, <1>5, <1>7, <1>9 DEF Move, Exit
<1> QED BY <1>6, <1>a, <1>b, <1>c, <1>d DEF Next, Work

LEMMA CoverStays ==
    ASSUME NEW p, Listeners = {p}, ExecInv, ExecInv', StatusInv, CalmInv, [Next]_vars,
           pos' = pos, pos.qty > 0, ~Bare, manual = 0, strays = {}
    PROVE  ~Bare'
<1>1. CalmFacts
  BY DEF CalmInv, Calm
<1>2. PICK o \in Stops(orders) : o \in Stops(orders')
  BY <1>1, OneStopCovers, StopsStay
<1>3. /\ o.qty = Size /\ pos.qty \in Nat /\ pos.qty = Size
      /\ orders' \in SUBSET Requests /\ IsFiniteSet(orders')
  BY <1>1, CalmNumbers DEF CalmFacts, OneSize, Stops, ExecInv, AccountTyped
<1>4. Coverage(orders', pos.qty, 1) = "full"
  BY <1>2, <1>3, StopCovers
<1> QED BY <1>4 DEF Bare
-----------------------------------------------------------------------------
(***************************************************************************)
(* What was reported stays reported.                                       *)
(***************************************************************************)
Bookings(p) == Fetch(p) \/ Store(p) \/ Swallow(p) \/ Decline(p) \/ Replay(p) \/ Confirm(p)
               \/ Expire(p) \/ Claim(p) \/ Finish(p) \/ Crash(p)
Posts(p) == Market(p) \/ PlaceStop(p) \/ CloseSend(p) \/ PlaceTP(p) \/ MovePlace(p) \/ ExitMarket(p)

\* The rest of a listener's steps: the account may lose orders and nothing else.
LEMMA OnlyPostsAct ==
    ASSUME NEW p, Work(p) \/ Crash(p), ~Posts(p)
    PROVE  UNCHANGED <<pos, done, late>> /\ (Bookings(p) => orders' = orders)
<1> USE DEF account
<1>1. CASE Listen(p) \/ Crash(p)
  BY <1>1 DEF Listen, Crash, Fetch, Store, Swallow, Decline, Replay, Confirm, Expire, Claim,
              Keys, Finish
<1>2. CASE Entry(p)
  <2>1. UNCHANGED <<pos, done, late>> /\ l[p].pc \notin Unclaimed \cup {"keys", "finish"}
    <3>1. CASE EntryGuards(p) \/ ClearStale(p) \/ Margin(p) \/ MarketQuery(p) \/ MarketPosition(p)
      BY <3>1 DEF EntryGuards, ClearStale, Margin, MarketQuery, MarketPosition, Unclaimed
    <3>2. CASE Filled(p) \/ WouldTrigger(p) \/ FindStop(p) \/ ConfirmStop(p)
      BY <3>2 DEF Filled, WouldTrigger, FindStop, ConfirmStop, Unclaimed
    <3>3. CASE CloseQuery(p) \/ CloseCheck(p) \/ Orphans(p) \/ Link(p)
      BY <3>3 DEF CloseQuery, CloseCheck, Orphans, Link, Unclaimed
    <3> QED BY <1>2, <3>1, <3>2, <3>3 DEF Entry, Posts
  <2>2. Bookings(p) => orders' = orders
    BY DEF Bookings, Crash, Fetch, Store, Swallow, Decline, Replay, Confirm, Expire, Claim, Finish
  <2> QED BY <2>1, <2>2
<1>3. CASE Move(p) \/ Exit(p)
  <2>1. UNCHANGED <<pos, done, late>>
    BY <1>3 DEF Move, MoveRead, MoveOrders, MoveFind, MoveCancel, Exit, ExitRead, ExitQuery,
                ExitPosition, ExitCancel, Posts
  <2>2. Bookings(p) => orders' = orders
    BY DEF Bookings, Crash, Fetch, Store, Swallow, Decline, Replay, Confirm, Expire, Claim, Finish
  <2> QED BY <2>1, <2>2
<1> QED BY <1>1, <1>2, <1>3 DEF Work

LEMMA BoughtStays ==
    ASSUME ExecInv, StatusInv, ~Thin, [Next]_vars, NEW i \in Intents, done[i].mkt > 0
    PROVE  done'[i].mkt > 0
<1>0. /\ done \in [Intents -> [mkt : Nat, cls : Nat, ex : Nat]]
  BY DEF ExecInv, AccountTyped
<1>1. ASSUME NEW r \in Requests, r.by \in Intents, r.step = "mkt" => r.qty > 0,
             NEW q \in Fills(r), Execute(r, q)
      PROVE  done'[i].mkt > 0
  <2>1. CASE r.step = "mkt"
    <3>1. done' = [done EXCEPT ![r.by]["mkt"] = q] /\ q > 0
      BY <1>1, <2>1 DEF Execute, Fills, RestSteps, StopSteps
    <3> QED BY <1>0, <3>1
  <2>2. CASE r.step \in {"cls", "ex"}
    <3>1. done' = [done EXCEPT ![r.by][r.step] = q]
      BY <1>1, <2>2 DEF Execute, RestSteps, StopSteps
    <3> QED BY <1>0, <2>2, <3>1
  <2>3. CASE r.step \in RestSteps
    BY <1>1, <2>3 DEF Execute
  <2> QED BY <1>1, <2>1, <2>2, <2>3 DEF Requests
<1>2. ASSUME NEW p \in Listeners, Posts(p) PROVE done'[i].mkt > 0
  <2>1. l[p].pc \notin Unclaimed \cup {"idle"}
    BY <1>2 DEF Posts, Market, PlaceStop, CloseSend, PlaceTP, MovePlace, ExitMarket, Unclaimed
  <2>2. The(p) \in Intents /\ intent[The(p)].status = "confirmed" /\ l[p].fill \in Nat
        /\ intent[The(p)].qty \in Nat /\ intent[The(p)].level \in Nat
    BY <2>1, BusyTap DEF StatusInv, Past, ExecInv, RowsTyped, Rows, Counted
  <2>3. PICK step, qty, level :
            LET r == Request(The(p), step, qty, level)
            IN  /\ r \in Requests /\ r.by = The(p) /\ (r.step = "mkt" => r.qty > 0)
                /\ Nothing \/ \E q \in Fills(r) : Execute(r, q)
    <3>1. CASE Market(p)
      <4>1. /\ Request(The(p), "mkt", intent[The(p)].qty, 0) \in Requests
            /\ Request(The(p), "mkt", intent[The(p)].qty, 0).by = The(p)
            /\ Request(The(p), "mkt", intent[The(p)].qty, 0).qty > 0
        BY <2>2 DEF Request, Requests, StatusInv
      <4> QED BY <3>1, <4>1 DEF Market, Post
    <3>2. CASE Posts(p) /\ ~Market(p)
      <4>1. PICK step, qty, level, a, b, c :
                /\ step \in RestSteps \cup {"cls", "ex"} /\ qty \in Nat /\ level \in Nat
                /\ Post(p, Request(The(p), step, qty, level), a, b, c)
        BY <2>2, <3>2 DEF Posts, PlaceStop, CloseSend, PlaceTP, MovePlace, ExitMarket, StopStep,
                          RestSteps, StopSteps
      <4>2. /\ Request(The(p), step, qty, level) \in Requests
            /\ Request(The(p), step, qty, level).by = The(p)
            /\ Request(The(p), step, qty, level).step # "mkt"
        BY <2>2, <4>1 DEF Request, Requests, RestSteps, StopSteps
      <4> QED BY <4>1, <4>2 DEF Post
    <3> QED BY <1>2, <3>1, <3>2
  <2>4. CASE Nothing
    BY <2>4 DEF Nothing
  <2> QED BY <1>1, <2>2, <2>3, <2>4
<1>3. ASSUME NEW p \in Listeners, Work(p) \/ Crash(p), ~Posts(p) PROVE done'[i].mkt > 0
  BY <1>3, OnlyPostsAct
<1>4. CASE Outside \/ \E j \in Intents, kind \in Kinds : Offer(j, kind, pos)
  <2>1. ASSUME NEW r \in late, Land(r) PROVE done'[i].mkt > 0
    <3>1. r \in Requests /\ r.by \in Intents /\ (r.step = "mkt" => r.qty > 0)
      BY DEF StatusInv, ExecInv, AccountTyped
    <3> QED BY <1>1, <2>1, <3>1 DEF Land, Nothing
  <2>2. CASE ~\E r \in late : Land(r)
    <3>1. done' = done
      BY <1>4, <2>2 DEF Outside, Age, Press, Offer, Trigger, ByHand, account
    <3> QED BY <3>1
  <2> QED BY <2>1, <2>2
<1>5. CASE UNCHANGED vars
  BY <1>5 DEF vars, account
<1> QED BY <1>2, <1>3, <1>4, <1>5 DEF Next

LEMMA ReportedStays ==
    ASSUME NEW p, Listeners = {p}, ExecInv, StatusInv, ~Thin, [Next]_vars, Reported
    PROVE  Reported'
<1>1. PICK i \in Intents :
          \/ told[i] \in {"naked", "check"}
          \/ told[i] = "failed" /\ done[i].mkt > 0
          \/ intent[i].status = "confirmed" /\ ~Held(i)
  BY DEF Reported
<1>b. done[i].mkt > 0 => done'[i].mkt > 0
  BY BoughtStays
<1>s. told[i] \in {"naked", "check", "failed"} => intent[i].status \in {"done", "failed"}
  BY DEF StatusInv
<1>t. ToldShape /\ DOMAIN intent = Intents /\ \A j \in Intents : DOMAIN intent[j] = Columns
  BY DEF StatusInv, ToldShape, ExecInv, ClaimInv, BookShape
<1>2. ASSUME told'[i] = told[i], intent'[i].status = intent[i].status, Held(i)' => Held(i)
      PROVE  Reported'
  BY <1>1, <1>b, <1>2 DEF Reported
<1>3. CASE Outside \/ \E j \in Intents, kind \in Kinds : Offer(j, kind, pos)
  <2>1. l' = l /\ (l[p].pc # "idle" => The(p)' = The(p))
    BY <1>3, TapStays
  <2>2. told' = told
    BY <1>3 DEF Outside, Age, Press, Trigger, Land, ByHand, Offer, bookVars
  <2>3. intent'[i].status = intent[i].status
    <3>1. ASSUME NEW j \in Intents, Age(j) PROVE intent'[i].status = intent[i].status
      BY <1>t, <3>1 DEF Age, Columns
    <3>2. ASSUME NEW j \in Intents, NEW kind \in Kinds, Offer(j, kind, pos)
          PROVE  intent'[i].status = intent[i].status
      <4>1. j # i
        BY <1>1, <1>s, <3>2 DEF Offer, NoIntent
      <4> QED BY <1>t, <3>2, <4>1 DEF Offer
    <3>3. CASE \/ \E j \in Intents, say \in {"yes", "no"} : Press(j, say)
               \/ (\E o \in orders : Trigger(o)) \/ (\E r \in late : Land(r)) \/ ByHand
      BY <3>3 DEF Press, Trigger, Land, ByHand, bookVars
    <3> QED BY <1>3, <3>1, <3>2, <3>3 DEF Outside
  <2> QED BY <1>2, <2>1, <2>2, <2>3 DEF Held, Past, Unclaimed
<1>4. CASE Entry(p) \/ Move(p) \/ Exit(p) \/ Keys(p)
  <2>1. Onward(p) \/ Sending(p)
    BY <1>4, EntryOnward, MoveOnward, ExitOnward, KeysIsOnward, PostsAreSends DEF ExecInv
  <2>2. PICK s : l' = [l EXCEPT ![p] = s] /\ Same(p, s)
    BY <2>1 DEF Onward, Sending
  <2>3. UNCHANGED <<intent, told, inbox>> /\ Past(p)
    BY <2>1 DEF Onward, Sending, bookVars, inboxVars, Past, Unsent, Unclaimed
  <2>4. The(p)' = The(p)
    BY <2>2, <2>3, SameTap
  <2> QED BY <1>2, <2>3, <2>4 DEF Held
<1>5. CASE Fetch(p) \/ Store(p) \/ Swallow(p) \/ Replay(p) \/ Confirm(p) \/ Crash(p)
           \/ (Claim(p) /\ ~CanClaim(The(p)))
  <2>1. UNCHANGED <<intent, told>>
    BY <1>5 DEF Fetch, Store, Swallow, Replay, Confirm, Crash, Claim, bookVars
  <2>2. ~Past(p)'
    <3>1. CASE Fetch(p)
      <4> DEFINE s == [l[p] EXCEPT !.next = offset + 1, !.top = Len(inbox)]
      <4>1. s.pc = "idle" /\ l' = [l EXCEPT ![p] = s]
        BY <3>1 DEF Fetch, Go, ExecInv, ClaimInv, ListenerShape, Fields
      <4> HIDE DEF s
      <4>2. PICK x : x = s OBVIOUS
      <4> QED BY <4>1, <4>2, GoesTo DEF Past, Unclaimed
    <3>2. CASE Store(p) \/ Crash(p)
      BY <3>2, RestShape, GoesTo DEF Store, Crash, Go, Past, Unclaimed
    <3>3. CASE Swallow(p) \/ Replay(p) \/ (Claim(p) /\ ~CanClaim(The(p)))
      BY <3>3, HandledShape, GoesTo DEF Swallow, Replay, Claim, Go, Past, Unclaimed
    <3>4. CASE Confirm(p)
      <4>1. PICK pc \in {"expire", "claim"} : l' = [l EXCEPT ![p] = At(p, pc)]
        BY <3>4 DEF Confirm, Go
      <4>2. At(p, pc).pc = pc
        BY Places
      <4> QED BY <4>1, <4>2, GoesTo DEF Past, Unclaimed
    <3> QED BY <1>5, <3>1, <3>2, <3>3, <3>4
  <2> QED BY <1>2, <2>1, <2>2 DEF Held
<1>6. CASE Decline(p) \/ Expire(p) \/ Finish(p)
  <2>1. ~Past(p)'
    BY <1>6, HandledShape, GoesTo DEF Decline, Expire, Finish, Go, Past, Unclaimed
  <2>2. ASSUME told'[i] # told[i] \/ intent'[i].status # intent[i].status
        PROVE  /\ i = The(p) /\ (l[p].pc = "finish" => Held(i))
               /\ intent[i].status \in {"preview", "expired", "confirmed"}
               /\ (l[p].pc # "finish" => intent[i].status # "confirmed")
    <3>1. CASE Decline(p)
      BY <1>t, <2>2, <3>1 DEF Decline, Due
    <3>2. CASE Expire(p)
      <4>1. intent[The(p)].status \in {"preview", "expired"} /\ l[p].pc = "expire"
        BY <3>2 DEF Expire, StatusInv
      <4> QED BY <1>t, <2>2, <3>2, <4>1 DEF Expire, ToldShape
    <3>3. CASE Finish(p)
      <4>1. intent[The(p)].status = "confirmed" /\ l[p].pc = "finish" /\ Past(p)
        BY <3>3 DEF Finish, StatusInv, Past, Unclaimed
      <4> QED BY <1>t, <2>2, <3>3, <4>1 DEF Finish, ToldShape, Held
    <3> QED BY <1>6, <3>1, <3>2, <3>3
  <2> QED BY <1>1, <1>2, <1>s, <2>1, <2>2 DEF Held
<1>7. CASE Claim(p) /\ CanClaim(The(p))
  <2>1. /\ l' = [l EXCEPT ![p] = At(p, "keys")] /\ intent[The(p)].status = "preview" /\ told' = told
        /\ intent' = [intent EXCEPT ![The(p)].status = "confirmed", ![The(p)].aged = FALSE] /\ l[p].pc = "claim"
        /\ inbox' = inbox
    BY <1>7 DEF Claim, CanClaim, Go, inboxVars
  <2>2. The(p)' = The(p)
    BY <2>1, SameTap, Places DEF Like
  <2>3. i # The(p)
    BY <1>1, <1>s, <2>1
  <2> QED BY <1>2, <1>t, <2>1, <2>2, <2>3 DEF Held
<1>8. CASE UNCHANGED vars
  BY <1>2, <1>8 DEF vars, bookVars, inboxVars, Held, Past, The, Tap
<1> QED BY <1>3, <1>4, <1>5, <1>6, <1>7, <1>8 DEF Next, Work, Listen
-----------------------------------------------------------------------------
(***************************************************************************)
(* A position that lost its stops is being worked on, or it is told.       *)
(***************************************************************************)
Keeping == Filling \cup Asking \cup {"filled"}

LEMMA BookingPlace ==
    ASSUME ExecInv, NEW p \in Listeners, Bookings(p)
    PROVE  l[p].pc \in {"idle", "expire", "claim", "finish"} \/ Crash(p)
BY DEF Bookings, Fetch, Store, Swallow, Decline, Replay, Confirm, Expire, Claim, Finish, Due

\* A report that is about to be made is made, or its listener dies and the intent stays open.
LEMMA ReportsStay ==
    ASSUME NEW p, Listeners = {p}, ExecInv, StatusInv, ~Thin, [Next]_vars, Reports(l[p], The(p))
    PROVE  Reported' \/ Reports(l[p], The(p))'
<1> DEFINE i == The(p)
<1>0. /\ l[p].pc = "finish" /\ i \in Intents /\ intent[i].status = "confirmed"
      /\ l[p].text \in {"naked", "check"} \/ (l[p].text = "failed" /\ done[i].mkt > 0)
  BY BusyTap DEF Reports, StatusInv, Past, Unclaimed
<1>b. done[i].mkt > 0 => done'[i].mkt > 0
  BY <1>0, BoughtStays
<1>1. CASE Finish(p)
  <2>1. told' = [told EXCEPT ![i] = l[p].text]
    BY <1>1 DEF Finish
  <2>2. told'[i] = l[p].text
    BY <1>0, <2>1 DEF StatusInv
  <2> QED BY <1>0, <1>b, <2>2 DEF Reported
<1>2. CASE Crash(p)
  <2>1. ~Past(p)'
    BY <1>2, RestShape, GoesTo DEF Crash, Go, Past, Unclaimed
  <2>2. intent' = intent
    BY <1>2 DEF Crash, bookVars
  <2> QED BY <1>0, <2>1, <2>2 DEF Reported, Held
<1>3. CASE Outside \/ \E j \in Intents, kind \in Kinds : Offer(j, kind, pos)
  <2>1. l' = l /\ The(p)' = i
    BY <1>0, <1>3, TapStays
  <2> QED BY <1>0, <1>b, <2>1 DEF Reports
<1>4. CASE UNCHANGED vars
  <2>1. UNCHANGED <<l, inbox, done>>
    BY <1>4 DEF vars, account, inboxVars
  <2>2. Reports(l[p], The(p))' <=> Reports(l[p], The(p))
    BY <2>1 DEF Reports, The, Tap
  <2> QED BY <2>2
<1>5. ASSUME Work(p), ~Finish(p) PROVE FALSE
  <2>1. CASE Listen(p)
    BY <1>0, <1>5, <2>1 DEF Listen, Fetch, Store, Swallow, Decline, Replay, Confirm, Expire, Claim,
                      Keys, Due
  <2>2. CASE Entry(p)
    BY <1>0, <2>2 DEF Entry, EntryGuards, ClearStale, Margin, Market, MarketQuery, MarketPosition,
                      Filled, PlaceStop, WouldTrigger, FindStop, ConfirmStop, CloseSend,
                      CloseQuery, CloseCheck, Orphans, PlaceTP, Link
  <2>3. CASE Move(p) \/ Exit(p)
    BY <1>0, <2>3 DEF Move, MoveRead, MoveOrders, MovePlace, MoveFind, MoveCancel, Exit, ExitRead,
                      ExitMarket, ExitQuery, ExitPosition, ExitCancel
  <2> QED BY <1>5, <2>1, <2>2, <2>3 DEF Work
<1> QED BY <1>1, <1>2, <1>3, <1>4, <1>5 DEF Next

\* In the calm a position that changes is bought or gone.
LEMMA PositionMoves ==
    ASSUME NEW p, Listeners = {p}, ExecInv, StatusInv, CalmFacts, ~Thin, [Next]_vars, manual' = 0
    PROVE  pos' = pos \/ pos'.qty = 0 \/ Market(p) \/ \E r \in late : Land(r) /\ r.step = "mkt"
<1>0. Size \in Nat /\ Size > 0 /\ pos.qty \in {0, Size} /\ Fits(l[p], The(p))
  BY CalmNumbers DEF CalmFacts
<1>1. ASSUME NEW r \in Requests, r.by \in Intents, r.qty = Size, r.step # "mkt",
             Nothing \/ \E q \in Fills(r) : Execute(r, q)
      PROVE  pos' = pos \/ pos'.qty = 0
  <2>1. CASE Nothing
    BY <2>1 DEF Nothing
  <2>2. ASSUME NEW q \in Fills(r), Execute(r, q) PROVE pos' = pos \/ pos'.qty = 0
    BY <1>0, <1>1, <2>2, Executed DEF Requests
  <2> QED BY <1>1, <2>1, <2>2
<1>2. CASE Posts(p) /\ ~Market(p)
  <2>1. l[p].pc \in {"stop", "close", "tp", "mplace", "xmarket"}
    BY <1>2 DEF Posts, PlaceStop, CloseSend, PlaceTP, MovePlace, ExitMarket
  <2>2. The(p) \in Intents /\ l[p].fill = Size
    BY <1>0, <2>1, BusyTap DEF Fits, Sized, Filling
  <2>3. intent[The(p)].level \in Nat
    BY <2>2 DEF ExecInv, RowsTyped, Rows
  <2>4. PICK step, level, a, b, c :
            /\ step \in RestSteps \cup {"cls", "ex"} /\ level \in Nat
            /\ Post(p, Request(The(p), step, Size, level), a, b, c)
    BY <1>2, <2>2, <2>3 DEF Posts, PlaceStop, CloseSend, PlaceTP, MovePlace, ExitMarket, StopStep,
                            RestSteps, StopSteps
  <2> DEFINE r == Request(The(p), step, Size, level)
  <2>5. r \in Requests /\ r.by \in Intents /\ r.qty = Size /\ r.step # "mkt"
    BY <1>0, <2>2, <2>4 DEF Request, Requests, RestSteps, StopSteps
  <2>6. Nothing \/ \E q \in Fills(r) : Execute(r, q)
    BY <2>4 DEF Post
  <2> HIDE DEF r
  <2>7. PICK x : x = r OBVIOUS
  <2> QED BY <1>1, <2>5, <2>6, <2>7
<1>3. ASSUME Work(p) \/ Crash(p), ~Posts(p) PROVE pos' = pos
  BY <1>3, OnlyPostsAct
<1>4. ASSUME NEW o \in orders, Trigger(o) PROVE pos'.qty = 0
  <2>1. o.qty = Size /\ pos \in [qty : Nat, gen : Nat]
    BY DEF CalmFacts, OneSize, ExecInv, AccountTyped
  <2>2. pos'.qty = pos.qty - Least(pos.qty, o.qty)
    BY <1>4, <2>1 DEF Trigger
  <2> QED BY <1>0, <2>1, <2>2 DEF Least
<1>5. ASSUME NEW r \in late, Land(r), r.step # "mkt" PROVE pos' = pos \/ pos'.qty = 0
  <2>1. r \in Requests /\ r.by \in Intents /\ r.qty = Size
    BY DEF StatusInv, ExecInv, AccountTyped, CalmFacts, OneSize
  <2> QED BY <1>1, <1>5, <2>1 DEF Land
<1>6. ASSUME NEW j \in Intents, NEW say, NEW kind, Age(j) \/ Press(j, say) \/ Offer(j, kind, pos)
      PROVE  pos' = pos
  BY <1>6 DEF Age, Press, Offer, account
<1>7. CASE ByHand
  BY <1>7 DEF ByHand, StatusInv
<1>8. CASE UNCHANGED vars
  BY <1>8 DEF vars, account
<1> QED BY <1>2, <1>3, <1>4, <1>5, <1>6, <1>7, <1>8 DEF Next, Outside, Posts

\* Except for the purchase a listener asks for, a position with stops keeps one.
LEMMA SafeStays ==
    ASSUME NEW p, Listeners = {p}, ExecInv, StatusInv, CalmFacts, ~Thin, [Next]_vars,
           manual' = 0, Safe
    PROVE  Safe' \/ Market(p) \/ \E r \in late : Land(r) /\ r.step = "mkt"
<1>1. CASE pos'.qty = 0
  BY <1>1 DEF Safe
<1>2. CASE pos' = pos
  <2>1. pos.qty = 0 \/ (pos.qty > 0 /\ Stops(orders) # {})
    BY <1>2, CalmNumbers DEF Safe
  <2> QED BY <1>2, <2>1, StopsStay DEF Safe
<1> QED BY <1>1, <1>2, PositionMoves

\* The listener at work on a position without stops does not leave it so.
LEMMA WorkingStays ==
    ASSUME NEW p, Listeners = {p}, ExecInv, StatusInv, CalmFacts, ~Thin, Work(p),
           ~Safe, l[p].pc \in Keeping
    PROVE  Safe' \/ l'[p].pc \in Keeping \/ Reports(l[p], The(p))'
<1> DEFINE i == The(p)
<1>0. /\ Size \in Nat /\ Size > 0 /\ pos.qty = Size /\ Stops(orders) = {} /\ Fits(l[p], i)
      /\ i \in Intents /\ done[i].cls = 0 /\ done[i].mkt \in {0, Size}
  <2>1. i \in Intents /\ l[p].pc \notin Unclaimed
    BY BusyTap DEF Keeping, Filling, Asking, Unclaimed
  <2> QED BY <2>1, CalmNumbers DEF CalmFacts, Safe, Fits
<1> USE DEF Keeping, Filling, Asking
<1>p. /\ \A pc : At(p, pc).pc = pc
      /\ \A text : End(p, text).pc = "finish" /\ End(p, text).text = text
      /\ \A pc, q : [At(p, pc) EXCEPT !.got = q].pc = pc
      /\ \A pc, q : [At(p, pc) EXCEPT !.fill = q].pc = pc
      /\ \A pc, n : [At(p, pc) EXCEPT !.att = n].pc = pc
      /\ NextStop(p).pc \in {"stop", "confirm"}
  BY Places
<1>g. ASSUME NEW s, Go(p, s) PROVE l'[p] = s
  BY <1>g, GoesTo DEF Go
<1>1. CASE MarketQuery(p)
  <2>1. PICK s : Go(p, s) /\ s.pc \in {"filled", "mposition"}
    <3> DEFINE s == [At(p, "filled") EXCEPT !.got = done[i].mkt]
    <3>1. Go(p, At(p, "mposition")) \/ Go(p, s)
      BY <1>1 DEF MarketQuery, Read
    <3>2. s.pc = "filled" /\ At(p, "mposition").pc = "mposition"
      BY <1>p
    <3> HIDE DEF s
    <3> QED BY <3>1, <3>2
  <2> QED BY <1>g, <2>1
<1>2. CASE MarketPosition(p)
  <2>1. PICK s : Go(p, s) /\ (s.pc = "filled" \/ (s.pc = "finish" /\ s.text = "check"))
    <3> DEFINE s == [At(p, "filled") EXCEPT !.got = pos.qty]
    <3>1. Go(p, End(p, "check")) \/ Go(p, s)
      BY <1>0, <1>2 DEF MarketPosition, Read
    <3>2. s.pc = "filled" /\ End(p, "check").pc = "finish" /\ End(p, "check").text = "check"
      BY <1>p
    <3> HIDE DEF s
    <3> QED BY <3>1, <3>2
  <2> QED BY <1>g, <2>1 DEF Reports
<1>3. CASE Filled(p)
  <2> DEFINE s == [At(p, "stop") EXCEPT !.fill = l[p].got]
  <2>1. l[p].got # 0
    BY <1>0, <1>3 DEF Filled, Fits
  <2>2. Go(p, s)
    BY <1>3, <2>1 DEF Filled
  <2>3. s.pc = "stop"
    BY <1>p
  <2> HIDE DEF s
  <2>4. PICK x : x = s OBVIOUS
  <2> QED BY <1>g, <2>2, <2>3, <2>4
<1>4. CASE PlaceStop(p)
  <2>1. Post(p, Request(i, StopStep(p), l[p].fill, 0), At(p, "tp"), NextStop(p), At(p, "find"))
    BY <1>4 DEF PlaceStop
  <2> DEFINE r == Request(i, StopStep(p), l[p].fill, 0)
  <2>2. r.step \in StopSteps /\ r.step \in RestSteps
    BY DEF Request, StopStep, RestSteps, StopSteps
  <2> HIDE DEF r
  <2>3. PICK s : /\ l' = [l EXCEPT ![p] = s]
                 /\ \/ \E q : Account(r, q)
                    \/ s = At(p, "find") \/ s = NextStop(p)
    BY <2>1, PostSplits DEF r
  <2>4. l'[p] = s
    BY <2>3, GoesTo
  <2>5. ASSUME NEW q, Account(r, q) PROVE Safe'
    <3>1. r \in orders'
      BY <2>2, <2>5 DEF Account, Execute
    <3> QED BY <2>2, <3>1 DEF Safe, Stops
  <2> QED BY <1>p, <2>3, <2>4, <2>5
<1>5. CASE WouldTrigger(p) \/ FindStop(p)
  <2>1. ~Rests(orders, i, StopStep(p))
    BY <1>0 DEF Rests, Stops, StopStep, StopSteps
  <2>2. Go(p, At(p, "confirm")) \/ Go(p, At(p, "again")) \/ Go(p, NextStop(p))
    BY <1>5, <2>1 DEF WouldTrigger, FindStop, Read
  <2>3. PICK s : Go(p, s) /\ s.pc \in Filling
    BY <1>p, <2>2
  <2> QED BY <1>g, <2>3
<1>6. CASE ConfirmStop(p)
  <2> DEFINE mine == {o \in orders : o.by = i /\ o.step \in {"sl0", "sl1"}}
             out  == [At(p, "close") EXCEPT !.att = 0]
  <2>1. mine = {}
    BY <1>0 DEF Stops, StopSteps
  <2>2. Cardinality(mine) # 2
    BY <2>1, FS_EmptySet
  <2>3. Go(p, out)
    BY <1>6, <2>1, <2>2 DEF ConfirmStop, Read
  <2>4. out.pc = "close"
    BY <1>p
  <2> HIDE DEF out
  <2>5. PICK x : x = out OBVIOUS
  <2> QED BY <1>g, <2>3, <2>4, <2>5
<1>7. CASE CloseSend(p)
  <2>1. Post(p, Request(i, "cls", l[p].fill, 0), At(p, "orphans"), At(p, "cafter"), At(p, "cquery"))
    BY <1>7 DEF CloseSend
  <2> DEFINE r == Request(i, "cls", l[p].fill, 0)
  <2>2. r.step = "cls" /\ r \in Requests /\ r.by \in Intents /\ r.qty = Size
    <3>1. l[p].fill = Size
      BY <1>0, <1>7 DEF CloseSend, Fits, Sized
    <3> QED BY <1>0, <3>1 DEF Request, Requests
  <2> HIDE DEF r
  <2>3. PICK s : /\ l' = [l EXCEPT ![p] = s]
                 /\ \/ \E q : Account(r, q)
                    \/ s = At(p, "cquery") \/ s = At(p, "cafter")
    BY <2>1, PostSplits DEF r
  <2>4. l'[p] = s
    BY <2>3, GoesTo
  <2>5. ASSUME NEW q, Account(r, q) PROVE Safe'
    BY <1>0, <2>2, <2>5, Executed DEF Account, Safe
  <2> QED BY <1>p, <2>3, <2>4, <2>5
<1>8. CASE CloseQuery(p)
  <2>1. Go(p, At(p, "cafter"))
    BY <1>0, <1>8 DEF CloseQuery, CloseFilled, Read
  <2>2. PICK s : Go(p, s) /\ s.pc = "cafter"
    BY <1>p, <2>1
  <2> QED BY <1>g, <2>2
<1>9. CASE CloseCheck(p)
  <2> DEFINE again == [At(p, "cbefore") EXCEPT !.att = @ + 1]
  <2>1. again.pc = "cbefore"
    BY <1>p
  <2>2. Go(p, again) \/ Go(p, At(p, "close")) \/ Go(p, End(p, "naked"))
    BY <1>0, <1>9 DEF CloseCheck, Read
  <2> HIDE DEF again
  <2>3. PICK s : Go(p, s) /\ (s.pc \in Filling \/ (s.pc = "finish" /\ s.text = "naked"))
    BY <1>p, <2>1, <2>2
  <2> QED BY <1>g, <2>3 DEF Reports
<1>a. CASE Listen(p) \/ Move(p) \/ Exit(p)
  BY <1>a DEF Listen, Fetch, Store, Swallow, Decline, Replay, Confirm, Expire, Claim, Keys, Finish,
              Due, Move, MoveRead, MoveOrders, MovePlace, MoveFind, MoveCancel, Exit, ExitRead,
              ExitMarket, ExitQuery, ExitPosition, ExitCancel
<1>b. CASE \/ EntryGuards(p) \/ ClearStale(p) \/ Margin(p) \/ Market(p) \/ Orphans(p) \/ PlaceTP(p)
           \/ Link(p)
  BY <1>b DEF EntryGuards, ClearStale, Margin, Market, Orphans, PlaceTP, Link
<1> QED BY <1>1, <1>2, <1>3, <1>4, <1>5, <1>6, <1>7, <1>8, <1>9, <1>a, <1>b DEF Work, Entry

LEMMA GuardStays ==
    ASSUME NEW p, Listeners = {p}, ExecInv, StatusInv, CalmFacts, ~Thin, [Next]_vars, Calm',
           Guarded(l[p])
    PROVE  Reported' \/ Reports(l[p], The(p))' \/ Guarded(l[p])'
<1> DEFINE i == The(p)
<1>0. Fits(l[p], i) /\ manual' = 0 /\ strays' = {}
  BY DEF CalmFacts, Calm
<1>1. CASE Market(p)
  <2>1. Post(p, Request(i, "mkt", intent[i].qty, 0), At(p, "filled"), End(p, "refused"), At(p, "mquery"))
        /\ pos.qty = 0
    BY <1>0, <1>1 DEF Market, Fits, Gone
  <2> DEFINE r == Request(i, "mkt", intent[i].qty, 0)
  <2>2. PICK s : /\ l' = [l EXCEPT ![p] = s]
                 /\ \/ \E q : Account(r, q) /\ s \in {[At(p, "filled") EXCEPT !.got = q], At(p, "mquery")}
                    \/ s = At(p, "mquery")
                    \/ Nothing
    BY <2>1, PostSplits
  <2> HIDE DEF r
  <2>3. l'[p] = s
    BY <2>2, GoesTo
  <2>4. Nothing => Safe'
    BY <2>1 DEF Nothing, Safe
  <2>5. At(p, "mquery").pc = "mquery" /\ \A q : [At(p, "filled") EXCEPT !.got = q].pc = "filled"
    BY Places
  <2> QED BY <2>2, <2>3, <2>4, <2>5 DEF Guarded, Asking
<1>2. ASSUME NEW r \in late, Land(r), r.step = "mkt" PROVE Guarded(l[p])'
  <2>1. l' = l
    BY <1>2 DEF Land
  <2>2. Asks(p, r.by) \/ Nothing
    BY <1>0, <1>2 DEF Land
  <2>3. CASE Asks(p, r.by)
    BY <2>1, <2>3 DEF Asks, Guarded, Asking
  <2>4. CASE Nothing
    BY <2>1, <2>4 DEF Nothing, Guarded, Safe
  <2> QED BY <2>2, <2>3, <2>4
<1>3. CASE Safe
  BY <1>0, <1>1, <1>2, <1>3, SafeStays DEF Guarded
<1>4. CASE ~Safe
  <2>0. l[p].pc \in Keeping
    BY <1>4 DEF Guarded, Keeping
  <2>1. CASE Work(p)
    BY <1>4, <2>0, <2>1, WorkingStays DEF Guarded, Keeping
  <2>2. CASE Crash(p)
    <3>1. i \in Intents /\ intent[i].status = "confirmed" /\ intent' = intent
      BY <2>0, <2>2, BusyTap DEF Keeping, Filling, Asking, StatusInv, Past, Unclaimed, Crash, bookVars
    <3>2. ~Past(p)'
      BY <2>2, RestShape, GoesTo DEF Crash, Go, Past, Unclaimed
    <3> QED BY <3>1, <3>2 DEF Reported, Held
  <2>3. CASE Outside \/ (\E j \in Intents, kind \in Kinds : Offer(j, kind, pos)) \/ UNCHANGED vars
    <3>1. l' = l
      BY <2>3, TapStays DEF vars
    <3> QED BY <2>0, <3>1 DEF Guarded, Keeping
  <2> QED BY <2>1, <2>2, <2>3 DEF Next
<1> QED BY <1>3, <1>4

\* A stray entry that is carried out had been given up: it is told, or about to be.
LEMMA StrayIsTold ==
    ASSUME NEW p, Listeners = {p}, ExecInv, StatusInv, CalmFacts, ~Thin, [Next]_vars,
           strays = {}, strays' # {}
    PROVE  Reported' \/ Reports(l[p], The(p))'
<1>1. PICK r \in late : Land(r)
  <2>1. ASSUME Work(p) \/ Crash(p) PROVE FALSE
    BY <2>1, WorkAlone
  <2>2. ASSUME NEW j \in Intents, NEW say, NEW kind, Age(j) \/ Press(j, say) \/ Offer(j, kind, pos)
        PROVE  FALSE
    BY <2>2 DEF Age, Press, Offer, account
  <2>3. ASSUME NEW o, Trigger(o) \/ ByHand PROVE FALSE
    BY <2>3 DEF Trigger, ByHand
  <2>4. CASE UNCHANGED vars
    BY <2>4 DEF vars, account
  <2> QED BY <2>1, <2>2, <2>3, <2>4 DEF Next, Outside
<1>2. /\ r.step = "mkt" /\ ~Asks(p, r.by) /\ r.by \in Intents /\ r.qty > 0 /\ r \in Requests
      /\ \E q \in Fills(r) : Execute(r, q)
  BY <1>1 DEF Land, StatusInv, ExecInv, AccountTyped
<1>3. done'[r.by].mkt > 0
  <2>1. done' = [done EXCEPT ![r.by]["mkt"] = r.qty]
    BY <1>2 DEF Fills, Execute, RestSteps, StopSteps
  <2> QED BY <1>2, <2>1 DEF ExecInv, AccountTyped
<1>4. l' = l /\ The(p)' = The(p) /\ UNCHANGED <<intent, told>>
  BY <1>1 DEF Land, bookVars, inboxVars, The, Tap
<1>5. GivenUp(r.by) \/ (The(p) = r.by /\ Unsure(l[p]))
  BY <1>2 DEF CalmFacts, LateEntries
<1>6. CASE GivenUp(r.by)
  BY <1>2, <1>3, <1>4, <1>6 DEF GivenUp, Reported, Held, Past
<1>7. CASE The(p) = r.by /\ Unsure(l[p])
  <2>1. l[p].pc = "finish" /\ l[p].text \in {"failed", "check"}
    BY <1>2, <1>7 DEF Unsure, Asks, Asking
  <2> QED BY <1>3, <1>4, <1>7, <2>1 DEF Reports
<1> QED BY <1>5, <1>6, <1>7

LEMMA ReportStep ==
    ASSUME NEW p, Listeners = {p}, ExecInv, StatusInv, CalmInv, ReportInv, ~Thin, [Next]_vars
    PROVE  ReportInv'
<1> SUFFICES ASSUME manual' = 0
             PROVE  \/ Reported' \/ Reports(l[p], The(p))'
                    \/ strays' = {} /\ Guarded(l[p])'
  BY DEF ReportInv
<1>1. manual = 0
  BY CalmBefore
<1>2. CASE Reported
  BY <1>2, ReportedStays
<1>3. CASE Reports(l[p], The(p))
  BY <1>3, ReportsStay
<1>4. CASE strays = {} /\ Guarded(l[p])
  <2>1. CalmFacts
    BY <1>1, <1>4 DEF CalmInv, Calm
  <2>2. CASE strays' = {}
    BY <1>4, <2>1, <2>2, GuardStays DEF Calm
  <2>3. CASE strays' # {}
    BY <1>4, <2>1, <2>3, StrayIsTold
  <2> QED BY <2>2, <2>3
<1> QED BY <1>1, <1>2, <1>3, <1>4 DEF ReportInv
-----------------------------------------------------------------------------
OneListener == \E p : Listeners = {p}

LEMMA SoloInit == Init => SoloInv
<1> SUFFICES ASSUME Init PROVE SoloInv
  OBVIOUS
<1>0. /\ Size \in Nat /\ pos.qty = 0 /\ orders = {} /\ late = {} /\ strays = {} /\ manual = 0
      /\ \A i \in Intents : intent[i].status = "none"
      /\ \A i \in Intents : told[i] = "none" /\ done[i].mkt = 0 /\ done[i].cls = 0 /\ done[i].ex = 0
      /\ \A p \in Listeners : l[p].pc = "idle"
  BY SizeAssumption, RestShape DEF Init, NoIntent, Flat
<1>1. ExecInv
  BY ExecInvInit
<1>2. StatusInv
  BY <1>0 DEF Init, StatusInv, Past, Unclaimed
<1>3. CalmInv
  <2>1. OneSize /\ UnsentIsClean /\ LateEntries
    BY <1>0 DEF OneSize, UnsentIsClean, NothingOf, LateEntries
  <2>2. \A p \in Listeners : Fits(l[p], The(p))
    BY <1>0 DEF Fits, Gone, Asking, Filling, Moving, Sized, Bought, Unclaimed
  <2> QED BY <2>1, <2>2 DEF CalmInv, CalmFacts
<1>4. ReportInv
  BY <1>0 DEF ReportInv, Guarded, Safe
<1> QED BY <1>1, <1>2, <1>3, <1>4 DEF SoloInv

LEMMA SoloStep ==
    ASSUME OneListener, ~Thin, SoloInv, [Next]_vars
    PROVE  SoloInv'
<1>1. PICK p : Listeners = {p}
  BY DEF OneListener
<1>2. ExecInv'
  BY ExecInvStep DEF SoloInv
<1>3. StatusInv'
  <2>1. CASE UNCHANGED vars
    <3>1. UNCHANGED <<intent, told, l, inbox, late, manual>>
      BY <2>1 DEF vars, bookVars, inboxVars, account, limits
    <3> QED BY <3>1 DEF SoloInv, StatusInv, Past, The, Tap
  <2>2. CASE Next
    BY <1>1, <2>2, StatusWork, StatusOutside DEF Next, SoloInv
  <2> QED BY <2>1, <2>2
<1>4. CalmInv'
  BY <1>1, CalmStep DEF SoloInv
<1>5. ReportInv'
  BY <1>1, ReportStep DEF SoloInv
<1> QED BY <1>2, <1>3, <1>4, <1>5 DEF SoloInv

LEMMA SoloInvariant ==
    ASSUME OneListener, ~Thin
    PROVE  Spec => []SoloInv
<1>1. Init => SoloInv
  BY SoloInit
<1>2. SoloInv /\ [Next]_vars => SoloInv'
  BY SoloStep
<1> QED BY <1>1, <1>2, PTL DEF Spec

\* A position that lost its stops is told (execute.run_entry_sequence, its emergency close
\* and what finish_exec_intent stores), whatever the listener, the exchange's answers and
\* its late executions do: for any intents, taps, faults and crashes, as long as one
\* listener runs and MARKET orders are filled in full.
THEOREM BarePositionIsTold ==
    ASSUME OneListener, ~Thin
    PROVE  Spec => []BareIsTold
<1>1. ASSUME SoloInv, Quiet, Bare, manual = 0
      PROVE  \E i \in Intents :
                 \/ told[i] \in {"naked", "check"} \/ intent[i].status = "confirmed"
                 \/ told[i] = "failed" /\ done[i].mkt > 0
  <2>1. CASE Reported
    BY <2>1 DEF Reported
  <2>2. ASSUME NEW p \in Listeners, Reports(l[p], The(p)) PROVE FALSE
    BY <1>1, <2>2 DEF Reports, Quiet
  <2>3. ASSUME strays = {}, \A p \in Listeners : Guarded(l[p]) PROVE FALSE
    <3>1. PICK p : p \in Listeners
      BY DEF OneListener
    <3>2. Safe
      BY <1>1, <2>3, <3>1 DEF Guarded, Quiet, Filling, Asking
    <3>3. CalmFacts /\ ExecInv
      BY <1>1, <2>3 DEF SoloInv, CalmInv, Calm
    <3> QED BY <1>1, <3>2, <3>3, OneStopCovers DEF Safe, Bare
  <2> QED BY <1>1, <2>1, <2>2, <2>3 DEF SoloInv, ReportInv
<1>2. SoloInv => BareIsTold
  BY <1>1 DEF BareIsTold
<1> QED BY <1>2, SoloInvariant, PTL

\* No step takes the stops from a position that stays (execute.run_move_stop_sequence, the
\* second stop of an entry, cancel_jv_orders_for_symbol and run_exit_sequence): under the
\* same conditions.
THEOREM CoverIsKept ==
    ASSUME OneListener, ~Thin
    PROVE  Spec => CoverNeverCancelled
<1>1. PICK p : Listeners = {p}
  BY DEF OneListener
<1>2. SoloInv /\ [Next]_vars =>
          [pos' = pos /\ pos.qty > 0 /\ ~Bare /\ manual = 0 /\ strays = {} => ~Bare']_<<pos, orders>>
  BY <1>1, ExecInvStep, CoverStays DEF SoloInv
<1> QED BY <1>2, SoloInvariant, PTL DEF Spec, CoverNeverCancelled
-----------------------------------------------------------------------------
(***************************************************************************)
(* The same beside the watch job, for any number of listeners: its tick    *)
(* offers advice, writes its row and sweeps, and dies with the listeners.  *)
(***************************************************************************)
WatchRows == [state : {"none", "open", "closed"}, gen : Nat, latched : BOOLEAN]
Positions == [qty : Nat, gen : Nat]

RowShaped == row \in WatchRows /\ row.gen <= pos.gen
SeenTyped ==
    /\ w = [pc |-> w.pc, seen |-> w.seen, orders |-> w.orders, stored |-> w.stored]
    /\ w.seen \in Positions /\ w.seen.gen <= pos.gen /\ w.stored \in WatchRows
AdviceTyped == \A a \in advised : a.gen \in Nat /\ a.gen <= pos.gen
WatchTyped == RowShaped /\ SeenTyped /\ AdviceTyped

\* If position g is the open one, its owner was warned (or the row took it for another).
HeardOf(g, p, told_of) == g = p.gen /\ p.qty > 0 => told_of
KnownOf(g, p, told_of, m) == HeardOf(g, p, told_of \/ g \in m)

\* Advice was heard; a latch is backed by advice, on the row and in the hand of the tick;
\* and between the advice and the latch it still is.
AdviceHeard == \A a \in advised : HeardOf(a.gen, pos, alarm)
LatchHeard  == row.latched => KnownOf(row.gen, pos, alarm, mixed)
StoredHeard == w.pc = "warn" => \/ KnownOf(w.seen.gen, pos, alarm, mixed)
                                \/ w.stored.gen = w.seen.gen /\ ~w.stored.latched
SentHeard   == w.pc = "latch" => HeardOf(w.seen.gen, pos, alarm)

WatchInv == ExecInv /\ WatchTyped /\ AdviceHeard /\ LatchHeard /\ StoredHeard /\ SentHeard

\* A position that was closed and opened again has another number, which no row and no
\* tick has seen.
Moved ==
    /\ pos' \in [qty : Nat, gen : Nat] /\ pos \in [qty : Nat, gen : Nat]
    /\ (pos'.gen = pos.gen /\ pos'.qty <= pos.qty) \/ pos'.gen > pos.gen

\* What a listener does to the row: a new one for the position it has just linked.
Linked == row' = [NoRow EXCEPT !.state = "open", !.gen = pos.gen] /\ pos' = pos
RowKept == row' = row \/ Linked

LEMMA ExecuteMoves ==
    ASSUME AccountTyped, NEW r \in Requests, NEW q \in Fills(r), Execute(r, q)
    PROVE  Moved
<1>1. pos \in [qty : Nat, gen : Nat] BY DEF AccountTyped
<1>2. q \in Nat /\ (r.step \in {"cls", "ex"} => q <= pos.qty) BY FillsTyped
<1>3. CASE r.step = "mkt" /\ q > 0
  <2>1. pos' = [qty |-> pos.qty + q, gen |-> pos.gen + 1] BY <1>3 DEF Execute
  <2> QED BY <1>1, <1>2, <2>1 DEF Moved
<1>4. CASE r.step \in {"cls", "ex"}
  <2>1. pos' = [pos EXCEPT !.qty = @ - q] BY <1>4 DEF Execute
  <2>2. pos.qty - q \in Nat /\ pos.qty - q <= pos.qty BY <1>1, <1>2, <1>4
  <2> QED BY <1>1, <2>1, <2>2 DEF Moved
<1>5. CASE ~(r.step = "mkt" /\ q > 0) /\ r.step \notin {"cls", "ex"}
  <2>1. pos' = pos BY <1>5 DEF Execute
  <2> QED BY <1>1, <2>1 DEF Moved
<1> QED BY <1>3, <1>4, <1>5

LEMMA StaysMoved ==
    ASSUME ExecInv, pos' = pos
    PROVE  Moved
BY DEF ExecInv, AccountTyped, Moved

LEMMA PostMoves ==
    ASSUME ExecInv, NEW p \in Listeners, l[p].pc # "idle",
           NEW step \in RestSteps \cup {"mkt", "cls", "ex"}, NEW qty \in Nat, NEW level \in Nat,
           NEW a, NEW b, NEW c, Post(p, Request(The(p), step, qty, level), a, b, c)
    PROVE  Moved
<1> DEFINE r == Request(The(p), step, qty, level)
<1>1. The(p) \in Intents
  BY TapTyped DEF ExecInv, ClaimInv, ListenerShape
<1>2. r \in Requests /\ Post(p, r, a, b, c)
  BY <1>1 DEF Request, Requests
<1> HIDE DEF r
<1>3. AccountTyped BY DEF ExecInv
<1>4. (\E q \in Fills(r) : Execute(r, q)) \/ Nothing
  BY <1>2 DEF Post
<1>5. CASE Nothing
  BY <1>5, StaysMoved DEF Nothing
<1> QED BY <1>2, <1>3, <1>4, <1>5, ExecuteMoves

LEMMA WorkMoves ==
    ASSUME ExecInv, NEW p \in Listeners, Work(p) \/ Crash(p)
    PROVE  Moved /\ RowKept
<1> USE DEF account, bookVars, inboxVars, RowKept
<1>1. CASE Listen(p) \/ Crash(p)
  <2>1. pos' = pos /\ row' = row
    BY <1>1 DEF Listen, Crash, Fetch, Store, Swallow, Decline, Replay, Confirm, Expire, Claim,
                Keys, Finish
  <2> QED BY <2>1, StaysMoved
<1>2. CASE \/ Market(p) \/ PlaceStop(p) \/ CloseSend(p) \/ PlaceTP(p)
           \/ MovePlace(p) \/ ExitMarket(p)
  <2>0. l[p].fill \in Nat /\ l[p].pc # "idle"
    BY <1>2 DEF ExecInv, Counted, Market, PlaceStop, CloseSend, PlaceTP, MovePlace, ExitMarket
  <2>1. row' = row
    BY <1>2 DEF Market, PlaceStop, CloseSend, PlaceTP, MovePlace, ExitMarket
  <2>2. Moved
    <3> USE DEF RestSteps, StopSteps
    <3>1. CASE Market(p)
      BY <2>0, <3>1, RowTyped, PostMoves DEF Market
    <3>2. CASE PlaceStop(p)
      <4>1. StopStep(p) \in RestSteps
        BY DEF StopStep
      <4> QED BY <2>0, <3>2, <4>1, PostMoves DEF PlaceStop
    <3>3. CASE CloseSend(p)
      BY <2>0, <3>3, PostMoves DEF CloseSend
    <3>4. CASE PlaceTP(p)
      BY <2>0, <3>4, PostMoves DEF PlaceTP
    <3>5. CASE MovePlace(p)
      BY <2>0, <3>5, RowTyped, PostMoves DEF MovePlace
    <3>6. CASE ExitMarket(p)
      BY <2>0, <3>6, PostMoves DEF ExitMarket
    <3> QED BY <1>2, <3>1, <3>2, <3>3, <3>4, <3>5, <3>6
  <2> QED BY <2>1, <2>2
<1>3. CASE Link(p)
  BY <1>3, StaysMoved DEF Link, Linked
<1>4. CASE ClearStale(p) \/ ConfirmStop(p) \/ Orphans(p) \/ MoveCancel(p) \/ ExitCancel(p)
  <2>1. pos' = pos /\ row' = row
    BY <1>4 DEF ClearStale, ConfirmStop, Orphans, MoveCancel, ExitCancel
  <2> QED BY <2>1, StaysMoved
<1>5. CASE \/ EntryGuards(p) \/ Margin(p) \/ MarketQuery(p) \/ MarketPosition(p) \/ Filled(p)
           \/ WouldTrigger(p) \/ FindStop(p) \/ CloseQuery(p) \/ CloseCheck(p)
           \/ MoveRead(p) \/ MoveOrders(p) \/ MoveFind(p)
           \/ ExitRead(p) \/ ExitQuery(p) \/ ExitPosition(p)
  <2>1. pos' = pos /\ row' = row
    BY <1>5 DEF EntryGuards, Margin, MarketQuery, MarketPosition, Filled, WouldTrigger, FindStop,
                CloseQuery, CloseCheck, MoveRead, MoveOrders, MoveFind, ExitRead, ExitQuery,
                ExitPosition
  <2> QED BY <2>1, StaysMoved
<1> QED BY <1>1, <1>2, <1>3, <1>4, <1>5 DEF Work, Entry, Move, Exit

LEMMA OutsideMoves ==
    ASSUME ExecInv, Outside \/ \E i \in Intents : Offer(i, "entry", pos)
    PROVE  Moved /\ row' = row
<1> USE DEF account, bookVars, inboxVars
<1>0. pos \in [qty : Nat, gen : Nat] BY DEF ExecInv, AccountTyped
<1>1. CASE \/ \E i \in Intents : Age(i) \/ \E say \in {"yes", "no"} : Press(i, say)
           \/ \E i \in Intents : Offer(i, "entry", pos)
  BY <1>1, StaysMoved DEF Age, Press, Offer
<1>2. ASSUME NEW o \in orders, Trigger(o) PROVE Moved /\ row' = row
  <2>1. o.qty \in Nat /\ pos.qty \in Nat BY <1>0 DEF ExecInv, AccountTyped, Requests
  <2>2. Least(pos.qty, o.qty) \in Nat /\ Least(pos.qty, o.qty) <= pos.qty BY <2>1, LeastNat
  <2>3. pos' = [pos EXCEPT !.qty = @ - Least(@, o.qty)] BY <1>2 DEF Trigger
  <2>4. pos.qty - Least(pos.qty, o.qty) \in Nat /\ pos.qty - Least(pos.qty, o.qty) <= pos.qty
    BY <2>1, <2>2
  <2>5. pos'.gen = pos.gen /\ pos'.qty <= pos.qty /\ pos' \in [qty : Nat, gen : Nat]
    BY <1>0, <2>3, <2>4
  <2> QED BY <1>0, <1>2, <2>5 DEF Trigger, Moved
<1>3. ASSUME NEW r \in late, Land(r) PROVE Moved /\ row' = row
  <2>1. r \in Requests /\ AccountTyped BY DEF ExecInv, AccountTyped
  <2>2. (\E q \in Fills(r) : Execute(r, q)) \/ pos' = pos BY <1>3 DEF Land, Nothing
  <2> QED BY <1>3, <2>1, <2>2, ExecuteMoves, StaysMoved DEF Land
<1>4. CASE ByHand
  <2>1. \/ pos' = [qty |-> pos.qty + 1, gen |-> pos.gen + 1]
        \/ pos' = [pos EXCEPT !.qty = 0] \/ pos' = pos
    BY <1>4 DEF ByHand
  <2> QED BY <1>0, <1>4, <2>1 DEF ByHand, Moved
<1> QED BY <1>1, <1>2, <1>3, <1>4 DEF Outside

\* What was heard of a position stays heard for as long as it is open.
LEMMA HeardStays ==
    ASSUME Moved, Heard, mixed \subseteq mixed', NEW g \in Nat, g <= pos.gen
    PROVE  /\ HeardOf(g, pos, alarm) => HeardOf(g, pos', alarm')
           /\ KnownOf(g, pos, alarm, mixed) => KnownOf(g, pos', alarm', mixed')
<1>1. ASSUME g = pos'.gen, pos'.qty > 0 PROVE g = pos.gen /\ pos.qty > 0
  BY <1>1 DEF Moved
<1>2. alarm /\ pos'.qty > 0 => alarm'
  BY DEF Heard
<1> QED BY <1>1, <1>2 DEF HeardOf, KnownOf

\* Whoever trades, what the tick knows stays true.
LEMMA TradesKeepHeard ==
    ASSUME WatchInv, Moved, RowKept, UNCHANGED <<w, adviceVars>>, Heard
    PROVE  WatchTyped' /\ AdviceHeard' /\ LatchHeard' /\ StoredHeard' /\ SentHeard'
<1>0. /\ pos' \in Positions /\ pos \in Positions /\ pos.gen <= pos'.gen
      /\ w' = w /\ advised' = advised /\ mixed' = mixed
  BY DEF Moved, adviceVars, Positions
<1>1. /\ row \in WatchRows /\ row.gen \in Nat /\ row.gen <= pos.gen
      /\ w.seen.gen \in Nat /\ w.seen.gen <= pos.gen
      /\ \A a \in advised : a.gen \in Nat /\ a.gen <= pos.gen
  BY DEF WatchInv, WatchTyped, RowShaped, SeenTyped, AdviceTyped, WatchRows, Positions
<1>2. SeenTyped' /\ AdviceTyped'
  BY <1>0, <1>1 DEF WatchInv, WatchTyped, SeenTyped, AdviceTyped, Positions
<1>3. AdviceHeard'
  BY <1>0, <1>1, HeardStays DEF WatchInv, AdviceHeard
<1>4. StoredHeard'
  BY <1>0, <1>1, HeardStays DEF WatchInv, StoredHeard
<1>5. SentHeard'
  BY <1>0, <1>1, HeardStays DEF WatchInv, SentHeard
<1>6. CASE row' = row
  <2>1. RowShaped' BY <1>0, <1>1, <1>6 DEF RowShaped, Positions
  <2>2. LatchHeard' BY <1>0, <1>1, <1>6, HeardStays DEF WatchInv, LatchHeard
  <2> QED BY <1>2, <1>3, <1>4, <1>5, <2>1, <2>2 DEF WatchTyped
<1>7. CASE Linked
  <2>1. row' = [state |-> "open", gen |-> pos.gen, latched |-> FALSE] /\ pos' = pos
    BY <1>7 DEF Linked, NoRow
  <2>2. RowShaped' BY <1>0, <2>1 DEF RowShaped, WatchRows, Positions
  <2>3. LatchHeard' BY <2>1 DEF LatchHeard
  <2> QED BY <1>2, <1>3, <1>4, <1>5, <2>2, <2>3 DEF WatchTyped
<1> QED BY <1>6, <1>7 DEF RowKept
-----------------------------------------------------------------------------
\* A tick on its own leaves the book, the taps, the listeners and the position alone.
Still == UNCHANGED <<bookVars, inboxVars, l, account>>

LEMMA StillKeepsExec ==
    ASSUME ExecInv, Still
    PROVE  Aside /\ ExecInv' /\ pos' = pos
<1> USE DEF Still, bookVars, inboxVars, account
<1>1. Aside BY DEF Aside
<1>2. ClaimInv' BY <1>1, AsideKeeps DEF ExecInv
<1>3. RowsTyped' /\ AccountTyped' BY DEF ExecInv, RowsTyped, AccountTyped
<1>4. \A p \in Listeners : Counted(l'[p]) BY DEF ExecInv
<1> QED BY <1>1, <1>2, <1>3, <1>4 DEF ExecInv, Counted

LEMMA ThenIs ==
    ASSUME SeenTyped, NEW pc
    PROVE  Then(pc) = [pc |-> pc, seen |-> w.seen, orders |-> w.orders, stored |-> w.stored]
BY DEF SeenTyped, Then

LEMMA AsleepIs ==
    /\ Asleep = [pc |-> Asleep.pc, seen |-> Asleep.seen, orders |-> Asleep.orders,
                 stored |-> Asleep.stored]
    /\ Asleep.pc = "idle" /\ Asleep.seen = [qty |-> 0, gen |-> 0] /\ Asleep.stored \in WatchRows
BY DEF Asleep, Flat, NoRow, WatchRows

\* A step of the tick that goes on to place pc, or ends, with the position it saw.
Goes(pc) == w' = Then(pc) \/ w' = Asleep

LEMMA GoesTyped ==
    ASSUME WatchInv, pos' = pos, NEW pc, Goes(pc)
    PROVE  SeenTyped' /\ (w'.pc = pc \/ w'.pc = "idle") /\ (w'.seen = w.seen \/ w'.pc = "idle")
<1>0. SeenTyped /\ pos.gen \in Nat BY DEF WatchInv, WatchTyped, ExecInv, AccountTyped
<1>1. CASE w' = Then(pc)
  <2>1. w' = [pc |-> pc, seen |-> w.seen, orders |-> w.orders, stored |-> w.stored]
    BY <1>0, <1>1, ThenIs
  <2> QED BY <1>0, <2>1 DEF SeenTyped
<1>2. CASE w' = Asleep
  <2>1. Asleep.seen \in Positions /\ Asleep.seen.gen <= pos.gen BY <1>0, AsleepIs DEF Positions
  <2>2. SeenTyped' BY <1>2, <2>1, AsleepIs DEF SeenTyped
  <2> QED BY <1>2, <2>2, AsleepIs
<1> QED BY <1>1, <1>2 DEF Goes

\* A step that leaves the position alone leaves alone what was heard of it.
LEMMA QuietKeepsHeard ==
    ASSUME Heard, pos' = pos, mixed \subseteq mixed', NEW g
    PROVE  /\ HeardOf(g, pos, alarm) => HeardOf(g, pos', alarm')
           /\ KnownOf(g, pos, alarm, mixed) => KnownOf(g, pos', alarm', mixed')
BY DEF Heard, HeardOf, KnownOf

\* The steps of the tick that send nothing, store nothing and latch nothing.
LEMMA QuietTick ==
    ASSUME WatchInv, Heard, pos' = pos, mixed' = mixed, advised' \in {{}, advised},
           row' \in WatchRows, row'.gen = row.gen, row'.latched => row.latched,
           SeenTyped', w'.pc \notin {"warn", "latch"}
    PROVE  WatchTyped' /\ AdviceHeard' /\ LatchHeard' /\ StoredHeard' /\ SentHeard'
<1>1. WatchTyped'
  BY DEF WatchInv, WatchTyped, RowShaped, AdviceTyped
<1>2. AdviceHeard'
  BY QuietKeepsHeard DEF WatchInv, AdviceHeard
<1>3. LatchHeard'
  BY QuietKeepsHeard DEF WatchInv, LatchHeard
<1> QED BY <1>1, <1>2, <1>3 DEF StoredHeard, SentHeard

LEMMA TickReads ==
    ASSUME WatchInv, Heard, ReadPosition \/ ReadOrders
    PROVE  Still /\ WatchTyped' /\ AdviceHeard' /\ LatchHeard' /\ StoredHeard' /\ SentHeard'
<1>0. Still /\ row' = row /\ advised' = advised /\ mixed' = mixed
  BY DEF ReadPosition, ReadOrders, Still, adviceVars
<1>1. pos' = pos /\ pos \in Positions /\ row \in WatchRows /\ SeenTyped
  BY <1>0 DEF Still, account, WatchInv, ExecInv, AccountTyped, Positions, WatchTyped, RowShaped
<1>2. SeenTyped' /\ w'.pc \notin {"warn", "latch"}
  <2>1. CASE w' = Asleep
    BY <1>1, <2>1, GoesTyped, AsleepIs DEF Goes
  <2>2. CASE w' = [Then("orders") EXCEPT !.seen = pos]
    <3>1. w' = [pc |-> "orders", seen |-> pos, orders |-> w.orders, stored |-> w.stored]
      BY <1>1, <2>2, ThenIs
    <3> QED BY <1>1, <3>1 DEF SeenTyped, Positions
  <2>3. ASSUME NEW pc \in {"row", "close"}, w' = [Then(pc) EXCEPT !.orders = orders]
        PROVE  SeenTyped' /\ w'.pc \notin {"warn", "latch"}
    <3>1. w' = [pc |-> pc, seen |-> w.seen, orders |-> orders, stored |-> w.stored]
      BY <1>1, <2>3, ThenIs
    <3> QED BY <1>1, <3>1 DEF SeenTyped
  <2>4. CASE ReadPosition BY <2>1, <2>2, <2>4 DEF ReadPosition, Abort, Step
  <2>5. CASE ReadOrders BY <2>1, <2>3, <2>5 DEF ReadOrders, Abort, Step
  <2> QED BY <2>4, <2>5
<1> QED BY <1>0, <1>1, <1>2, QuietTick

LEMMA NewRowIs ==
    ASSUME NEW g \in Nat, NEW r, r = [NoRow EXCEPT !.state = "open", !.gen = g]
    PROVE  r \in WatchRows /\ r.gen = g /\ ~r.latched
BY DEF NoRow, WatchRows

LEMMA TickEnsures ==
    ASSUME WatchInv, Heard, EnsureRow
    PROVE  Still /\ WatchTyped' /\ AdviceHeard' /\ LatchHeard' /\ StoredHeard' /\ SentHeard'
<1>0. Still /\ advised' = advised
  BY DEF EnsureRow, Still
<1>1. PICK stored \in Ensured :
          /\ row' = stored
          /\ mixed' = IF stored.gen = w.seen.gen THEN mixed ELSE mixed \cup {w.seen.gen}
          /\ w' = [Then("warn") EXCEPT !.stored = stored] \/ w' = Then("close")
  BY DEF EnsureRow, Step
<1>2. /\ pos' = pos /\ pos \in Positions /\ row \in WatchRows /\ row.gen <= pos.gen
      /\ SeenTyped /\ w.seen.gen \in Nat /\ w.seen.gen <= pos.gen
  BY <1>0 DEF Still, account, WatchInv, ExecInv, AccountTyped, Positions, WatchTyped, RowShaped,
              SeenTyped
<1>3. stored = row \/ stored = [NoRow EXCEPT !.state = "open", !.gen = w.seen.gen]
  BY <1>1 DEF Ensured
<1>4. stored \in WatchRows /\ stored.gen \in {row.gen, w.seen.gen} /\ (stored.latched => stored = row)
  BY <1>2, <1>3, NewRowIs
<1>5. stored.gen <= pos'.gen /\ mixed \subseteq mixed'
  BY <1>1, <1>2, <1>4
<1>6. RowShaped' /\ AdviceTyped' /\ AdviceHeard'
  <2>1. RowShaped' BY <1>1, <1>4, <1>5 DEF RowShaped
  <2>2. AdviceTyped' BY <1>0, <1>2 DEF WatchInv, WatchTyped, AdviceTyped
  <2>3. AdviceHeard' BY <1>0, <1>2, <1>5, QuietKeepsHeard DEF WatchInv, AdviceHeard
  <2> QED BY <2>1, <2>2, <2>3
<1>7. row'.latched => KnownOf(row'.gen, pos', alarm', mixed')
  BY <1>1, <1>2, <1>4, <1>5, QuietKeepsHeard DEF WatchInv, LatchHeard
<1>8. LatchHeard' BY <1>7 DEF LatchHeard
<1>9. SeenTyped' /\ StoredHeard' /\ SentHeard'
  <2>1. CASE w' = Then("close")
    <3>1. w' = [pc |-> "close", seen |-> w.seen, orders |-> w.orders, stored |-> w.stored]
      BY <1>2, <2>1, ThenIs
    <3>2. SeenTyped' BY <1>2, <3>1 DEF SeenTyped
    <3>3. w'.pc = "close" BY <3>1
    <3> QED BY <3>2, <3>3 DEF StoredHeard, SentHeard
  <2>2. CASE w' = [Then("warn") EXCEPT !.stored = stored]
    <3>1. w' = [pc |-> "warn", seen |-> w.seen, orders |-> w.orders, stored |-> stored]
      BY <1>2, <2>2, ThenIs
    <3>2. SeenTyped' BY <1>2, <1>4, <3>1 DEF SeenTyped
    <3>3. CASE stored.gen = w.seen.gen
      <4>1. KnownOf(w'.seen.gen, pos', alarm', mixed') \/ ~stored.latched
        <5>1. w'.seen.gen = w.seen.gen BY <3>1
        <5>2. row' = stored BY <1>1
        <5> QED BY <1>7, <3>3, <5>1, <5>2
      <4>2. w'.stored = stored /\ w'.seen = w.seen /\ w'.pc = "warn" BY <3>1
      <4> QED BY <3>2, <3>3, <4>1, <4>2 DEF StoredHeard, SentHeard
    <3>4. CASE stored.gen # w.seen.gen
      <4>1. w.seen.gen \in mixed' BY <1>1, <3>4
      <4> QED BY <3>1, <3>2, <4>1 DEF StoredHeard, SentHeard, KnownOf, HeardOf
    <3> QED BY <3>1, <3>2, <3>3, <3>4
  <2> QED BY <1>1, <2>1, <2>2
<1> QED BY <1>0, <1>6, <1>8, <1>9 DEF WatchTyped

LEMMA UnlatchIs ==
    ASSUME row \in WatchRows, NEW b \in BOOLEAN, row' = [row EXCEPT !.latched = b]
    PROVE  row' \in WatchRows /\ row'.gen = row.gen /\ row'.latched = b
BY DEF WatchRows

LEMMA TickWarns ==
    ASSUME WatchInv, Heard, Covered \/ Warn \/ CloseRow
    PROVE  Still /\ WatchTyped' /\ AdviceHeard' /\ LatchHeard' /\ StoredHeard' /\ SentHeard'
<1>0. Still /\ mixed' = mixed
  BY DEF Covered, Warn, CloseRow, Still, adviceVars
<1>1. /\ pos' = pos /\ pos \in Positions /\ row \in WatchRows /\ row.gen <= pos.gen
      /\ SeenTyped /\ w.seen.gen \in Nat /\ w.seen.gen <= pos.gen
  BY <1>0 DEF Still, account, WatchInv, ExecInv, AccountTyped, Positions, WatchTyped, RowShaped,
              SeenTyped
<1>2. row.latched \in BOOLEAN BY <1>1 DEF WatchRows
<1>3. ASSUME advised' \in {{}, advised},
             row' = row \/ row' = [row EXCEPT !.latched = FALSE] \/ row' = [row EXCEPT !.state = "closed"],
             NEW pc \in {"offer", "sweep"}, Goes(pc)
      PROVE  WatchTyped' /\ AdviceHeard' /\ LatchHeard' /\ StoredHeard' /\ SentHeard'
  <2>1. SeenTyped' /\ w'.pc \notin {"warn", "latch"} BY <1>1, <1>3, GoesTyped
  <2>2. row' \in WatchRows /\ row'.gen = row.gen /\ (row'.latched => row.latched)
    <3>1. CASE row' = row BY <1>1, <3>1
    <3>2. CASE row' = [row EXCEPT !.latched = FALSE] BY <1>1, <3>2, UnlatchIs
    <3>3. CASE row' = [row EXCEPT !.state = "closed"] BY <1>1, <3>3 DEF WatchRows
    <3> QED BY <1>3, <3>1, <3>2, <3>3
  <2> QED BY <1>0, <1>1, <1>3, <2>1, <2>2, QuietTick
<1>4. CASE Covered
  <2>1. advised' \in {{}, advised} /\ (row' = row \/ row' = [row EXCEPT !.latched = FALSE]) /\ Goes("offer")
    BY <1>4 DEF Covered, Unlatch, Step, Goes
  <2> QED BY <1>0, <1>3, <2>1
<1>5. CASE CloseRow
  <2>1. /\ advised' = advised /\ (row' = row \/ row' = [row EXCEPT !.state = "closed"])
        /\ Goes("sweep")
    BY <1>5 DEF CloseRow, Step, Goes, adviceVars
  <2> QED BY <1>0, <1>3, <2>1
<1>6. CASE Warn
  <2>1. CASE w' = Then("offer")
    <3>1. advised' \in {{}, advised} /\ (row' = row \/ row' = [row EXCEPT !.latched = FALSE])
      <4>1. Then("offer").pc # Then("latch").pc BY <1>1, ThenIs
      <4> QED BY <1>6, <2>1, <4>1 DEF Warn, Unlatch, Step
    <3> QED BY <1>0, <1>3, <2>1, <3>1 DEF Goes
  <2>2. CASE /\ row' = [row EXCEPT !.latched = @ /\ ~Flipped]
             /\ advised' = (IF Flipped THEN {} ELSE advised)
                              \cup {[reason |-> Reason, gen |-> w.seen.gen]}
             /\ w' = Then("latch")
    <3>1. w' = [pc |-> "latch", seen |-> w.seen, orders |-> w.orders, stored |-> w.stored]
      BY <1>1, <2>2, ThenIs
    <3>2. SeenTyped' BY <1>1, <3>1 DEF SeenTyped
    <3>3. alarm' = (pos'.qty > 0)
      BY <1>6, <3>1 DEF Heard, Warn
    <3>4. \A g : HeardOf(g, pos', alarm') BY <3>3 DEF HeardOf
    <3>5. /\ row' = [row EXCEPT !.latched = row.latched /\ ~Flipped]
          /\ (row.latched /\ ~Flipped) \in BOOLEAN
      BY <1>2, <2>2
    <3>6. row' \in WatchRows /\ row'.gen = row.gen
      BY <1>1, <3>5, UnlatchIs
    <3>7. RowShaped' /\ LatchHeard'
      BY <1>1, <3>4, <3>6 DEF RowShaped, LatchHeard, KnownOf, HeardOf
    <3>8. AdviceTyped'
      BY <1>1, <2>2 DEF WatchInv, WatchTyped, AdviceTyped
    <3>9. AdviceHeard' /\ SentHeard'
      BY <3>4 DEF AdviceHeard, SentHeard
    <3>10. StoredHeard' BY <3>1 DEF StoredHeard
    <3> QED BY <1>0, <3>2, <3>7, <3>8, <3>9, <3>10 DEF WatchTyped
  <2> QED BY <1>6, <2>1, <2>2 DEF Warn, Step
<1> QED BY <1>0, <1>4, <1>5, <1>6

LEMMA TickLatches ==
    ASSUME WatchInv, Heard, Latch
    PROVE  Still /\ WatchTyped' /\ AdviceHeard' /\ LatchHeard' /\ StoredHeard' /\ SentHeard'
<1>0. Still /\ advised' = advised
  BY DEF Latch, Still
<1>1. /\ pos' = pos /\ row \in WatchRows /\ row.gen <= pos.gen /\ SeenTyped
  BY <1>0 DEF Still, account, WatchInv, WatchTyped, RowShaped
<1>2. /\ row' = [row EXCEPT !.latched = TRUE]
      /\ mixed' = IF row.gen = w.seen.gen THEN mixed ELSE mixed \cup {row.gen}
      /\ w.pc = "latch" /\ Goes("offer")
  BY DEF Latch, Step, Goes
<1>3. row' \in WatchRows /\ row'.gen = row.gen /\ mixed \subseteq mixed'
  BY <1>1, <1>2, UnlatchIs
<1>4. SeenTyped' /\ w'.pc \notin {"warn", "latch"}
  BY <1>1, <1>2, GoesTyped
<1>5. WatchTyped'
  BY <1>0, <1>1, <1>3, <1>4 DEF WatchInv, WatchTyped, RowShaped, AdviceTyped
<1>6. AdviceHeard'
  BY <1>0, <1>1, <1>3, QuietKeepsHeard DEF WatchInv, AdviceHeard
<1>7. LatchHeard'
  <2>1. CASE row.gen = w.seen.gen
    <3>1. HeardOf(row.gen, pos', alarm')
      BY <1>1, <1>2, <1>3, <2>1, QuietKeepsHeard DEF WatchInv, SentHeard
    <3> QED BY <1>3, <3>1 DEF LatchHeard, KnownOf, HeardOf
  <2>2. CASE row.gen # w.seen.gen
    <3>1. row.gen \in mixed' BY <1>2, <2>2
    <3> QED BY <1>3, <3>1 DEF LatchHeard, KnownOf, HeardOf
  <2> QED BY <2>1, <2>2
<1> QED BY <1>0, <1>4, <1>5, <1>6, <1>7 DEF StoredHeard, SentHeard

LEMMA TickSweeps ==
    ASSUME WatchInv, Heard, Sweep
    PROVE  Aside /\ WatchInv'
<1>0. /\ UNCHANGED <<bookVars, inboxVars, l, pos, done, late, row>> /\ orders' \subseteq orders
      /\ advised' = advised /\ mixed' = mixed /\ w' = Asleep
  BY CancelKeeps DEF Sweep, adviceVars, Step
<1>1. Aside BY <1>0 DEF Aside, bookVars, inboxVars
<1>2. ClaimInv' BY <1>1, AsideKeeps DEF WatchInv, ExecInv
<1>3. AccountTyped' BY <1>0, FewerTyped DEF WatchInv, ExecInv
<1>4. RowsTyped' /\ \A p \in Listeners : Counted(l'[p])
  BY <1>0 DEF WatchInv, ExecInv, RowsTyped, bookVars
<1>5. ExecInv' BY <1>2, <1>3, <1>4 DEF ExecInv, Counted
<1>6. SeenTyped' /\ w'.pc \notin {"warn", "latch"}
  BY <1>0, GoesTyped, AsleepIs DEF Goes
<1>7. WatchTyped' /\ AdviceHeard' /\ LatchHeard' /\ StoredHeard' /\ SentHeard'
  BY <1>0, <1>6, QuietTick DEF WatchInv, WatchTyped, RowShaped
<1> QED BY <1>1, <1>5, <1>7 DEF WatchInv

LEMMA TickAdvises ==
    ASSUME WatchInv, Heard, Advise
    PROVE  Aside /\ WatchInv'
<1>1. PICK i \in Intents, kind \in Kinds \ {"entry"} : Offer(i, kind, w.seen)
  BY DEF Advise
<1>2. w.seen.qty \in Nat /\ w.seen.gen \in Nat
  BY DEF WatchInv, WatchTyped, SeenTyped, Positions
<1>3. Aside BY <1>1, OfferSteps DEF WatchInv, ExecInv
<1>4. ClaimInv' BY <1>3, AsideKeeps DEF WatchInv, ExecInv
<1>5. AccountTyped' /\ RowsTyped' /\ l' = l BY <1>1, <1>2, OfferTyped DEF WatchInv
<1>6. ExecInv' BY <1>4, <1>5 DEF ExecInv, Counted, WatchInv
<1>7. pos' = pos /\ row' = row /\ w' = w /\ advised' = advised /\ mixed' = mixed
  BY <1>1 DEF Offer, Advise, account, adviceVars
<1>8. w.pc = "offer" BY DEF Advise
<1>9. SeenTyped' BY <1>7 DEF WatchInv, WatchTyped, SeenTyped
<1>10. WatchTyped' /\ AdviceHeard' /\ LatchHeard' /\ StoredHeard' /\ SentHeard'
  BY <1>7, <1>8, <1>9, QuietTick DEF WatchInv, WatchTyped, RowShaped
<1> QED BY <1>3, <1>6, <1>10 DEF WatchInv

\* The process dies: nobody holds a claim any more, and what was won stays won.
LEMMA DeathKeeps ==
    ASSUME WatchInv, Heard, Die
    PROVE  UNCHANGED <<intent, won, sends>> /\ WatchInv'
<1>0. /\ UNCHANGED <<intent, won, sends, inbox, offset, pos, orders, done, late, row>>
      /\ advised' = advised /\ mixed' = mixed /\ w' = Asleep
  BY DEF Die, bookVars, inboxVars, account, adviceVars, Step
<1>1. l' = [p \in Listeners |-> Resting] BY DEF Die
<1>2. \A p \in Listeners : l'[p] = Resting BY <1>1
<1>3. ListenerShape'
  <2>1. Len(inbox') \in Nat BY <1>0, LenProperties DEF WatchInv, ExecInv, ClaimInv, BookShape
  <2> QED BY <1>1, <1>2, <2>1, RestShape DEF ListenerShape
<1>4. BookShape' /\ WonIsUsed' /\ SentIsWon'
  BY <1>0 DEF WatchInv, ExecInv, ClaimInv, BookShape, WonIsUsed, SentIsWon
<1>5. PastHasWon' /\ UnsentYet' /\ OneHolder'
  BY <1>2, RestShape DEF PastHasWon, UnsentYet, OneHolder, Past, Unclaimed, Unsent
<1>6. RowsTyped' /\ AccountTyped'
  BY <1>0 DEF WatchInv, ExecInv, RowsTyped, AccountTyped
<1>7. \A p \in Listeners : Counted(l'[p])
  BY <1>2 DEF Counted, Resting
<1>8. ExecInv' BY <1>3, <1>4, <1>5, <1>6, <1>7 DEF ExecInv, ClaimInv, Counted
<1>9. SeenTyped' /\ w'.pc \notin {"warn", "latch"}
  BY <1>0, GoesTyped, AsleepIs DEF Goes
<1>10. WatchTyped' /\ AdviceHeard' /\ LatchHeard' /\ StoredHeard' /\ SentHeard'
  BY <1>0, <1>9, QuietTick DEF WatchInv, WatchTyped, RowShaped
<1> QED BY <1>0, <1>8, <1>10 DEF WatchInv

LEMMA WatchInvInit == WatchInit => WatchInv
<1> SUFFICES ASSUME WatchInit PROVE WatchInv
  OBVIOUS
<1>1. ExecInv BY ExecInvInit DEF WatchInit
<1>2. row = NoRow /\ pos = Flat /\ w = Asleep /\ advised = {} BY DEF WatchInit, Init
<1>3. RowShaped /\ LatchHeard BY <1>2 DEF RowShaped, WatchRows, NoRow, Flat, LatchHeard
<1>4. SeenTyped
  <2>1. Asleep.seen \in Positions /\ Asleep.seen.gen <= pos.gen
    BY <1>2, AsleepIs DEF Positions, Flat
  <2> QED BY <1>2, <2>1, AsleepIs DEF SeenTyped
<1>5. AdviceTyped /\ AdviceHeard BY <1>2 DEF AdviceTyped, AdviceHeard
<1>6. StoredHeard /\ SentHeard BY <1>2, AsleepIs DEF StoredHeard, SentHeard
<1> QED BY <1>1, <1>3, <1>4, <1>5, <1>6 DEF WatchInv, WatchTyped

\* What a step beside the watch job is to the listeners.
LEMMA WatchSteps ==
    ASSUME WatchInv, [WatchNext]_watchVars
    PROVE  /\ WatchInv'
           /\ \/ \E p \in Listeners : Work(p)
              \/ Aside \/ UNCHANGED <<intent, won, sends>>
<1>0. ExecInv /\ ClaimInv BY DEF WatchInv, ExecInv
<1>1. ASSUME NEW p \in Listeners, Work(p), UNCHANGED <<w, adviceVars>>, Heard PROVE WatchInv'
  <2>1. Moved /\ RowKept BY <1>0, <1>1, WorkMoves
  <2>2. ExecInv' BY <1>0, <1>1, ExecInvStep DEF Next
  <2> QED BY <1>1, <2>1, <2>2, TradesKeepHeard DEF WatchInv
<1>2. ASSUME Outside \/ \E i \in Intents : Offer(i, "entry", pos), UNCHANGED <<w, adviceVars>>, Heard
      PROVE  Aside /\ WatchInv'
  <2>1. Outside \/ \E i \in Intents, kind \in Kinds : Offer(i, kind, pos)
    BY <1>2 DEF Offer
  <2>2. Moved /\ RowKept BY <1>0, <1>2, OutsideMoves DEF RowKept
  <2>3. ExecInv' BY <1>0, <2>1, ExecInvStep DEF Next
  <2>4. Aside BY <1>0, <2>1, OutsideSteps
  <2> QED BY <1>2, <2>2, <2>3, <2>4, TradesKeepHeard DEF WatchInv
<1>3. ASSUME Tick, Heard PROVE Aside /\ WatchInv'
  <2>1. CASE ReadPosition \/ ReadOrders
    BY <1>0, <1>3, <2>1, TickReads, StillKeepsExec DEF WatchInv
  <2>2. CASE EnsureRow \/ Covered \/ Warn \/ Latch \/ CloseRow
    BY <1>0, <1>3, <2>2, TickEnsures, TickWarns, TickLatches, StillKeepsExec DEF WatchInv
  <2> QED BY <1>3, <2>1, <2>2, TickAdvises, TickSweeps DEF Tick
<1>4. CASE UNCHANGED watchVars
  <2>1. /\ Still /\ row' = row /\ w' = w /\ alarm' = alarm /\ pos' = pos
        /\ advised' = advised /\ mixed' = mixed
    BY <1>4 DEF watchVars, vars, Still, account, adviceVars
  <2>2. WatchTyped' /\ AdviceHeard'
    BY <2>1 DEF WatchInv, WatchTyped, RowShaped, SeenTyped, AdviceTyped, AdviceHeard
  <2>3. LatchHeard' /\ StoredHeard' /\ SentHeard'
    BY <2>1 DEF WatchInv, LatchHeard, StoredHeard, SentHeard
  <2> QED BY <1>0, <2>1, <2>2, <2>3, StillKeepsExec DEF WatchInv
<1>5. CASE WatchNext
  <2>1. CASE Die /\ Heard BY <2>1, DeathKeeps
  <2>2. CASE Tick /\ Heard BY <2>2, <1>3
  <2>3. CASE (Outside \/ \E i \in Intents : Offer(i, "entry", pos)) /\ UNCHANGED <<w, adviceVars>> /\ Heard
    BY <2>3, <1>2
  <2>4. CASE Listening /\ UNCHANGED <<w, adviceVars>> /\ Heard BY <2>4, <1>1 DEF Listening
  <2> QED BY <1>5, <2>1, <2>2, <2>3, <2>4 DEF WatchNext
<1> QED BY <1>4, <1>5

THEOREM WatchInvariant == WatchSpec => []WatchInv
<1>1. WatchInv /\ [WatchNext]_watchVars => WatchInv'
  BY WatchSteps
<1> QED BY <1>1, WatchInvInit, PTL DEF WatchSpec

\* If the tick (watch.py, _emit_advice and the latch) says nothing of a position it saw bare,
\* and which is still open, its owner was warned while it was open: for any listeners, trades
\* by hand, failed sends and deaths, unless the row took the position for another one.
THEOREM SilentWasHeard == WatchSpec => []SilentIsHeard
<1>1. ASSUME WatchInv PROVE SilentIsHeard
  <2> SUFFICES ASSUME w.pc = "warn", Silent, w.seen.gen = pos.gen, pos.qty > 0
               PROVE  alarm \/ pos.gen \in mixed
    BY DEF SilentIsHeard
  <2>1. CASE KnownOf(w.seen.gen, pos, alarm, mixed)
    BY <2>1 DEF KnownOf, HeardOf
  <2>2. CASE w.stored.gen = w.seen.gen /\ ~w.stored.latched
    <3>1. PICK a \in advised : a.gen >= w.stored.gen
      BY <2>2 DEF Silent, AlreadySent
    <3>2. a.gen \in Nat /\ pos.gen \in Nat /\ a.gen <= pos.gen
      BY <1>1 DEF WatchInv, WatchTyped, AdviceTyped, ExecInv, AccountTyped
    <3>3. a.gen = pos.gen BY <2>2, <3>1, <3>2
    <3> QED BY <1>1, <3>3 DEF WatchInv, AdviceHeard, HeardOf
  <2> QED BY <1>1, <2>1, <2>2 DEF WatchInv, StoredHeard
<1> QED BY <1>1, WatchInvariant, PTL

\* The watch job, which offers stop moves and exits of its own and dies with the
\* listener, does not make an order go out twice.
THEOREM SentOnceWatched == WatchSpec => []SentOnce
<1>1. WatchInv => SentOnce
  BY DEF WatchInv, ExecInv, ClaimInv, BookShape, SentOnce
<1> QED BY <1>1, WatchInvariant, PTL

\* Listener and watch job together still implement the book of intents.
THEOREM WatchedImplementBook == WatchSpec => ImplementsBook
<1>1. WatchInit => Book!Init
  BY DEF WatchInit, Init, Book!Init, NoIntent
<1>2. WatchInv /\ [WatchNext]_watchVars => [Book!Next]_(Book!vars)
  <2> SUFFICES ASSUME WatchInv, [WatchNext]_watchVars PROVE [Book!Next]_(Book!vars)
    OBVIOUS
  <2>0. ClaimInv BY DEF WatchInv, ExecInv
  <2>1. ASSUME NEW p \in Listeners, Work(p) PROVE [Book!Next]_(Book!vars)
    BY <2>0, <2>1, WorkSteps, WorkRefines
  <2>2. CASE Aside
    BY <2>0, <2>2, AsideRefines
  <2>3. CASE UNCHANGED <<intent, won, sends>>
    BY <2>3 DEF Book!vars
  <2> QED BY <2>1, <2>2, <2>3, WatchSteps
<1> QED BY <1>1, <1>2, WatchInvariant, PTL DEF WatchSpec, ImplementsBook, Book!Spec
=============================================================================
