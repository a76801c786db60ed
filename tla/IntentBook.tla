----------------------------- MODULE IntentBook -----------------------------
(***************************************************************************)
(* What the confirm buttons of the trade assistant promise, without        *)
(* listeners, crashes or an exchange: an intent is offered, then one       *)
(* caller wins it or it is dropped; what was won is sent at most once and  *)
(* what was dropped is never sent.                                         *)
(***************************************************************************)
CONSTANT Intents

VARIABLES
    offered,    \* intents that wait for the owner's tap
    won,        \* intents a caller has claimed
    sent        \* intents whose order has gone to the exchange

vars == <<offered, won, sent>>

Init == offered = {} /\ won = {} /\ sent = {}

Offer(i) ==
    /\ i \notin offered \cup won
    /\ offered' = offered \cup {i}
    /\ UNCHANGED <<won, sent>>

Win(i) ==
    /\ i \in offered
    /\ offered' = offered \ {i}
    /\ won' = won \cup {i}
    /\ UNCHANGED sent

Drop(i) ==
    /\ i \in offered
    /\ offered' = offered \ {i}
    /\ UNCHANGED <<won, sent>>

Send(i) ==
    /\ i \in won \ sent
    /\ sent' = sent \cup {i}
    /\ UNCHANGED <<offered, won>>

Next == \E i \in Intents : Offer(i) \/ Win(i) \/ Drop(i) \/ Send(i)

Spec == Init /\ [][Next]_vars
=============================================================================
