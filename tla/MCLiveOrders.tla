----------------------------- MODULE MCLiveOrders -----------------------------
(***************************************************************************)
(* The run over LiveOrders.  One long is enough for its order to be lost,  *)
(* recovered, stopped out and sold.  The scenes:                           *)
(*   Again    the card is offered twice, one call after the other, next to *)
(*            flatten and reconcile, with a lost call or a death;          *)
(*   Exit     a flat is approved as well, so that two sellers meet, with   *)
(*            two lost calls or a lost call and a death;                   *)
(*   AtOnce   two calls of the card run at once next to flatten;           *)
(*   Apart    calls of the card, two of them at once, start at two         *)
(*            different times, with a lost call and a death: three, or two *)
(*            next to reconcile.                                           *)
(***************************************************************************)
EXTENDS LiveOrders

Again(lost, deaths) ==
    [exits |-> {}, recons |-> Reconcilers, callers |-> {1} \cup Flatteners,
     faults |-> lost, crashes |-> deaths, retries |-> 1, times |-> 1]
Exit(lost, deaths) ==
    [exits |-> Exits, recons |-> {}, callers |-> Caller,
     faults |-> lost, crashes |-> deaths, retries |-> 0, times |-> 1]
AtOnce ==
    [exits |-> {}, recons |-> {}, callers |-> Caller,
     faults |-> 0, crashes |-> 0, retries |-> 1, times |-> 1]
Apart(recons, offers) ==
    [exits |-> {}, recons |-> recons, callers |-> Desks,
     faults |-> 1, crashes |-> 1, retries |-> offers, times |-> 2]

MCScenes == {Again(1, 0), Again(0, 1), Exit(2, 0), Exit(1, 1), AtOnce,
             Apart({}, 2), Apart(Reconcilers, 1)}
=============================================================================
