-------------------------- MODULE MCAssistSignals --------------------------
(***************************************************************************)
(* The run over AssistSignals, and checks of the sizing over small inputs. *)
(***************************************************************************)
EXTENDS AssistSignals, Sizing

Levels == {20, 26, 29, 31, 40}
Firsts == {i \in {size_signal("long", 30, stop, balance, 1000, 1) :
                      stop \in Levels, balance \in {100, 300}} : OnItsSide("long", 30, i.stop)}

Candidate == [side : {"long"}, entry : {30}, stop : {20, 29}, qty : {1, 4, 6}, step : {1},
              leverage : {1}, confidence : {1, 2}, rank : {1, 2}]
\* One candidate per symbol, and a rank for each.
Scans == {{}} \cup {{a, b} : a \in {c \in Candidate : c.rank = 1}, b \in {c \in Candidate : c.rank = 2}}
Existing == {{}, {[symbol |-> "a", risk |-> 50000]}, {[symbol |-> "a", risk |-> 900000]}}

\* The loop of admit_signals against its promise: the ideas admitted are the longest run of
\* the best ones whose losses, with what is open already, stay within slots and budget.
Affordable(existing, ideas, balance) ==
    /\ Cardinality(existing) + Len(ideas) <= MAX_OPEN_IDEAS
    /\ Used(existing) + FoldLeft(LAMBDA sum, c : sum + Whole * Loss(c), 0, ideas) <= Budget(balance)

ASSUME AdmitsLongestRun ==
    \A existing \in Existing, scan \in Scans, balance \in {500, 1500} :
        LET ranked == Ranked(scan)
            runs == {k \in 0..Len(ranked) :
                        \A j \in 1..k : Affordable(existing, SubSeq(ranked, 1, j), balance)}
        IN  admit_signals(existing, scan, balance) = SubSeq(ranked, 1, Max(runs))

\* assign_shared_leverage: what is kept fits the available balance, and one idea more does not.
ASSUME KeepsWhatFits ==
    \A scan \in Scans, available \in {-1, 0, 5, 20, 40, 100} :
        LET ranked == Ranked(scan)
            kept == assign_shared_leverage(ranked, available)
        IN  /\ Total(kept) <= MAX_LEVERAGE * AtLeast(available, 0)
            /\ \/ Len(kept) = Len(ranked)
               \/ ~Fits(SubSeq(ranked, 1, Len(kept) + 1), available)

\* next_assist_run_ms: strictly after now, and never more than four hours away.
ASSUME NextRunIsNext ==
    \A now \in {24 + 15 * k : k \in 0..96} : next_assist_run(now) - now \in 1..FOUR_H

\* "keeping loss_at_stop <= first_loss" (sizing.py:112) is not kept where the cap is less
\* than a lot: the idea is quoted as it was sized.
ASSUME CapBelowOneLot ==
    \E first, i \in Firsts : first.qty > 0 /\ i.qty > 0
        /\ Loss(cap_requote_qty(i, first.qty, Loss(first), 100)) > Loss(first)

\* The preview of an entry takes the leverage of the shrunk idea and not its quantity
\* (execute.py:1163): it may be worth more than MAX_LEVERAGE times what is available.
ASSUME OfferedUnshrunk ==
    \E c \in Candidate : \E offered \in {Offered({}, c, 1500, 20, 0, 0)} :
        offered # <<>> /\ Notional(offered[1]) > MAX_LEVERAGE * 20
=============================================================================
