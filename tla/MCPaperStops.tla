---------------------------- MODULE MCPaperStops ----------------------------
EXTENDS PaperStops

Shape(o, h, l, c) == [open |-> o, high |-> h, low |-> l, close |-> c]

\* A rise, a fall, a bar wide enough for both milestones of one side and the
\* stop of the other, and a gap down.
MCShapes == {Shape(0, 2, 0, 2), Shape(0, 0, -2, -1), Shape(0, 2, -2, 1), Shape(-3, -2, -4, -2)}

Live == [driver |-> "paper", frame |-> "4h", policy |-> "rules", exits |-> "confidence",
         stops |-> "trail", breakeven |-> TRUE]

MCModes == {Live} \cup
    {[Live EXCEPT !.driver = "replay", !.frame = f, !.policy = p, !.exits = x, !.stops = s,
                  !.breakeven = (b /\ s = "trail")] :
        f \in {"1h", "4h"}, p \in {"naive", "rules"}, x \in {"confidence", "regime"},
        s \in {"fixed", "trail"}, b \in BOOLEAN}

MCMaxBars == [paper |-> 3, replay |-> 4]
=============================================================================
