SPECIFICATION FairSpec
CONSTANTS
    Sides = {"long", "short"}
    MaxIdeas = 2
    MaxAnalyses = 1
    MaxLosses = 1
    MaxEvents = 2
INVARIANTS OneHeldPerSymbol SentIsTracked StreakPausesOnce
PROPERTIES OffMeansOff IdeaSeenOnce HeldIsDecided
CHECK_DEADLOCK FALSE
