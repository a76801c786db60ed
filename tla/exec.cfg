SPECIFICATION Spec
CONSTANTS
    Intents = {i1, i2}
    Owner = owner
    Listeners = {p1}
    Kinds = {"entry", "move", "exit"}
    Size = 2
    Levels = {1}
    Thin = FALSE
    Delays = TRUE
    MaxTaps = 2
    MaxFaults = 2
    MaxCrashes = 1
    MaxManual = 1
INVARIANTS TypeOK SentOnce BareIsTold
PROPERTIES ImplementsBook CoverNeverCancelled
CHECK_DEADLOCK FALSE
