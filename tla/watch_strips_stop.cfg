SPECIFICATION WatchSpec
CONSTANTS
    Intents = {i1}
    Owner = owner
    Listeners = {p1}
    Kinds = {"entry", "exit"}
    Size = 2
    Levels = {1}
    Thin = FALSE
    Delays = FALSE
    MaxTaps = 1
    MaxFaults = 0
    MaxCrashes = 0
    MaxManual = 0
PROPERTY CoverNeverCancelled
CHECK_DEADLOCK FALSE
