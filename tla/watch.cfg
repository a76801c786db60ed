SPECIFICATION WatchSpec
CONSTANTS
    Intents = {i1}
    Owner = owner
    Listeners = {p1}
    Kinds = {"entry", "exit"}
    Size = 2
    Levels = {1}
    Thin = TRUE
    Delays = TRUE
    MaxTaps = 1
    MaxFaults = 1
    MaxCrashes = 1
    MaxManual = 1
INVARIANT SilentIsHeard
PROPERTIES BareIsAlarmed OrphansSwept
CHECK_DEADLOCK FALSE
