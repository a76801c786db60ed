SPECIFICATION Spec
CONSTANTS
    Symbol = {a}
    Preset = {a}
    Presets <- MCPresets
    Never = Never
    Kinds = {"calm", "fall"}
    Actions = {"long"}
    Answers = {"none", "veto"}
    Width = 1
    MAX_BARS = 2
    MAX_CALLS = 1
    MaxNow = 3
    MaxEdits = 1
    MaxRows = 2
INVARIANTS TrackIsWalk
PROPERTIES PastStands ScoresStand
CHECK_DEADLOCK FALSE
