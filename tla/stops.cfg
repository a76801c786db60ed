SPECIFICATION Spec
CONSTANTS
    Shapes <- MCShapes
    Modes <- MCModes
    Start = 20
    Risks = {2}
    Buffer = 1
    Wide = 2
    MaxBars <- MCMaxBars
    MaxRows = 2
    MaxCopies = 1
INVARIANTS TypeOK LockedIn
PROPERTIES StopTightens TouchedStopFills ReplayClosesTouched ReplayFillsInBar
CHECK_DEADLOCK FALSE
