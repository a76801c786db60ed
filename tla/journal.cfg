SPECIFICATION Spec
CONSTANTS
    MaxFills = 4
    MaxAttempts = 2
    Size = 1
    Script <- FailThenPass
    MaxEvents = 2
INVARIANTS ClosedRowsSold CardOnce GradeIsLastTap
PROPERTIES ReopenedOnlyByOldRead ClosedIsJournaled JournaledIsCarded
CHECK_DEADLOCK FALSE
