SPECIFICATION FairSpec
CONSTANTS
    Write = {w1, w2}
    MaxHandles = 3
    MaxMarks = 4
    Faults = {"begin", "save", "abort", "read", "cancel", "drop_inner"}
    ClientDrains = FALSE
INVARIANTS TypeOK QueuedMeansOutside StatementsStartClear HalfReadIsFlagged AbandonedIsQueued NothingJoinsAbandoned
PROPERTY AbandonedIsUndone
\* A closed connection stops.
CHECK_DEADLOCK FALSE
