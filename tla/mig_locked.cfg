SPECIFICATION FairSpec
CONSTANTS
    Migrator = {m1, m2}
    None = None
    LastVersion = 3
    MaxLocks = 2
    Scenarios <- EveryScenario
INVARIANTS TypeOK SeenIsCurrent AppliedIffRecorded RecordedInOrder RanAtMostOnce
PROPERTY EveryJobEnds
