SPECIFICATION Spec
CONSTANTS
    Migrator = {m1}
    None = None
    LastVersion = 1
    MaxLocks = 2
    Scenarios <- FailedRollback
INVARIANT NextMigrationBegins
