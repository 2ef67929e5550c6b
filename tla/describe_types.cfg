SPECIFICATION Spec
CONSTANTS
    Statements <- EveryStatement
    Builds <- EveryBuild
INVARIANTS TypeOK DeclaredInOrder TypesMatchMarkers ReportedTypesAreOwned ColumnsAreOwned VisibleColumnsOnly
\* A statement is described once.
CHECK_DEADLOCK FALSE
