SPECIFICATION Spec
CONSTANTS
    Chars <- EveryBranch
    MaxLength = 6
    MaxArgs = 2
INVARIANTS TypeOK RewritesTheMarkers ReadsAsTSQL EveryArgumentIsUsed
CHECK_DEADLOCK FALSE
