SPECIFICATION Spec
CONSTANTS
    Chars <- CommentsOnly
    MaxLength = 9
    MaxArgs = 2
INVARIANT LeavesCommentsAlone
CHECK_DEADLOCK FALSE
