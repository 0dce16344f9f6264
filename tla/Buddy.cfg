CONSTANTS
    RootK = 2
    MaxChunks = 3
SPECIFICATION Spec
INVARIANTS TypeOK LeavesTile HeldSafeIfClean MergedBackIfClean
CHECK_DEADLOCK FALSE
