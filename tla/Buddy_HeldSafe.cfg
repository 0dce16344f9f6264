CONSTANTS
    RootK = 2
    MaxChunks = 3
SPECIFICATION Spec
INVARIANTS HeldSafe
CHECK_DEADLOCK FALSE
