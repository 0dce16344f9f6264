CONSTANTS
    Modes = {"memplot"}
    HeapSize = 4
    Sizes = {1, 2}
    Blocks = {1, 2, 3}
    TraceHandles = 3
    MaxLines = 5
    MaxRewinds = 2
    KillPercent = 100
    OpLimit = 4
SPECIFICATION Spec
INVARIANTS GreenIsFree
CHECK_DEADLOCK FALSE
