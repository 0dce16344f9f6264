CONSTANTS
    Modes = {"peakmem", "allocstats", "memplot"}
    HeapSize = 4
    Sizes = {1, 2}
    Blocks = {1, 2, 3}
    TraceHandles = 3
    MaxLines = 4
    MaxRewinds = 2
    KillPercent = 100
    OpLimit = 4
SPECIFICATION Spec
INVARIANTS TypeOK TablesAgree UsedSpaceExact LocksReachLive LocksFollowTrace ColorsExact
PROPERTIES FreeOnlyOwn Terminates
CHECK_DEADLOCK FALSE
