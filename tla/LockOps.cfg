CONSTANTS
    MaxAddr = 3
    Sizes = {0, 1, 2, 3}
    AccessSizes = {1, 2}
    MaxMallocs = 3
    MaxReallocs = 1
    MaxOps = 7
SPECIFICATION LockSpec
INVARIANTS TypeOK LiveMapped NothingStale OpsTellLives AccessesAttributed
    FilesReplayable ShortLivesLocked AccessesLocked
CHECK_DEADLOCK FALSE
