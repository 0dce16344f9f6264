CONSTANTS
    HeapSize = 29
    HeaderSize = 3
    FreeBlockSize = 2
    PtrSize = 1
    MaxHeader = 9
    Sizes = {1, 4, 24}
    Calls = {"lock", "weaklock", "compact"}
    MaxMallocs = 4
SPECIFICATION Spec
INVARIANTS TypeOK BlocksTile HandlesListed SlotsExact LockedPinned ContentsKept HeadersAboveBlocks SortedInPass
PROPERTIES ImplementsRelocHeap CompactedFully CompactKeepsLocked CompactTerminates NoFaultWithoutCompact
CHECK_DEADLOCK FALSE
