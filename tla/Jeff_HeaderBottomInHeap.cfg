CONSTANTS
    HeapSize = 24
    HeaderSize = 3
    FreeBlockSize = 2
    PtrSize = 1
    MaxHeader = 7
    Sizes = {1, 5}
    Calls = {"lock", "compact"}
    MaxMallocs = 5
SPECIFICATION Spec
INVARIANTS HeaderBottomInHeap
CHECK_DEADLOCK FALSE
