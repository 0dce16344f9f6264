CONSTANTS
    MaxLen = 6
    MaxAddress = 2
SPECIFICATION Spec
INVARIANTS NoneLost RunsSorted SortedStable
PROPERTIES Terminates
CHECK_DEADLOCK FALSE
