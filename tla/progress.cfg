CONSTANTS
    j1 = j1
    j2 = j2
    Jobs = {j1, j2}
    Size <- Sizes
    Capacity = 2
    Slots = 2
    MaxLate = 1

SPECIFICATION Spec
INVARIANTS TypeOK CompletedBarIsFull PlannedIsEnough DiskFullOnlyWhenShared
