\* Said of moveToTrash in src/fs/Trash.cpp; refuted by two deletions that
\* choose one name.
SPECIFICATION Spec
CONSTANTS
    Paths = {p, p2}
    Far = {}
    Jobs = {j1, j2}
    Gui = gui
    Capacity = 2
    MaxSlot = 1
    MaxFiles = 4
    MaxOps = 2
    MaxFaults = 0
\* Jobs end, and MaxOps bounds how many there are.
CHECK_DEADLOCK FALSE
INVARIANT ItemsAlwaysHaveRecords
