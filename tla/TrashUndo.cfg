\* Two workers and the GUI thread, over two directories of the home volume and
\* one of another.
SPECIFICATION Spec
CONSTANTS
    Paths = {p, p2, q}
    Far = {q}
    Jobs = {j1, j2}
    Gui = gui
    Capacity = 2
    MaxSlot = 1
    MaxFiles = 4
    MaxOps = 2
    MaxFaults = 1
INVARIANTS
    NoFileLost
    
    EntriesAreGood
    UndoIsInverse
\* Jobs end, and MaxOps bounds how many there are.
CHECK_DEADLOCK FALSE
SYMMETRY JobSymmetry
