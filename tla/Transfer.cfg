\* Two transfers of one item each, or one of two, into a directory that may
\* hold the name already, from one on its filesystem and one that is not.
SPECIFICATION Spec
CONSTANTS
    Dirs = {x, y, z}
    Foreign = {y}
    Targets = {z}
    Names = {a}
    Jobs = {j1, j2}
    Kinds = {"none", "file", "link"}
    MaxItems = 2
    MaxCopies = 2
    MaxFaults = 1
SYMMETRY JobSymmetry
INVARIANTS
    DestinationsAreWhole
    
    PartialsAreInUse
    
\* Jobs end.
CHECK_DEADLOCK FALSE
