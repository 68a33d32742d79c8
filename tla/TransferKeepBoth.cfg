\* Said of "Keep both" in src/ui/modals/ConflictModal.cpp; refuted by the
\* copy of a link onto a name that is taken.
SPECIFICATION Spec
CONSTANTS
    Dirs = {x, z}
    Foreign = {}
    Targets = {z}
    Names = {a}
    Jobs = {j1}
    Kinds = {"none", "file", "link"}
    MaxItems = 1
    MaxCopies = 2
    MaxFaults = 0
PROPERTIES
    KeepBothKeepsBoth
CHECK_DEADLOCK FALSE
