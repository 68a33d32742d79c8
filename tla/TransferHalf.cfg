\* Said of the partial file in src/fs/jobs/TransferJob.h; refuted by two
\* copies of one name into one directory.
SPECIFICATION Spec
CONSTANTS
    Dirs = {x, y, z}
    Foreign = {}
    Targets = {z}
    Names = {a}
    Jobs = {j1, j2}
    Kinds = {"none", "file"}
    MaxItems = 2
    MaxCopies = 2
    MaxFaults = 0
INVARIANTS
    NeverHalfWritten
CHECK_DEADLOCK FALSE
