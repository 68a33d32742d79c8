\* Said of ConflictChannel in src/fs/Job.h; refuted by a conversion that asks.
SPECIFICATION Spec
CONSTANTS
    Transfers = {t1}
    Others = {o}
    MaxAsks = 1
INVARIANTS
    EverybodyAnswerable
CHECK_DEADLOCK FALSE
