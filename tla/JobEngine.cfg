\* Three jobs, quiet or not, for two slots, one conflict each.
CONSTANTS
    MaxJobs = 3
    Cap = 2
    MaxAsks = 1
SPECIFICATION Spec
INVARIANTS
    TypeOK
    WorkersBounded
    NoWorkerWithoutJob
    ReportedOnce
    BarShowsWork
PROPERTIES
    ReportIsFinal
    ImplementsLifecycle
\* The user may stop submitting jobs, and MaxJobs bounds how many there are.
CHECK_DEADLOCK FALSE
