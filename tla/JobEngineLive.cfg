\* Two jobs for one slot: the second waits for the first.
CONSTANTS
    MaxJobs = 2
    Cap = 1
    MaxAsks = 1
SPECIFICATION FairSpec
PROPERTIES
    CancelIsObeyed
    QueueMoves
    BarGoesAway
\* The user may stop submitting jobs, and MaxJobs bounds how many there are.
CHECK_DEADLOCK FALSE
