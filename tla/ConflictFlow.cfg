\* Two transfers with two questions each.
SPECIFICATION FairSpec
CONSTANTS
    Transfers = {t1, t2}
    Others = {}
    MaxAsks = 2
INVARIANTS
    TypeOK
    AnswersAreCurrent
    TransfersAnswerable
PROPERTIES
    TransfersGoOn
\* Jobs end, and MaxAsks bounds their questions.
CHECK_DEADLOCK FALSE
