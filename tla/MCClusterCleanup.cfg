\* Safety: one clean-up command beside two campaigns.
CONSTANTS
    Campaigns = {c1, c2}
    MaxBatches = 1
    Width = 1
    TimeLimited = {c1}
    Operators = {o1}
    All = all
    NameKey <- Own
    Label <- Own
    Bucket <- Own
    Sanitized <- Own
SPECIFICATION CleanupSpec
INVARIANTS
    OthersCollectAfterEnd
    DeadStaysClean
PROPERTY SparesOthers
CHECK_DEADLOCK FALSE
