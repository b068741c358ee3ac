\* Two campaigns side by side, two batches of one job each; no symmetry, for
\* liveness.
CONSTANTS
    Campaigns = {c1, c2}
    MaxBatches = 2
    Width = 1
    TimeLimited = {c1}
    NameKey <- Own
    Label <- Own
SPECIFICATION Spec
INVARIANTS
    CollectsAfterEnd
PROPERTIES
    CleanupSparesRunning
    RunnersEnd
CHECK_DEADLOCK FALSE
