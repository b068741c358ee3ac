\* Two callers, one edit, one kill or failing write at any moment.
CONSTANTS
    Procs = {p1, p2}
    MaxVersion = 2
    MaxFaults = 1
    MaxCampaigns = 1
SYMMETRY Symmetry
SPECIFICATION Spec
INVARIANTS
    UpToDate
    ArtifactsMatch
CHECK_DEADLOCK FALSE
