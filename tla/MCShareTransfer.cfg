\* Six shares of the four kinds; two archives, two calls, two faults and
\* one removal.
CONSTANTS
    dav = dav
    dav2 = dav2
    cloud = cloud
    ssh = ssh
    bucket = bucket
    bucket2 = bucket2
    Targets <- MCTargets
    Kind <- MCKind
    InPlace <- MCInPlace
    Ranged <- MCRanged
    Length <- MCLength
    MaxFaults = 2
    MaxCalls = 2
    MaxRemovals = 1
SPECIFICATION Spec
INVARIANTS
    ReportedIsWhole
    PartIsInPlace
    ForcedCallRecovers
CHECK_DEADLOCK FALSE
