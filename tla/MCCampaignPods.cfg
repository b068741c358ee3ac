\* Two campaigns, one of them with a sidecar, one outage, one
\* monitor; no symmetry, for liveness.
CONSTANTS
    Campaigns = {c1, c2}
    Sidecars = {c1}
    MaxOutages = 1
SPECIFICATION Spec
INVARIANTS
    FailedLaunchLeavesNoPod
    RunsAsStaged
    DoneMeansEnded
PROPERTIES
    MonitorReturns
CHECK_DEADLOCK FALSE
