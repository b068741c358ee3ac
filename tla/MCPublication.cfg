\* Two zip plug-ins, two campaigns, two calls of the command, one fault.  With
\* --force "ask" is "always", which an answer to "ask" is besides.
CONSTANTS
    NZips = 2
    Layouts <- MCLayouts
    Policies = {"ask", "never"}
    MaxCampaigns = 2
    MaxRecords = 2
    MaxFaults = 1
    MaxEdits = 1
    MaxRuns = 2
SPECIFICATION Spec
INVARIANTS
    UploadedAreWhole
    Delivered
CHECK_DEADLOCK FALSE
