\* Two operators, two flag files, two namespaces, one provider of each kind;
\* three commands and one fault.
CONSTANTS
    Operators = {o1, o2}
    Slots = {f1, f2}
    Namespaces = {dflt, other}
    DefaultNs = dflt
    Configs = {"rke2", "gcp"}
    Rights <- MCRights
    NoFlag = noFlag
    MaxCalls = 3
    MaxFaults = 1
SYMMETRY Interchangeable
SPECIFICATION SetupSpec
INVARIANTS
    FlagMeansSetUp
    CleanupRecovers
PROPERTY CleanupLeavesNothing
CHECK_DEADLOCK FALSE
