\* Every way to call the script, signals at any moment.
CONSTANTS
    NConfigs = 2
    Runs = 4
    RunsPerJob = 3
    MaxPresses = 3
    MaxTerms = 1
SPECIFICATION LocalSpec
INVARIANTS
    
    ZeroMeansAllPassed
PROPERTIES
    ScriptEnds
CHECK_DEADLOCK FALSE
