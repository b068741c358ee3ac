\* Two sets per batch out of three, one or two runs each; two batches, by budget
\* or for want of a better bound.
CONSTANTS
    i1 = i1
    i2 = i2
    i3 = i3
    n1 = n1
    n2 = n2
    Ids = {i1, i2, i3}
    Names = {n1, n2}
    Digest <- DigestOf
    PerBatch = 2
    RepCounts = {1, 2}
    ParamSets <- Proposals
    Values = {0, 1}
    BatchLimits = {0, 2}
    MaxBatches = 1
    Patience = 1
    MinDelta = 0
    Target = 1
    NoFile = NoFile
SPECIFICATION Spec
INVARIANTS
    ToldWhatWasAsked
    OwnResultsCounted
    NoImprovementExact
PROPERTIES
    FreshSamplesRight
    SearchEnds
CHECK_DEADLOCK FALSE
