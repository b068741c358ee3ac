\* Three selections among two campaigns with two and one notebooks.
CONSTANTS
    c1 = c1
    c2 = c2
    Campaigns = {c1, c2}
    Views <- TwoAndOne
    MaxTasks = 3
SPECIFICATION Spec
INVARIANTS
    LastSelectionShown
PROPERTIES
    NeverBackwards
    SelectionAnswered
CHECK_DEADLOCK FALSE
