CONSTANTS
    MaxStarts = 1
    MaxStops = 0
    MaxHeads = 0
    Syncs = TRUE
    Patient = FALSE
SPECIFICATION FairSpec
CHECK_DEADLOCK FALSE
PROPERTY StartTakesEffect
