CONSTANTS
    MaxStarts = 2
    MaxStops = 2
    MaxHeads = 2
    Syncs = TRUE
    Patient = TRUE
SPECIFICATION FairSpec
CHECK_DEADLOCK FALSE
INVARIANT FlagsMatchLoops
PROPERTY StopEnds
