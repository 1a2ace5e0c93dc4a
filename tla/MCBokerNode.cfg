SPECIFICATION Spec
CONSTANTS
    Voter = {v1, v2}
    Candidate = {c1, c2}
    v1 = v1
    v2 = v2
    c1 = c1
    c2 = c2
    Tokens = {1}
    Purse = 2
    VoteLockup = 6
    VoteUnlockPrecision = 1
    VoteCyclePeriod = 2
    MaxPauses = 2
    Funds = 1
    MaxDelay = 1
    MaxTime = 8
    MaxVotes = 2
INVARIANT NoTokenLost
INVARIANT TicketsExact
INVARIANT CancelPossible
INVARIANT UnlockedInTime
PROPERTY RotateCatchesUp
PROPERTY LockHeld
SYMMETRY Interchangeable
CHECK_DEADLOCK FALSE
