CONSTANTS
    n1 = n1
    n2 = n2
    Node = {n1, n2}
    Validators <- TwoValidators
    EpochInterval = 8
    TokenNoderInterval = 2
    RoundAdd = {1, 2}
    MaxRound = 3
    MaxFailures = 1
    MaxRestarts = 2
SPECIFICATION Spec
INVARIANT AssignOnce
INVARIANT RoundTracked
