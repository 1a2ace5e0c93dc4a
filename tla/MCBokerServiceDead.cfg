CONSTANTS
    n1 = n1
    n2 = n2
    Node = {n1, n2}
    Validators <- OneValidator
    EpochInterval = 8
    TokenNoderInterval = 2
    RoundAdd = {1, 2}
    MaxRound = 0
    MaxFailures = 1
    MaxRestarts = 0
SPECIFICATION FairSpec
PROPERTY AssignRecurs
