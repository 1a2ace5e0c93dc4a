CONSTANTS
    Node = {n1, n2}
    Miner = {n1}
    Address = {a1, a2}
    TxType <- AllTypes
    MaxDrops = 1
    MaxBlocks = 2
    n1 = n1
    n2 = n2
    a1 = a1
    a2 = a2
SPECIFICATION Spec
SYMMETRY Interchangeable
INVARIANT MapMatchesTries
INVARIANT ServiceRuns
INVARIANT NodesAgree
INVARIANT ReloadsOwnHead
