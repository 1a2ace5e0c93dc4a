CONSTANTS
    g = g
    a1 = a1
    a2 = a2
    a3 = a3
    b1 = b1
    b2 = b2
    b3 = b3
    x = x
    y = y
    z = z
    None = None
    Block = {g, a1, a2, a3, b1, b2, b3}
    Genesis = g
    Parent <- MCParent
    Number <- MCNumber
    TxsOf <- MCTxsOf
    ChainTx = {x, y, z}
    Own = {a2}
    Bad = {a3}
    Early = {b1}
    MaxBatch = 2
    MaxCrashes = 2
SPECIFICATION Spec
INVARIANT CanonicalLinked
INVARIANT LookupsExact
INVARIANT HeaderOnChain
INVARIANT HeadTold
PROPERTY HeadsSpec
CHECK_DEADLOCK FALSE
