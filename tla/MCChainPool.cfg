CONSTANTS
    g = g
    a1 = a1
    b1 = b1
    b2 = b2
    alice = alice
    bob = bob
    Block = {g, a1, b1, b2}
    Genesis = g
    Parent <- MCParent
    Number <- MCNumber
    TxsOf <- MCTxsOf
    MaxCrashes = 1
    Account = {alice, bob}
    Tx <- MCTx
    PriceBump = 10
    AccountSlots = 1
    GlobalSlots = 2
    AccountQueue = 1
    GlobalQueue = 1
    Funds <- MCFunds
    GasPrices = {1, 25}
    DeepReorg = 64
    MaxCalls = 3
SPECIFICATION PoolSpec
INVARIANT PoolAccounted
INVARIANT PendingExecutable
INVARIANT NoneForgotten
PROPERTY ReorgKeepsTxs
CHECK_DEADLOCK FALSE
