SPECIFICATION FairSpec
CONSTANTS
    n1 = n1
    n2 = n2
    Node = {n1, n2}
    Miners = {n1, n2}
    Founders = {n1}
    StartupDone = TRUE
    GenesisTime = 0
    ProducerInterval = 2
    EpochInterval = 4
    MaxValidatorSize = 2
    ConsensusSize = 1
    ErrInvalidProducerTime = ErrInvalidProducerTime
    ErrInvalidProducer = ErrInvalidProducer
    NoNode = NoNode
    NoTx = NoTx
    NoBlock = NoBlock
    MaxTime = 7
    MaxLen = 5
    MaxLag = 1
    MaxCrashes = 1
INVARIANTS
    MintCntExact
    ListMatchesTrie
    OneChain
    ConfirmedFinal
    PeersAccept
    ConfirmsReference
PROPERTIES
    BlocksSpread
CHECK_DEADLOCK FALSE
