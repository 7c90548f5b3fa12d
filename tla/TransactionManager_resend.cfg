CONSTANTS
    t1 = t1
    t2 = t2
    t3 = t3
    pa = pa
    pb = pb
    Txid <- MCTxid
    Peer <- MCPeer
    TxCacheSize = 3
    MaxInv = 4
    TimeoutPeriod = 1
    MaxTime = 2
SPECIFICATION Spec
PROPERTY
    ResendKeepsTimeout
