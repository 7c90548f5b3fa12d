CONSTANTS
    t1 = t1
    t2 = t2
    pa = pa
    Txid <- MCTxid
    Peer <- MCPeer
    TxCacheSize = 2
    MaxInv = 3
    TimeoutPeriod = 1
    MaxTime = 3
    MaxReal = 3
    ClockMayJumpBack = FALSE
SPECIFICATION ClockSpec
PROPERTIES
    ReapHonoursTimeout
