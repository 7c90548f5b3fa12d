CONSTANTS
    t1 = t1
    t2 = t2
    pa = pa
    Txid <- MCTxid
    Peer <- MCPeer
    TxCacheSize = 2
    MaxInv = 3
    TimeoutPeriod = 0
    MaxTime = 1
    SendMayFail = FALSE
SPECIFICATION RelaySpec
INVARIANTS
    RelayTypeOK
    InvAccountedFor
PROPERTIES
    EventuallyRelayed
