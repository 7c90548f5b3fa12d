CONSTANTS
    g = g
    a1 = a1
    a2 = a2
    b1 = b1
    b2 = b2
    o = o
    zero = zero
    Header <- MCHeader
    Genesis = g
    ZeroHash = zero
    Prev <- MCPrev
    HeaderWork <- MCHeaderWork
    MaxBatch = 3
    MaxHeight = 3
INIT Init
NEXT Next
INVARIANT
    ValidatorSeesActiveTip
