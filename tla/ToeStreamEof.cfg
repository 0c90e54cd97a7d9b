SPECIFICATION Spec
CONSTANTS
    PeerBytes = 2
    AppBytes = 4
    RxSize = 2
    TxSize = 2
    Vectors <- MCVectors
    HalfClose = FALSE
INVARIANT EofIsEnd
