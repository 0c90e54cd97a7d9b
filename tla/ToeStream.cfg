SPECIFICATION FairSpec
CONSTANTS
    PeerBytes = 2
    AppBytes = 4
    RxSize = 2
    TxSize = 2
    Vectors <- MCVectors
    HalfClose = TRUE
INVARIANTS StreamOut StreamIn
PROPERTIES EndIsSeen WritesEnd
