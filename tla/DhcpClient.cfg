SPECIFICATION Spec
CONSTANTS
    s1 = s1  s2 = s2
    NoServer = NoServer
    XmitTries = 2
    StepPackets = 2
    BufferLen = 2
    MaxXid = 7
    Servers <- MCServers
    Prompt = FALSE
SYMMETRY MCSymmetry
INVARIANT ChipHasLease
PROPERTIES LeaseRequested BoundKept
