SPECIFICATION MCFairSpec
CONSTANTS
    MaxFrames = 3
    MaxSends = 2
    RxRoom = 2
    TxRoom = 2
    MaxGlitches = 2
    LinkGlitches = 1
    FaultModes <- DataModes
    LinkFaultModes <- LinkModes
    MaxFlaps = 2
    MaxCalls = 2
    CountRange = 3
    MaxGroups = 3
    MaxModes = 2
    MaxFailures = 1
INVARIANTS FramesInOrder TransmitTells AddressTakes StoppedIsQuiet GroupsHeard
PROPERTIES FramesLeave TaskRests LinkSettles
CHECK_DEADLOCK FALSE
