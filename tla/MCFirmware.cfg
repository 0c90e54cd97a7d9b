SPECIFICATION FairSpec
CONSTANTS
    eth = eth  wifi = wifi
    s1 = s1  s2 = s2
    NoServer = NoServer
    MaxBlocks = 4  Sessions = {1, 2}  Wrap = 4  Timeout = 1  TftpRetry = 2
    Half = 1  AckTime = 1  PubTime = 1  Cap = 1  PktIds = 2
    MaxPubs = 2  MaxCells = 1  BrokerModes <- BrokerFaults
    MaxSend = 2  PppRetry = 1  MaxLosses = 1  MaxRepeats = 1
    PppModes <- PppFaults
    Interfaces = {eth, wifi}  Servers = {s1, s2}  Setups <- LanSetups
    XmitTries = 2  DhcpRetries = 1
    Programs <- TcpPrograms  MaxClients = 2  MaxSay = 3  RequestRoom = 2
    UpnpAttempts = 2  EventSeconds = 2
    Services <- UdpExamples  SntpAttempts = 2  MaxIn = 2
    Sockets = {0, 1}  Descriptors = {0, 1, 2}
    LwipOffset = 1  MaxAddress = 2
INVARIANTS WholeFile AcksInOrder KeptAlive OwnAddress OwnLease Answered TrueReport OwnReplies
PROPERTIES TransferEnds DeadNoticed Connects GetsLease SessionEnds
CHECK_DEADLOCK FALSE
