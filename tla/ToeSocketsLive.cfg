SPECIFICATION FairSpec
CONSTANTS
    NumSocks = 2
    NumDescs = 2
    t1 = t1  t2 = t2
    c1 = c1  c2 = c2
    Tasks <- MCTasks
    Clients = {c1}
    NoClient = NoClient
    Preempt = FALSE
    ShareFds = FALSE
PROPERTIES ListenerHeals ClientDelivered CallsReturn
CHECK_DEADLOCK FALSE
