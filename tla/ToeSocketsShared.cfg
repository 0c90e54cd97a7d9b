SPECIFICATION Spec
CONSTANTS
    NumSocks = 2
    NumDescs = 2
    t1 = t1  t2 = t2
    c1 = c1  c2 = c2
    Tasks <- MCTasks
    Clients <- MCClients
    NoClient = NoClient
    Preempt = FALSE
    ShareFds = TRUE
SYMMETRY MCSymmetry
INVARIANT Ownership
CHECK_DEADLOCK FALSE
