SPECIFICATION Spec
CONSTANTS
    NumSocks = 2
    NumDescs = 2
    t1 = t1  t2 = t2
    c1 = c1  c2 = c2
    Tasks <- MCTasks
    Clients <- MCClients
    NoClient = NoClient
    Preempt = TRUE
    ShareFds = FALSE
SYMMETRY MCSymmetry
INVARIANT ConnectionKept
CHECK_DEADLOCK FALSE
