SPECIFICATION Spec
CONSTANTS
    NumSocks = 2
    NumDescs = 3
    t1 = t1  t2 = t2
    c1 = c1  c2 = c2
    Tasks <- MCTasks
    Clients <- MCClients
    NoClient = NoClient
    Preempt = FALSE
    ShareFds = FALSE
SYMMETRY MCSymmetry
INVARIANTS TypeOK Ownership ConnectionKept NoUnownedConnection NoForgottenListener
PROPERTIES Accepts
CHECK_DEADLOCK FALSE
