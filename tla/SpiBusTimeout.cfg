SPECIFICATION Spec
CONSTANTS
    t1 = t1  t2 = t2  t3 = t3
    Tasks <- MCTasks
    NoTask = NoTask
    Timeouts = TRUE
    BusFails = FALSE
INVARIANT FrameOwned
