SPECIFICATION FairSpec
CONSTANTS
    Threads = {c, s}
    Consumers = {c}
    None = None
    Tasks = {k1, k2}
    MaxQueued = 2
    CqEntries = 2
    MaxOps = 3
    Workloads = {{"io_submit", "io_wait", "timed_wait"},
                     {"io_submit", "io_wait", "setup_rings", "ring_enter"},
                     {"io_submit", "io_wait", "blocking"},
                     {"io_submit", "one_entry", "timed_wait", "blocking"}}
INVARIANTS NoLostWakeup TimeoutStillComing ExactlyOnce InPostOrder ResultThere
PROPERTIES WaitReturns TimedWaitReturns
CHECK_DEADLOCK FALSE
