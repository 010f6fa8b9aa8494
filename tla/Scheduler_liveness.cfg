SPECIFICATION FairSpec
CONSTANTS
    MaxThreads = 4
    QUANTUM_TICKS = 2
    UserOps <- AllUserOps
    Donations <- NoDonation
PROPERTIES
    ReadyRuns
