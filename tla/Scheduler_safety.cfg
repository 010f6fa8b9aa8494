SPECIFICATION Spec
CONSTANTS
    MaxThreads = 5
    QUANTUM_TICKS = 1
    UserOps <- AllUserOps
    Donations <- DonateWorkerOrUser
INVARIANTS
    TypeOK
    ReadyQueueExact
    OneRunning
    IdleNeverQueued
    ContextOwned
