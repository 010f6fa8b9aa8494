SPECIFICATION Spec
CONSTANTS
    MAX_FDS = 5
    MaxPid = 3
    MaxDepth = 2
    MaxBytes = 1
    INPUT_BUF_CAP = 1
    Killable = {2, 3}
    Workloads <- AllMixes
INVARIANTS WaiterNotStranded VforkParentWaits VforkParentReleased EndOfFile HandlerRunsWhereSignalled
    ConsoleReaderServed
CHECK_DEADLOCK FALSE
