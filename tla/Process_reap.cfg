SPECIFICATION Spec
CONSTANTS
    MAX_FDS = 5
    MaxPid = 2
    MaxDepth = 1
    MaxBytes = 1
    INPUT_BUF_CAP = 1
    Killable = {}
    Workloads <- ExitAndWait
INVARIANTS StackHeld
CHECK_DEADLOCK FALSE
