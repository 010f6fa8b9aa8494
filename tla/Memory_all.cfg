SPECIFICATION Spec
CONSTANTS
    Procs = {1, 2}
    NumFrames = 7
    Objects = {o1, o2}
    MMAP_FLOOR = 3
    MMAP_CEILING = 6
    TopPage = 6
    Workloads <- AllMixes
    o1 = o1
    o2 = o2
SYMMETRY ObjectSymmetry
INVARIANTS FramesAccounted VmaBacked Isolation GapIsHighest
CHECK_DEADLOCK FALSE
