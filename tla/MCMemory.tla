------------------------------ MODULE MCMemory ------------------------------
(* Workloads and symmetry for TLC. *)
EXTENDS Memory, TLC

\* The objects are interchangeable.
ObjectSymmetry == Permutations(Objects)

\* one process: every way to cut, protect and refill a range, and the heap
Intervals == [ops |-> {"spawn", "mmap", "munmap", "mprotect", "fixed", "brk", "exit"},
              procs |-> {1}, len |-> 3, calls |-> 6]

\* shared memory objects passed between two processes
Sharing == [ops |-> {"spawn", "mmap", "munmap", "shared", "pass", "close", "exit"},
            procs |-> {1, 2}, len |-> 2, calls |-> 8]

\* rings, vfork, execve and crashes
Spaces == [ops |-> {"spawn", "munmap", "brk", "shared", "shared_fixed", "rings", "close", "clone",
                    "execve", "exit", "crash"},
           procs |-> {1, 2}, len |-> 1, calls |-> 6]

AllMixes == {Intervals, Sharing, Spaces}

\* a program maps ring descriptors after it has closed the port, and other memory
RingAfterClose == {[ops |-> {"spawn", "rings", "shared", "mmap", "munmap"},
                    procs |-> {1}, len |-> 1, calls |-> 6]}

\* munmap of a range that mprotect has made inaccessible
ProtNone == {[ops |-> {"spawn", "mmap", "munmap", "mprotect"},
              procs |-> {1}, len |-> 1, calls |-> 4]}

\* MAP_FIXED below the mmap region
FixedBelow == {[ops |-> {"spawn", "fixed"}, procs |-> {1}, len |-> 1, calls |-> 3]}
=============================================================================
