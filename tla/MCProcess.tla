----------------------------- MODULE MCProcess -----------------------------
(***************************************************************************)
(* Instances of Process for TLC: each workload joins operations that bear  *)
(* on each other, with as many processes as they need.                     *)
(***************************************************************************)
EXTENDS Process

Mix(ops, pids) == [ops |-> ops, pids |-> pids]

AllMixes == {
  \* vfork, wait4 and orphans, a child killed or crashed anywhere
  Mix({"spawn", "clone", "execve", "exit", "wait4", "kill", "fault"}, 3),
  \* a pipe whose write end is shared, duplicated and closed, read meanwhile
  Mix({"spawn", "pipe2", "clone", "execve", "close", "dup2", "read", "write", "exit"}, 2),
  \* close-on-exec; writers that crash or are killed
  Mix({"spawn", "pipe2", "clone", "fcntl", "execve", "close", "read", "write", "wait4"}, 2),
  Mix({"spawn", "pipe2", "clone", "execve", "close", "read", "write", "kill", "fault"}, 2),
  \* handlers, nested, and entered by a read that other system calls overtook; a
  \* console reader sent SIGINT by kill and by Ctrl+C
  Mix({"spawn", "service", "handlers", "console", "key", "kill"}, 2),
  Mix({"spawn", "handlers", "kill", "wait4", "clone", "exit"}, 2),
  Mix({"service", "handlers", "mask", "kill"}, 2),
  Mix({"spawn", "handlers", "fault"}, 1),
  \* the console handed to a child and back, keys and Ctrl+C at any time
  Mix({"spawn", "clone", "execve", "exit", "wait4", "console", "key"}, 2),
  Mix({"spawn", "clone", "execve", "exit", "console", "key"}, 3)}

\* A child that exits while its parent waits.
ExitAndWait == {Mix({"spawn", "clone", "exit", "wait4"}, 2)}

\* A parent with a handler, signalled while it waits for one child, starts another.
SignalledParent == {Mix({"spawn", "handlers", "kill", "wait4", "clone", "execve", "exit"}, 3)}
=============================================================================
