------------------------------ MODULE Process ------------------------------
(***************************************************************************)
(* Processes: clone with vfork semantics, execve, exit, death by a fault,  *)
(* wait4 and reaping; signals and their delivery when a system call        *)
(* returns; pipes, console input and the foreground process, on which      *)
(* processes block and which their exit must release.                      *)
(*                                                                         *)
(* Every process has one thread.  A system call runs with interrupts off,  *)
(* so what it does between two yields is one step here; kernel is the      *)
(* process whose system call has done its work and is in the return path   *)
(* (check_pending_signals), during which nothing else runs.                *)
(*                                                                         *)
(* libkernel/src/process.rs, signal.rs, syscall.rs, interrupts.rs,         *)
(* file.rs, console.rs; osl/src/clone.rs, exec.rs, spawn.rs, signal.rs,    *)
(* syscalls/process.rs, fs.rs, io.rs.                                      *)
(***************************************************************************)
EXTENDS FdTable, Signals

CONSTANTS MaxPid,       \* bound: processes ever created
          MaxDepth,     \* bound: signal frames on a user stack
          MaxBytes,     \* bound: bytes in the pipe
          INPUT_BUF_CAP,\* console.rs: 256
          Killable,     \* the processes kill is called for
          Workloads     \* a behaviour uses one: its operations and its process bound

ASSUME ProcessAssumption ==
  /\ MaxPid \in Nat \ {0}
  /\ {MaxDepth, MaxBytes, INPUT_BUF_CAP} \subseteq Nat
  /\ \A w \in Workloads : w.pids \in 1 .. MaxPid

KERNEL == 0
Pids == 1 .. MaxPid

\* on_key has returned; it has queued SIGINT on p and goes on to wake the reader.
NoKey == [at |-> "idle", pid |-> KERNEL]
Waking(p) == [at |-> "wake", pid |-> p]

VARIABLES
  status,       \* none, running, zombie, or reaped (removed from the table)
  parent,       \* parent_pid
  waitThread,   \* wait_thread is Some: the process's own thread
  signalThread, \* signal_thread is Some
  vforkParent,  \* vfork_parent_thread, as the process it belongs to; 0 = None
  shared,       \* pml4_shared
  sig,          \* signal
  fds,          \* fd_table
  pc,           \* where the thread is
  ready,        \* FALSE while the scheduler holds it Blocked
  target,       \* the pid_arg of the wait4 it is in; 0 = -1, any child
  vfs,          \* blocking() has stored the result of the file read
  kernel,       \* the process in the system call return path; 0 = none
  frame,        \* saved_frame_ptr (gs:40): whose kernel stack it points to
  masks,        \* the uc_sigmask of the signal frames on the user stack
  depth,        \* how many handlers deep the saved user context is
  pipe,         \* PipeInner
  con,          \* ConsoleInner and FOREGROUND_PID
  kbd,          \* the keyboard actor: what of a key it has still to do, for which process
  watched,      \* processes a wait_and_reap of the kernel polls for
  crashed,      \* died in kill_user_process (history)
  killed,       \* sent a SIGINT by kill (history)
  workload

procVars == <<status, parent, waitThread, signalThread, vforkParent, shared, sig, fds>>
threadVars == <<pc, ready, target, vfs, kernel, frame, masks, depth>>
vars == <<procVars, threadVars, pipe, con, kbd, watched, crashed, killed, workload>>

InTable(p) == p \in Pids /\ status[p] \in {"running", "zombie"}

Init ==
  /\ status = [p \in Pids |-> "none"]
  /\ parent = [p \in Pids |-> KERNEL]
  /\ waitThread = [p \in Pids |-> FALSE]
  /\ signalThread = [p \in Pids |-> FALSE]
  /\ vforkParent = [p \in Pids |-> 0]
  /\ shared = [p \in Pids |-> FALSE]
  /\ sig = [p \in Pids |-> NewSignalState]
  /\ fds = [p \in Pids |-> default_fd_table]
  /\ pc = [p \in Pids |-> "none"]
  /\ ready = [p \in Pids |-> FALSE]
  /\ target = [p \in Pids |-> 0]
  /\ vfs = [p \in Pids |-> FALSE]
  /\ kernel = 0 /\ frame = 0
  /\ masks = [p \in Pids |-> <<>>]
  /\ depth = [p \in Pids |-> 0]
  /\ pipe = [made |-> FALSE, bytes |-> 0, write_closed |-> FALSE,
             writer_count |-> 0, reader |-> 0]
  /\ con = [bytes |-> 0, reader |-> 0, foreground |-> KERNEL] /\ kbd = NoKey
  /\ watched = {} /\ crashed = {} /\ killed = {}
  /\ workload \in Workloads

(***************************************************************************)
(* Threads.                                                                *)
(***************************************************************************)

\* scheduler::unblock: no effect on a thread that is not Blocked.
Unblocked(S) == [p \in Pids |-> ready[p] \/ p \in S]

\* Set of a thread slot: the thread in it, or nobody.
Slot(p) == IF p = 0 THEN {} ELSE {p}

May(op) == op \in workload.ops

\* A system call begins: user code of p is on the CPU, the entry stub stores
\* the frame pointer.
Enters(p, op) ==
  /\ kernel = 0 /\ status[p] = "running" /\ pc[p] = "user" /\ ready[p]
  /\ May(op)
  /\ frame' = p
  /\ UNCHANGED workload

\* p runs again after yield_now inside a system call.
Resumes(p, at) ==
  /\ kernel = 0 /\ pc[p] = at /\ ready[p]
  /\ UNCHANGED workload

\* The system call's work is done: p is in the return path.
ToReturn(p) == /\ pc' = [pc EXCEPT ![p] = "return"]
               /\ kernel' = p

\* WaitCondition::wait_while: register, mark blocked, yield.
Blocks(p, at) == /\ pc' = [pc EXCEPT ![p] = at]
                 /\ kernel' = 0

(***************************************************************************)
(* Pipe and console, as the process operations change them.                *)
(***************************************************************************)

\* PipeWriter::close for n descriptors; the reader is woken with the last.
ClosedWriters(n) ==
  [pipe EXCEPT !.writer_count = @ - n,
               !.write_closed = @ \/ (n > 0 /\ pipe.writer_count = n),
               !.reader = IF n > 0 /\ pipe.writer_count = n THEN 0 ELSE @]

WokenByClose(n) == IF n > 0 /\ pipe.writer_count = n THEN Slot(pipe.reader) ELSE {}

\* Mutant: clone counts the pipe once, whatever its number of descriptors.
DuppedWritersOnce(n) == [pipe EXCEPT !.writer_count = IF n > 0 THEN @ + 1 ELSE @]

\* notify_dup for every entry of a table
DuppedWriters(n) == [pipe EXCEPT !.writer_count = @ + n]

Writers(table) == Cardinality(Opened(table, "pipe_w"))

\* set_foreground, with flush_input
Foreground(p) == [con EXCEPT !.foreground = p, !.bytes = 0]

(***************************************************************************)
(* Creation.                                                               *)
(***************************************************************************)

\* alloc_pid counts up.
MayCreate == \E p \in 1 .. workload.pids : status[p] = "none"

NextPid == CHOOSE p \in Pids : status[p] = "none" /\ \A q \in 1 .. p - 1 : status[q] # "none"

\* reap_zombies: zombies whose thread is Dead leave the table.
ReapZombies == [p \in Pids |-> IF status[p] = "zombie" /\ pc[p] = "dead"
                               THEN "reaped" ELSE status[p]]

\* spawn_process_full
SpawnProcess(p) ==
  /\ status' = [ReapZombies EXCEPT ![p] = "running"]
  /\ pc' = [pc EXCEPT ![p] = "user"]
  /\ ready' = [ready EXCEPT ![p] = TRUE]
  /\ UNCHANGED <<parent, waitThread, signalThread, vforkParent, shared, sig, fds,
                 target, vfs, kernel, frame, masks, depth, pipe, crashed, workload>>

(* cmd_exec of the kernel shell, which gets lines only while the kernel    *)
(* has the console: the program comes to the foreground and the shell      *)
(* waits in wait_and_reap.  launch_userspace_shell does the same at boot.  *)
Spawn ==
  /\ kernel = 0 /\ May("spawn") /\ con.foreground = KERNEL
  /\ MayCreate
  /\ SpawnProcess(NextPid)
  /\ con' = Foreground(NextPid)
  /\ watched' = watched \cup {NextPid}

\* The boot tasks that launch the compositor, the keyboard and the terminal.
LaunchService ==
  /\ kernel = 0 /\ May("service")
  /\ MayCreate
  /\ SpawnProcess(NextPid)
  /\ UNCHANGED <<con, watched>>

\* wait_and_reap sees the zombie, removes it and takes the console back.
WaitAndReap(p) ==
  /\ kernel = 0 /\ p \in watched /\ status[p] = "zombie"
  /\ status' = [status EXCEPT ![p] = "reaped"]
  /\ con' = Foreground(KERNEL)
  /\ watched' = watched \ {p}
  /\ UNCHANGED <<parent, waitThread, signalThread, vforkParent, shared, sig, fds,
                 threadVars, pipe, crashed, workload>>

(* sys_clone: the child shares the parent's address space, so also the     *)
(* signal frames on its stack, and gets a copy of its descriptors and new  *)
(* signal state.  The parent waits, once, until the child gives the        *)
(* address space back.                                                     *)
Clone(p) ==
  /\ Enters(p, "clone")
  /\ MayCreate
  /\ LET c == NextPid IN
     /\ status' = [status EXCEPT ![c] = "running"]
     /\ parent' = [parent EXCEPT ![c] = p]
     /\ vforkParent' = [vforkParent EXCEPT ![c] = p]
     /\ shared' = [shared EXCEPT ![c] = TRUE]
     /\ fds' = [fds EXCEPT ![c] = fds[p]]
     /\ pipe' = DuppedWriters(Writers(fds[p]))
     /\ masks' = [masks EXCEPT ![c] = masks[p]]
     /\ depth' = [depth EXCEPT ![c] = depth[p]]
     /\ pc' = [pc EXCEPT ![p] = "clone", ![c] = "user"]
     /\ ready' = [ready EXCEPT ![p] = FALSE, ![c] = TRUE]
  /\ UNCHANGED <<waitThread, signalThread, sig, target, vfs, kernel, con, watched, crashed>>

CloneReturns(p) ==
  /\ Resumes(p, "clone")
  /\ ToReturn(p)
  /\ UNCHANGED <<procVars, ready, target, vfs, frame, masks, depth, pipe, con, watched, crashed>>

(* sys_execve first reads the file through blocking(), which waits once    *)
(* and expects the result to be there.                                     *)
Execve(p) ==
  /\ Enters(p, "execve")
  /\ vfs' = [vfs EXCEPT ![p] = FALSE]
  /\ ready' = [ready EXCEPT ![p] = FALSE]
  /\ Blocks(p, "vfs")
  /\ UNCHANGED <<procVars, target, masks, depth, pipe, con, watched, crashed>>

\* The executor finishes the read and unblocks the thread.
FileRead(p) ==
  /\ kernel = 0 /\ pc[p] = "vfs" /\ ~vfs[p]
  /\ vfs' = [vfs EXCEPT ![p] = TRUE]
  /\ ready' = Unblocked({p})
  /\ UNCHANGED <<procVars, pc, target, kernel, frame, masks, depth, pipe, con, watched,
                 crashed, workload>>

(* No such file, not an ELF file, or no memory: the caller goes on.        *)
(* blocking() panics when it is woken without a result.                    *)
ExecveFails(p) ==
  /\ Resumes(p, "vfs")
  /\ kernel' = p
  /\ pc' = [pc EXCEPT ![p] = IF vfs[p] THEN "return" ELSE "panic"]
  /\ UNCHANGED <<procVars, ready, target, vfs, frame, masks, depth, pipe, con, watched, crashed>>

(* The new image replaces the old; a vfork child releases its parent and   *)
(* becomes the foreground process.  jump_to_userspace does not pass        *)
(* through the return path, and signal dispositions are not reset.  The    *)
(* CloseResult of the close-on-exec descriptors is dropped, but the reader *)
(* of the pipe has been unblocked already.                                 *)
ExecveSucceeds(p) ==
  /\ Resumes(p, "vfs") /\ vfs[p]
  /\ LET closed == Writers(fds[p]) - Writers(CloseCloexecFds(fds[p])) IN
     /\ fds' = [fds EXCEPT ![p] = CloseCloexecFds(fds[p])]
     /\ pipe' = ClosedWriters(closed)
     /\ ready' = Unblocked(WokenByClose(closed) \cup Slot(vforkParent[p]))
  /\ shared' = [shared EXCEPT ![p] = FALSE]
  /\ vforkParent' = [vforkParent EXCEPT ![p] = 0]
  /\ con' = IF vforkParent[p] # 0 THEN Foreground(p) ELSE con
  /\ masks' = [masks EXCEPT ![p] = <<>>]
  /\ depth' = [depth EXCEPT ![p] = 0]
  /\ pc' = [pc EXCEPT ![p] = "user"]
  /\ UNCHANGED <<status, parent, waitThread, signalThread, sig, target, vfs, kernel, frame,
                 watched, crashed>>

(***************************************************************************)
(* The end of a process.                                                   *)
(***************************************************************************)

\* SIGCHLD for the parent, and its wait_thread is taken.
ParentTold(p) ==
  LET q == parent[p] IN
  IF InTable(q)
  THEN /\ sig' = [sig EXCEPT ![q] = Queue(@, SIGCHLD)]
       /\ waitThread' = [waitThread EXCEPT ![q] = FALSE]
  ELSE UNCHANGED <<sig, waitThread>>

\* Mutant: only a wait for any child is woken.
WaitingParentAnyChild(p) ==
  {q \in Pids : q = parent[p] /\ InTable(q) /\ waitThread[q] /\ target[q] = 0}

WaitingParent(p) == {q \in Pids : q = parent[p] /\ InTable(q) /\ waitThread[q]}

\* Mutant: exit leaves the vfork parent to execve.
NoVforkRelease(p) == {}

\* vfork_parent_thread is taken and unblocked.
VforkRelease(p) == Slot(vforkParent[p])

(* terminate_process up to its yield: release the vfork parent, close the  *)
(* descriptors, free the address space unless it is shared, become a       *)
(* zombie, tell the parent.  The thread still has kill_current_thread to   *)
(* run, on its kernel stack.                                               *)
Terminate(p) ==
  LET n == Writers(fds[p]) IN
  /\ status' = [status EXCEPT ![p] = "zombie"]
  /\ vforkParent' = [vforkParent EXCEPT ![p] = 0]
  /\ fds' = [fds EXCEPT ![p] = CloseAllFds(@)]
  /\ pipe' = ClosedWriters(n)
  /\ ready' = Unblocked(VforkRelease(p) \cup WokenByClose(n) \cup WaitingParent(p))
  /\ ParentTold(p)
  /\ pc' = [pc EXCEPT ![p] = "dying"]
  /\ kernel' = 0
  /\ UNCHANGED <<parent, signalThread, shared, target, vfs, masks, depth, con, watched, crashed>>

Exit(p) == Enters(p, "exit") /\ Terminate(p)

\* kill_current_thread
Dies(p) ==
  /\ Resumes(p, "dying")
  /\ pc' = [pc EXCEPT ![p] = "dead"]
  /\ UNCHANGED <<procVars, ready, target, vfs, kernel, frame, masks, depth, pipe, con,
                 watched, crashed>>

(* kill_user_process and kill_current_thread, from a fault handler: only   *)
(* the parent's wait4 is told.  The descriptors stay open when the table   *)
(* entry is dropped later, because FdObject has no Drop.                   *)
KillUserProcess(p) ==
  /\ status' = [status EXCEPT ![p] = "zombie"]
  /\ ready' = Unblocked(WaitingParent(p))
  /\ ParentTold(p)
  /\ pc' = [pc EXCEPT ![p] = "dead"]
  /\ crashed' = crashed \cup {p}
  /\ UNCHANGED <<parent, signalThread, vforkParent, shared, fds, masks, depth>>

(* A page fault in user code.  The handler is entered even if SIGSEGV is   *)
(* blocked; without one the process is killed, as it always is by a        *)
(* general protection fault.                                               *)
Fault(p) ==
  /\ kernel = 0 /\ status[p] = "running" /\ pc[p] = "user" /\ ready[p]
  /\ May("fault")
  /\ \/ /\ sig[p].actions[SIGSEGV] = "handler" /\ Len(masks[p]) < MaxDepth
        /\ sig' = [sig EXCEPT ![p] =
                     BlockForHandler([sig[p] EXCEPT !.pending = @ \ {SIGSEGV}], SIGSEGV)]
        /\ masks' = [masks EXCEPT ![p] = Append(@, sig[p].blocked)]
        /\ depth' = [depth EXCEPT ![p] = @ + 1]
        /\ UNCHANGED <<status, parent, waitThread, signalThread, vforkParent, shared, fds,
                       pc, ready, crashed>>
     \/ KillUserProcess(p)
  /\ UNCHANGED <<target, vfs, kernel, frame, pipe, con, watched, workload>>

ZombieChildren(p, t) ==
  {c \in Pids : status[c] = "zombie" /\ parent[c] = p /\ t \in {0, c}}

HasChildren(p) == \E c \in Pids : InTable(c) /\ parent[c] = p

(* One turn of the loop of sys_wait4, under the table lock.  A zombie is   *)
(* removed without asking whether its thread is Dead yet.                  *)
Wait4Turn(p, t) ==
  \/ /\ ZombieChildren(p, t) # {}
     /\ LET c == CHOOSE c \in ZombieChildren(p, t) : \A d \in ZombieChildren(p, t) : c <= d
        IN  status' = [status EXCEPT ![c] = "reaped"]
     /\ con' = Foreground(p)
     /\ ToReturn(p)
     /\ signalThread' = [signalThread EXCEPT ![p] = FALSE]
     /\ UNCHANGED <<waitThread, ready>>
  \/ /\ ZombieChildren(p, t) = {}
     /\ ~HasChildren(p) \/ Deliverable(sig[p]) # {}      \* ECHILD, EINTR
     /\ ToReturn(p)
     /\ signalThread' = [signalThread EXCEPT ![p] = FALSE]
     /\ UNCHANGED <<status, waitThread, ready, con>>
  \/ /\ ZombieChildren(p, t) = {} /\ HasChildren(p) /\ Deliverable(sig[p]) = {}
     /\ waitThread' = [waitThread EXCEPT ![p] = TRUE]
     /\ signalThread' = [signalThread EXCEPT ![p] = TRUE]
     /\ ready' = [ready EXCEPT ![p] = FALSE]
     /\ Blocks(p, "wait4")
     /\ UNCHANGED <<status, con>>

Wait4Unchanged == UNCHANGED <<parent, vforkParent, shared, sig, fds, vfs, masks, depth,
                              pipe, watched, crashed>>

Wait4(p) ==
  /\ Enters(p, "wait4")
  /\ \E t \in {0} \cup {c \in Pids : parent[c] = p} :
       target' = [target EXCEPT ![p] = t] /\ Wait4Turn(p, t)
  /\ Wait4Unchanged

Wait4Again(p) ==
  /\ Resumes(p, "wait4")
  /\ Wait4Turn(p, target[p])
  /\ UNCHANGED <<target, frame>> /\ Wait4Unchanged

(***************************************************************************)
(* Signals.                                                                *)
(***************************************************************************)

(* check_pending_signals.  The stub stores the frame pointer again, since  *)
(* the system call may have yielded; deliver_signal puts a frame with the  *)
(* old mask on the user stack of p and redirects the saved context that    *)
(* the frame pointer names.                                                *)
CheckPendingSignals(p) ==
  LET st == sig[p]
      s  == NextSignal(st)
  IN
  \/ /\ Deliverable(st) = {}
     /\ pc' = [pc EXCEPT ![p] = "user"]
     /\ UNCHANGED <<procVars, ready, masks, depth, pipe>>
  \/ /\ Deliverable(st) # {} /\ Outcome(st, s) = "drop"
     /\ sig' = [sig EXCEPT ![p] = Dequeue(st)]
     /\ pc' = [pc EXCEPT ![p] = "user"]
     /\ UNCHANGED <<status, parent, waitThread, signalThread, vforkParent, shared, fds,
                    ready, masks, depth, pipe>>
  \/ /\ Deliverable(st) # {} /\ Outcome(st, s) = "deliver"
     /\ Len(masks[p]) < MaxDepth
     /\ sig' = [sig EXCEPT ![p] = BlockForHandler(Dequeue(st), s)]
     /\ masks' = [masks EXCEPT ![p] = Append(@, st.blocked)]
     /\ depth' = [depth EXCEPT ![frame'] = Len(masks[p]) + 1]
     /\ pc' = [pc EXCEPT ![p] = "user"]
     /\ UNCHANGED <<status, parent, waitThread, signalThread, vforkParent, shared, fds,
                    ready, pipe>>

\* Mutant: the frame pointer is whatever the last system call entry stored.
ReturnFrameStale(p) == frame

ReturnFrame(p) == p

Return(p) ==
  /\ kernel = p /\ pc[p] = "return"
  /\ frame' = ReturnFrame(p)
  /\ kernel' = 0
  /\ CheckPendingSignals(p)
  /\ UNCHANGED <<target, vfs, con, watched, crashed, workload>>

\* The dequeued signal ends the process.
ReturnTerminates(p) ==
  /\ kernel = p /\ pc[p] = "return"
  /\ frame' = ReturnFrame(p)
  /\ Deliverable(sig[p]) # {} /\ Outcome(sig[p], NextSignal(sig[p])) = "terminate"
  /\ Terminate(p)
  /\ UNCHANGED workload

\* rt_sigreturn: mask and saved context go back to what the frame holds.
Sigreturn(p) ==
  /\ masks[p] # <<>>
  /\ Enters(p, "handlers")
  /\ sig' = [sig EXCEPT ![p] = RestoreMask(@, masks[p][Len(masks[p])])]
  /\ masks' = [masks EXCEPT ![p] = SubSeq(@, 1, Len(@) - 1)]
  /\ depth' = [depth EXCEPT ![frame'] = Len(masks[p]) - 1]
  /\ ToReturn(p)
  /\ UNCHANGED <<status, parent, waitThread, signalThread, vforkParent, shared, fds, ready,
                 target, vfs, pipe, con, watched, crashed>>

\* A system call of p that changes its own signal state only.
SignalCall(p, op, st) ==
  /\ Enters(p, op)
  /\ sig' = [sig EXCEPT ![p] = st]
  /\ ToReturn(p)
  /\ UNCHANGED <<status, parent, waitThread, signalThread, vforkParent, shared, fds, ready,
                 target, vfs, masks, depth, pipe, con, watched, crashed>>

Sigaction(p) ==
  \E s \in {t \in {SIGINT, SIGSEGV} : MayHandle(t)}, d \in {"SIG_IGN", "handler"} :
     SignalCall(p, "handlers", SetAction(sig[p], s, d))

Sigprocmask(p) ==
  \E how \in {"SIG_BLOCK", "SIG_UNBLOCK", "SIG_SETMASK"}, set \in {{SIGINT, SIGKILL}} :
     SignalCall(p, "mask", SetMask(sig[p], how, set))

\* Mutant: the thread is unblocked wherever it sleeps.
InterruptsAny(q) == {q}

\* signal_thread of the target
Interrupts(q) == IF signalThread[q] THEN {q} ELSE {}

\* sys_kill: queue the signal, wake the target from an interruptible wait.
Kill(p) ==
  /\ Enters(p, "kill")
  /\ \E q \in Killable, s \in {SIGINT, SIGKILL} :
       /\ s = SIGINT => May("handlers")
       /\ InTable(q)                                       \* else ESRCH
       /\ sig' = [sig EXCEPT ![q] = Queue(@, s)]
       /\ ready' = Unblocked(Interrupts(q))
       /\ killed' = IF s = SIGINT THEN killed \cup {q} ELSE killed
  /\ ToReturn(p)
  /\ UNCHANGED <<status, parent, waitThread, signalThread, vforkParent, shared, fds,
                 target, vfs, masks, depth, pipe, con, watched, crashed>>

(***************************************************************************)
(* Descriptors and the pipe.                                               *)
(***************************************************************************)

FdUnchanged == UNCHANGED <<status, parent, waitThread, vforkParent, shared, sig, target, vfs,
                           masks, depth, con, watched, crashed>>

\* yield_now after waking a reader, or straight to the return path
YieldsIf(woken, p) ==
  IF woken = {} THEN ToReturn(p)
  ELSE pc' = [pc EXCEPT ![p] = "yielded"] /\ UNCHANGED kernel

YieldReturns(p) ==
  /\ Resumes(p, "yielded")
  /\ ToReturn(p)
  /\ UNCHANGED <<procVars, ready, target, vfs, frame, masks, depth, pipe, con, watched, crashed>>

(* sys_pipe2 makes the pipe; if the table has no room for the write end    *)
(* the read end is closed again and the pipe is gone.                      *)
Pipe2(p) ==
  /\ Enters(p, "pipe2") /\ ~pipe.made
  /\ \E cloexec \in BOOLEAN :
       LET one == AllocFd(fds[p], "pipe_r", cloexec)
           two == AllocFd(one, "pipe_w", cloexec)
       IN  IF CanAlloc(fds[p]) /\ CanAlloc(one)
           THEN /\ fds' = [fds EXCEPT ![p] = two]
                /\ pipe' = [pipe EXCEPT !.made = TRUE, !.writer_count = 1]
           ELSE UNCHANGED <<fds, pipe>>
  /\ ToReturn(p)
  /\ UNCHANGED <<signalThread, ready>> /\ FdUnchanged

\* sys_close: handle_close_result donates to a reader woken at end of file.
Close(p) ==
  /\ Enters(p, "close")
  /\ \E i \in Opened(fds[p], "pipe_w") \cup Opened(fds[p], "pipe_r") :
       LET n == IF fds[p][i].object = "pipe_w" THEN 1 ELSE 0 IN
       /\ fds' = [fds EXCEPT ![p] = CloseFd(@, i)]
       /\ pipe' = ClosedWriters(n)
       /\ ready' = Unblocked(WokenByClose(n))
       /\ YieldsIf(WokenByClose(n), p)
  /\ UNCHANGED signalThread /\ FdUnchanged

(* sys_dup2: the object is counted again, then whatever the new slot held  *)
(* is closed.  The copy is not close-on-exec.                              *)
Dup2(p) ==
  /\ Enters(p, "dup2")
  /\ \E old \in Opened(fds[p], "pipe_w"), new \in {1, 2} \cup Opened(fds[p], "pipe_w") :
       LET n == IF fds[p][new].object = "pipe_w" THEN 1 ELSE 0 IN
       IF old = new THEN UNCHANGED <<fds, pipe>>
       ELSE /\ fds' = [fds EXCEPT ![p] = SetFd(@, new, Entry("pipe_w", FALSE))]
            /\ pipe' = [DuppedWriters(1) EXCEPT !.writer_count = @ - n]
  /\ ToReturn(p)
  /\ UNCHANGED <<signalThread, ready>> /\ FdUnchanged

\* sys_fcntl with F_SETFD
SetCloexec(p) ==
  /\ Enters(p, "fcntl")
  /\ \E i \in Opened(fds[p], "pipe_w"), flag \in BOOLEAN :
       fds' = [fds EXCEPT ![p][i].cloexec = flag]
  /\ ToReturn(p)
  /\ UNCHANGED <<signalThread, ready, pipe>> /\ FdUnchanged

(* One turn of PipeReader::read: a byte, end of file, a signal, or wait.   *)
(* The single reader_thread slot is overwritten.                           *)
ReadTurn(p) ==
  \/ /\ pipe.bytes > 0
     /\ pipe' = [pipe EXCEPT !.bytes = @ - 1]
     /\ signalThread' = [signalThread EXCEPT ![p] = FALSE]
     /\ ToReturn(p) /\ UNCHANGED ready
  \/ /\ pipe.bytes = 0
     /\ pipe.write_closed \/ Deliverable(sig[p]) # {}     \* end of file, EINTR
     /\ signalThread' = [signalThread EXCEPT ![p] = FALSE]
     /\ ToReturn(p) /\ UNCHANGED <<ready, pipe>>
  \/ /\ pipe.bytes = 0 /\ ~pipe.write_closed /\ Deliverable(sig[p]) = {}
     /\ pipe' = [pipe EXCEPT !.reader = p]
     /\ signalThread' = [signalThread EXCEPT ![p] = TRUE]
     /\ ready' = [ready EXCEPT ![p] = FALSE]
     /\ Blocks(p, "read")

\* Assumed of the programs: one process at a time reads the pipe.
Read(p) ==
  /\ Enters(p, "read")
  /\ Opened(fds[p], "pipe_r") # {} /\ \A q \in Pids \ {p} : pc[q] # "read"
  /\ ReadTurn(p)
  /\ UNCHANGED fds /\ FdUnchanged

ReadAgain(p) ==
  /\ Resumes(p, "read")
  /\ ReadTurn(p)
  /\ UNCHANGED <<fds, frame>> /\ FdUnchanged

\* PipeWriter::write never blocks and never fails, whoever reads.
Write(p) ==
  /\ Enters(p, "write")
  /\ Opened(fds[p], "pipe_w") # {} /\ pipe.bytes < MaxBytes
  /\ pipe' = [pipe EXCEPT !.bytes = @ + 1, !.reader = 0]
  /\ ready' = Unblocked(Slot(pipe.reader))
  /\ YieldsIf(Slot(pipe.reader), p)
  /\ UNCHANGED <<fds, signalThread>> /\ FdUnchanged

(***************************************************************************)
(* Console input.                                                          *)
(***************************************************************************)

ConsoleUnchanged == UNCHANGED <<status, parent, waitThread, signalThread, vforkParent, shared,
                                fds, target, vfs, masks, depth, pipe, watched, crashed>>

\* One turn of read_input, which is not registered in signal_thread.
ConsoleTurn(p) ==
  \/ /\ con.bytes > 0
     /\ con' = [con EXCEPT !.bytes = @ - 1]
     /\ ToReturn(p) /\ UNCHANGED ready
  \/ /\ con.bytes = 0 /\ Deliverable(sig[p]) # {}
     /\ ToReturn(p) /\ UNCHANGED <<ready, con>>
  \/ /\ con.bytes = 0 /\ Deliverable(sig[p]) = {}
     /\ con' = [con EXCEPT !.reader = p]
     /\ ready' = [ready EXCEPT ![p] = FALSE]
     /\ Blocks(p, "console")

(* Assumed of the programs: only the foreground process reads the console, *)
(* and not while another one is still in its read: there is one slot.      *)
ConsoleRead(p) ==
  /\ Enters(p, "console")
  /\ con.foreground = p /\ Opened(fds[p], "console") # {}
  /\ \A q \in Pids \ {p} : pc[q] # "console"
  /\ ConsoleTurn(p)
  /\ UNCHANGED sig /\ ConsoleUnchanged

ConsoleReadAgain(p) ==
  /\ Resumes(p, "console")
  /\ ConsoleTurn(p)
  /\ UNCHANGED <<sig, frame>> /\ ConsoleUnchanged

(* on_key of the keyboard actor while a process is in the foreground.  The *)
(* actor is a task that can be preempted: it reads the foreground process  *)
(* first, and what it does then finds another one there, perhaps.          *)
Key ==
  /\ kernel = 0 /\ con.foreground # KERNEL /\ May("key") /\ kbd = NoKey
  /\ kbd' \in {[at |-> "byte", pid |-> KERNEL], [at |-> "signal", pid |-> con.foreground]}
  /\ UNCHANGED <<procVars, threadVars, pipe, con, watched, crashed, workload>>

\* A byte, dropped when the buffer is full; the blocked reader is woken.
PushInput ==
  /\ kernel = 0 /\ kbd.at = "byte"
  /\ kbd' = NoKey
  /\ con' = [con EXCEPT !.bytes = IF @ < INPUT_BUF_CAP THEN @ + 1 ELSE @, !.reader = 0]
  /\ ready' = Unblocked(Slot(con.reader))
  /\ UNCHANGED <<pc, kernel, frame, sig, workload>> /\ ConsoleUnchanged

SigintQueued(p) == IF InTable(p) THEN [sig EXCEPT ![p] = Queue(@, SIGINT)] ELSE sig

\* Mutant: the signal is queued and the blocked reader left asleep.
CtrlCNoWake ==
  /\ kernel = 0 /\ kbd.at = "signal"
  /\ kbd' = NoKey
  /\ sig' = SigintQueued(kbd.pid)
  /\ UNCHANGED <<con, ready, pc, kernel, frame, workload>> /\ ConsoleUnchanged

\* Ctrl+C: SIGINT is queued on the process that was in the foreground.
CtrlC ==
  /\ kernel = 0 /\ kbd.at = "signal"
  /\ kbd' = Waking(kbd.pid)
  /\ sig' = SigintQueued(kbd.pid)
  /\ UNCHANGED <<con, ready, pc, kernel, frame, workload>> /\ ConsoleUnchanged

\* wake_blocked_reader, whoever is the reader by then.
WakeBlockedReader ==
  /\ kernel = 0 /\ kbd.at = "wake"
  /\ kbd' = NoKey
  /\ con' = [con EXCEPT !.reader = 0]
  /\ ready' = Unblocked(Slot(con.reader))
  /\ UNCHANGED <<pc, kernel, frame, sig, workload>> /\ ConsoleUnchanged

-----------------------------------------------------------------------------

SystemCall(p) ==
  \/ Clone(p) \/ Execve(p) \/ Exit(p) \/ Wait4(p)
  \/ Sigreturn(p) \/ Sigaction(p) \/ Sigprocmask(p)
  \/ Pipe2(p) \/ Close(p) \/ Dup2(p) \/ SetCloexec(p) \/ Read(p) \/ Write(p)
  \/ ConsoleRead(p)

\* What the kernel goes on with by itself.
Proceed(p) ==
  \/ CloneReturns(p) \/ FileRead(p) \/ ExecveFails(p) \/ ExecveSucceeds(p)
  \/ Dies(p) \/ Wait4Again(p) \/ Return(p) \/ ReturnTerminates(p)
  \/ YieldReturns(p) \/ ReadAgain(p) \/ ConsoleReadAgain(p)

\* What the actor goes on with.
Handled == PushInput \/ CtrlC \/ WakeBlockedReader

Next == \/ /\ \/ Spawn \/ LaunchService
              \/ \E p \in Pids : SystemCall(p) \/ Proceed(p) \/ Fault(p) \/ WaitAndReap(p)
           /\ UNCHANGED <<kbd, killed>>
        \/ \E p \in Pids : Kill(p) /\ UNCHANGED kbd
        \/ (Key \/ Handled) /\ UNCHANGED killed

Spec == Init /\ [][Next]_vars

-----------------------------------------------------------------------------

Places == {"none", "user", "return", "clone", "vfs", "wait4", "read", "console", "yielded",
           "dying", "dead", "panic"}

\* Every part of the state has its type; the console buffer keeps its capacity.
TypeOK ==
  /\ status \in [Pids -> {"none", "running", "zombie", "reaped"}]
  /\ parent \in [Pids -> 0 .. MaxPid] /\ vforkParent \in [Pids -> 0 .. MaxPid]
  /\ waitThread \in [Pids -> BOOLEAN] /\ signalThread \in [Pids -> BOOLEAN]
  /\ shared \in [Pids -> BOOLEAN] /\ ready \in [Pids -> BOOLEAN] /\ vfs \in [Pids -> BOOLEAN]
  /\ sig \in [Pids -> SignalState]
  /\ \A p \in Pids : fds[p] \in FdTables
  /\ pc \in [Pids -> Places] /\ target \in [Pids -> 0 .. MaxPid]
  /\ kernel \in 0 .. MaxPid /\ frame \in 0 .. MaxPid
  /\ \A p \in Pids : masks[p] \in Seq(SUBSET Signals)
  /\ depth \in [Pids -> Nat]
  /\ pipe \in [made : BOOLEAN, bytes : 0 .. MaxBytes, write_closed : BOOLEAN,
                writer_count : Nat, reader : 0 .. MaxPid]
  /\ con \in [bytes : 0 .. INPUT_BUF_CAP, reader : 0 .. MaxPid, foreground : 0 .. MaxPid]
  /\ kbd \in [at : {"idle", "byte", "signal", "wake"}, pid : 0 .. MaxPid]
  /\ watched \subseteq Pids /\ crashed \subseteq Pids /\ killed \subseteq Pids

Asleep(p, at) == pc[p] = at /\ ~ready[p]

(* A process asleep in wait4 can still be woken by what it waits for: none *)
(* of the zombies it asked for is there, no SIGKILL is pending, and a      *)
(* running child it asked for will find it in wait_thread.  The            *)
(* exception is a wait for a child that is not in the table any more:      *)
(* wait4 sleeps, instead of failing with ECHILD, while there are others.   *)
WaiterNotStranded ==
  \A p \in Pids : Asleep(p, "wait4") =>
    /\ ZombieChildren(p, target[p]) = {} /\ SIGKILL \notin Deliverable(sig[p])
    /\ waitThread[p] /\ signalThread[p]
    /\ \/ \E c \in Pids : status[c] = "running" /\ parent[c] = p /\ target[p] \in {0, c}
       \/ target[p] # 0 /\ ~InTable(target[p])

(* While a vfork child runs on its parent's stack the parent stays asleep  *)
(* in clone ("the parent is blocked until the child calls execve/_exit").  *)
VforkParentWaits ==
  \A c \in Pids : status[c] = "running" /\ shared[c] => Asleep(parent[c], "clone")

(* And it sleeps only as long: some child still owes it the wake-up, or    *)
(* has died of a fault, whose clean-up forgets the vfork parent.           *)
VforkParentReleased ==
  \A p \in Pids : Asleep(p, "clone") =>
    \E c \in Pids : vforkParent[c] = p /\ (status[c] = "running" \/ c \in crashed)

(* The pipe is at end of file exactly when no descriptor for writing is    *)
(* left in any table (those of crashed processes are never closed), and a  *)
(* sleeping reader has nothing to read, is registered and will see it.     *)
EndOfFile ==
  /\ pipe.made => (pipe.write_closed <=> \A p \in Pids :
                      status[p] = "none" \/ Opened(fds[p], "pipe_w") = {})
  /\ \A p \in Pids : Asleep(p, "read") =>
       /\ pipe.bytes = 0 /\ ~pipe.write_closed /\ pipe.reader = p
       /\ SIGKILL \notin Deliverable(sig[p])

(* A signal is handled by the process it was delivered to: the context     *)
(* that returns into a handler is the one whose stack carries the frame,   *)
(* whatever other system calls ran while this one slept.                   *)
HandlerRunsWhereSignalled ==
  \A p \in Pids : status[p] = "running" => depth[p] = Len(masks[p])

(* The foreground process asleep in a console read has no input waiting    *)
(* and will be found by the next key; and if SIGINT is pending, from       *)
(* Ctrl+C, the actor is about to wake it ("Wake any blocked reader so      *)
(* read() returns EINTR"), whoever had the foreground when the key came.   *)
(* Only kill, which does not look at console readers, leaves it asleep     *)
(* with a SIGINT.                                                          *)
ConsoleReaderServed ==
  \A p \in Pids : Asleep(p, "console") /\ con.foreground = p =>
    /\ con.bytes = 0 /\ con.reader = p
    /\ SIGINT \in Deliverable(sig[p]) => p \in killed \/ kbd = Waking(p)

(* No thread runs on a kernel stack that has been given back: reap_zombies *)
(* "Only reap if the scheduler thread is actually Dead".                   *)
StackHeld == \A p \in Pids : status[p] = "reaped" => pc[p] = "dead"

(* blocking() in execve is never woken without its result.                 *)
NoPanic == \A p \in Pids : pc[p] # "panic"

=============================================================================
