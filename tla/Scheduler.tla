----------------------------- MODULE Scheduler -----------------------------
(***************************************************************************)
(* The preemptive scheduler of libkernel/src/task/scheduler.rs: the thread *)
(* table, the ready queue, the LAPIC-timer and int-0x50 switch handlers,   *)
(* donation, and the registers a context switch saves and restores.        *)
(*                                                                         *)
(* The machine has one CPU.  Every step below is executed by the thread in *)
(* current_idx, or by an interrupt that hits it.  Whether an interrupt can *)
(* hit it is decided by where that thread is executing (mode): SYSCALL     *)
(* clears IF (IA32_FMASK) and nothing sets it again before SYSRET, so      *)
(* system calls and ring-3 exception handlers run undisturbed, whereas     *)
(* executor workers, the idle thread, the trampolines and ring-3 code are  *)
(* interruptible at any instruction.                                       *)
(*                                                                         *)
(* A register holds the index of the thread its value belongs to; Nobody   *)
(* stands for zero (and for the kernel's own pid and page table, and for   *)
(* the usize::MAX of an unset DONATE_TARGET).                              *)
(***************************************************************************)
EXTENDS Integers, Sequences, FiniteSets, SequencesExt

CONSTANTS
    MaxThreads,     \* bound on threads.len()
    QUANTUM_TICKS,  \* timer ticks per quantum (10 in the kernel)
    Donations,      \* pairs <<t, i>>: thread t may call set_donate_target(i)
    UserOps         \* what user programs do besides blocking and yielding

AllUserOps == {"arch_prctl", "clone", "execve", "exit", "fault"}

ASSUME SchedulerAssumption ==
    /\ MaxThreads \in Nat /\ MaxThreads >= 3
    /\ QUANTUM_TICKS \in Nat \ {0}
    /\ Donations \subseteq (0 .. (MaxThreads - 1)) \X (0 .. (MaxThreads - 1))
    /\ \A d \in Donations : d[2] # 1   \* the idle thread never waits
    /\ UserOps \subseteq AllUserOps

Slots  == 0 .. (MaxThreads - 1)
Nobody == MaxThreads
Owner  == Slots \cup {Nobody}

BootThread == 0     \* thread 0, registered by init(); becomes a worker
IdleThread == 1     \* the slot the idle thread gets from init()

VARIABLES
    nthreads,           \* threads.len()
    state,              \* Thread.state; "Unused" beyond threads.len()
    ticks_remaining,    \* Thread.ticks_remaining
    kind,               \* Thread.kind
    pml4,               \* Thread.pml4_phys
    user_rsp,           \* Thread.user_rsp, saved copy of PER_CPU.user_rsp
    fs_base,            \* Thread.fs_base, saved copy of IA32_FS_BASE
    ready_queue,        \* Scheduler.ready_queue
    current_idx,        \* Scheduler.current_idx
    idle_thread_idx,    \* Scheduler.idle_thread_idx
    donate,             \* DONATE_TARGET
    boot,               \* progress of thread 0 through init() and run_kernel
    mode,               \* where each thread is executing
    tls,                \* the FS base ring 3 last asked for (history)
    cpu                 \* the registers and per-CPU cells of the processor

table == <<nthreads, state, ticks_remaining, kind, pml4, user_rsp, fs_base>>
queue == <<ready_queue, current_idx, idle_thread_idx>>
vars  == <<table, queue, donate, boot, mode, tls, cpu>>

States == {"Unused", "Ready", "Running", "Blocked", "Dead"}
Modes  == {"none",       \* slot never used
           "boot",       \* thread 0 before it becomes a worker, IF = 1
           "kernel",     \* executor worker, IF = 1
           "idle",       \* idle_thread_main, IF = 1
           "trampoline", \* process_trampoline / clone_trampoline, IF = 1
           "user",       \* ring 3, IF = 1
           "syscall",    \* system call that has not yielded yet, IF = 0
           "resumed",    \* system call resumed after a yield, IF = 0
           "donating",   \* system call that set a donation target, IF = 0
           "parked",     \* between mark_blocked and yield_now, IF = 0
           "exiting",    \* terminate_process up to its yield, IF = 0
           "exited",     \* terminate_process after its yield, IF = 0
           "fault",      \* ring-3 exception handler, IF = 0
           "dying",      \* between marking itself Dead and yield_now, IF = 0
           "gone"}       \* switched away from while Dead

Cpu == [user_rsp : Owner,           \* PER_CPU.user_rsp
        user_rip : Owner,           \* PER_CPU.user_rip, user_rflags, user_r9
        fs       : Owner,           \* IA32_FS_BASE
        kstack   : Owner,           \* TSS.rsp0 and PER_CPU.kernel_rsp
        pid      : Owner,           \* process::CURRENT_PID
        cr3      : Owner,
        gs       : {"kernel", "user"},  \* which base GS currently has
        idx      : Slots]           \* CURRENT_THREAD_IDX_ATOMIC

cur == current_idx

(***************************************************************************)
(* ThreadState::is_runnable.                                               *)
(***************************************************************************)
IsRunnable(s) == s # "Dead" /\ s # "Blocked"

(***************************************************************************)
(* IF of the executing thread.  IA32_FMASK clears it on SYSCALL; IDT gates *)
(* clear it in exception handlers; every lock that re-enables it restores  *)
(* the value it found.                                                     *)
(***************************************************************************)
InterruptsEnabled ==
    mode[cur] \in {"boot", "kernel", "idle", "trampoline", "user"}

InKernel ==
    mode[cur] \in {"kernel", "syscall", "resumed", "donating", "exiting"}

InSyscall == mode[cur] \in {"syscall", "resumed"}

Other(gs) == IF gs = "user" THEN "kernel" ELSE "user"

(***************************************************************************)
(* Scheduler::alloc_thread_slot: the first Dead slot, else a new one.      *)
(***************************************************************************)
DeadSlots == {t \in Slots : t < nthreads /\ state[t] = "Dead"}

SlotAvailable == DeadSlots # {} \/ nthreads < MaxThreads

AllocThreadSlot ==
    IF DeadSlots # {} THEN Min(DeadSlots) ELSE nthreads

(***************************************************************************)
(* The Thread record of the three spawn functions, pushed onto the queue.  *)
(***************************************************************************)
Spawn(t, k, space, rsp, fs) ==
    /\ nthreads' = IF t < nthreads THEN nthreads ELSE nthreads + 1
    /\ state' = [state EXCEPT ![t] = "Ready"]
    /\ ticks_remaining' = [ticks_remaining EXCEPT ![t] = QUANTUM_TICKS]
    /\ kind' = [kind EXCEPT ![t] = k]
    /\ pml4' = [pml4 EXCEPT ![t] = space]
    /\ user_rsp' = [user_rsp EXCEPT ![t] = rsp]
    /\ fs_base' = [fs_base EXCEPT ![t] = fs]
    /\ ready_queue' = Append(ready_queue, t)
    /\ tls' = [tls EXCEPT ![t] = fs]
    /\ UNCHANGED <<current_idx, idle_thread_idx, donate, cpu>>

(***************************************************************************)
(* spawn_thread, called by thread 0 for the idle thread (inside init) and  *)
(* for the second executor worker (run_kernel, which then turns thread 0   *)
(* into a worker too).  init() takes the idle thread off the back of the   *)
(* queue again; the timer, started earlier, can fire in between.           *)
(***************************************************************************)
SpawnThread == Spawn(AllocThreadSlot, "Kernel", cpu.cr3, Nobody, Nobody)

BootSpawnIdle ==
    /\ cur = BootThread /\ boot = "registered" /\ SlotAvailable
    /\ boot' = "idle_spawned"
    /\ mode' = [mode EXCEPT ![AllocThreadSlot] = "idle"]
    /\ SpawnThread

BootTakeIdle ==
    /\ cur = BootThread /\ boot = "idle_spawned"
    /\ boot' = "idle_taken"
    /\ idle_thread_idx' = Last(ready_queue)
    /\ ready_queue' = Front(ready_queue)
    /\ state' = [state EXCEPT ![Last(ready_queue)] = "Ready"]
    /\ UNCHANGED <<nthreads, ticks_remaining, kind, pml4, user_rsp, fs_base,
                   current_idx, donate, mode, tls, cpu>>

BootSpawnWorker ==
    /\ cur = BootThread /\ boot = "idle_taken" /\ SlotAvailable
    /\ boot' = "done"
    /\ mode' = [mode EXCEPT ![AllocThreadSlot] = "kernel", ![cur] = "kernel"]
    /\ SpawnThread

(***************************************************************************)
(* spawn_user_thread, from an executor task (a new process has a page      *)
(* table of its own); spawn_clone_thread, from sys_clone, which reads the  *)
(* parent's RIP and R9 out of PER_CPU (user_rip) for the child's frame and *)
(* hands it the parent's page table, its own stack and the parent's FS.    *)
(***************************************************************************)
SpawnUserThread ==
    /\ mode[cur] = "kernel" /\ SlotAvailable
    /\ mode' = [mode EXCEPT ![AllocThreadSlot] = "trampoline"]
    /\ Spawn(AllocThreadSlot, "User", AllocThreadSlot, Nobody, Nobody)
    /\ UNCHANGED boot

SpawnCloneThread ==
    /\ "clone" \in UserOps /\ mode[cur] = "syscall"
    /\ SlotAvailable
    /\ mode' = [mode EXCEPT ![AllocThreadSlot] = "trampoline"]
    /\ Spawn(AllocThreadSlot, "User", pml4[cur], AllocThreadSlot, cpu.fs)
    /\ UNCHANGED boot

(***************************************************************************)
(* process_trampoline / clone_trampoline followed by jump_to_userspace.    *)
(* Interrupts are off from the first register write on.                    *)
(***************************************************************************)
EnterUser ==
    /\ mode[cur] = "trampoline"
    /\ mode' = [mode EXCEPT ![cur] = "user"]
    /\ cpu' = [cpu EXCEPT !.kstack = cur, !.pid = cur, !.cr3 = pml4[cur],
                          !.gs = "user"]
    /\ UNCHANGED <<table, queue, donate, boot, tls>>

(***************************************************************************)
(* syscall_entry: swapgs, then the user's RSP, RIP, RFLAGS and R9 go to    *)
(* the single per-CPU block, and the exit half, which loads RSP from it.   *)
(***************************************************************************)
SyscallEntry ==
    /\ mode[cur] = "user"
    /\ mode' = [mode EXCEPT ![cur] = "syscall"]
    /\ cpu' = [cpu EXCEPT !.user_rsp = cur, !.user_rip = cur,
                          !.gs = Other(cpu.gs)]
    /\ UNCHANGED <<table, queue, donate, boot, tls>>

SyscallReturn ==
    /\ InSyscall
    /\ mode' = [mode EXCEPT ![cur] = "user"]
    /\ cpu' = [cpu EXCEPT !.gs = Other(cpu.gs)]
    /\ UNCHANGED <<table, queue, donate, boot, tls>>

(***************************************************************************)
(* arch_prctl(ARCH_SET_FS), and the tail of execve: a fresh page table,    *)
(* FS cleared, TSS and PER_CPU set, and a jump to ring 3.                  *)
(***************************************************************************)
SetFsBase ==
    /\ "arch_prctl" \in UserOps /\ InSyscall
    /\ cpu' = [cpu EXCEPT !.fs = cur]
    /\ tls' = [tls EXCEPT ![cur] = cur]
    /\ UNCHANGED <<table, queue, donate, boot, mode>>

Execve ==
    /\ "execve" \in UserOps /\ InSyscall
    /\ pml4' = [pml4 EXCEPT ![cur] = cur]
    /\ cpu' = [cpu EXCEPT !.cr3 = cur, !.fs = Nobody, !.kstack = cur,
                          !.gs = "user"]
    /\ tls' = [tls EXCEPT ![cur] = Nobody]
    /\ mode' = [mode EXCEPT ![cur] = "user"]
    /\ UNCHANGED <<nthreads, state, ticks_remaining, kind, user_rsp, fs_base,
                   queue, donate, boot>>

(***************************************************************************)
(* mark_blocked: the current thread only; yield_now follows.               *)
(***************************************************************************)
\* Mutant: an executor task blocks its worker thread.
MarkBlockedByWorker ==
    /\ InKernel
    /\ state' = [state EXCEPT ![cur] = "Blocked"]
    /\ mode' = [mode EXCEPT ![cur] = "parked"]
    /\ UNCHANGED <<nthreads, ticks_remaining, kind, pml4, user_rsp, fs_base,
                   queue, donate, boot, tls, cpu>>

MarkBlocked ==
    /\ InSyscall \/ mode[cur] = "donating"
    /\ state' = [state EXCEPT ![cur] = "Blocked"]
    /\ mode' = [mode EXCEPT ![cur] = "parked"]
    /\ UNCHANGED <<nthreads, ticks_remaining, kind, pml4, user_rsp, fs_base,
                   queue, donate, boot, tls, cpu>>

(***************************************************************************)
(* terminate_process leaves the process's page table (unless a vfork child *)
(* shares it), yields once, and then kill_current_thread marks the thread  *)
(* Dead and yields for good.  A ring-3 exception handler either returns to *)
(* a user signal handler, or (kill_user_process) wakes the parent, does    *)
(* the swapgs that its IDT gate did not do, and kills the thread.          *)
(***************************************************************************)
TerminateProcess ==
    /\ "exit" \in UserOps /\ InSyscall
    /\ mode' = [mode EXCEPT ![cur] = "exiting"]
    /\ \E space \in {pml4[cur], Nobody} :
          /\ pml4' = [pml4 EXCEPT ![cur] = space]
          /\ cpu' = [cpu EXCEPT !.cr3 = space]
    /\ UNCHANGED <<nthreads, state, ticks_remaining, kind, user_rsp, fs_base,
                   queue, donate, boot, tls>>

MarkDead ==
    /\ state' = [state EXCEPT ![cur] = "Dead"]
    /\ mode' = [mode EXCEPT ![cur] = "dying"]

KillCurrentThread ==
    /\ mode[cur] = "exited"
    /\ MarkDead
    /\ UNCHANGED <<nthreads, ticks_remaining, kind, pml4, user_rsp, fs_base,
                   queue, donate, boot, tls, cpu>>

UserFault ==
    /\ "fault" \in UserOps /\ mode[cur] = "user"
    /\ mode' = [mode EXCEPT ![cur] = "fault"]
    /\ UNCHANGED <<table, queue, donate, boot, tls, cpu>>

FaultDeliverSignal ==
    /\ mode[cur] = "fault"
    /\ mode' = [mode EXCEPT ![cur] = "user"]
    /\ UNCHANGED <<table, queue, donate, boot, tls, cpu>>

FaultKill ==
    /\ mode[cur] = "fault"
    /\ cpu' = [cpu EXCEPT !.gs = Other(cpu.gs)]
    /\ MarkDead
    /\ UNCHANGED <<nthreads, ticks_remaining, kind, pml4, user_rsp, fs_base,
                   queue, donate, boot, tls>>

(***************************************************************************)
(* unblock(i), from the current thread in kernel code or from an interrupt *)
(* handler (any IRQ, or the timer) when interrupts are enabled.  Waiter    *)
(* slots are cleared by the waker but not by the waiter, so i is any index *)
(* and the call does nothing unless thread i is Blocked.                   *)
(***************************************************************************)
\* Mutant: the thread's state is not checked.
UnblockAnyState(i) ==
    /\ InKernel \/ InterruptsEnabled \/ mode[cur] = "fault"
    /\ state[i] \notin {"Unused", "Dead"}
    /\ state' = [state EXCEPT ![i] = "Ready"]
    /\ ready_queue' = Append(ready_queue, i)
    /\ UNCHANGED <<nthreads, ticks_remaining, kind, pml4, user_rsp, fs_base,
                   current_idx, idle_thread_idx, donate, boot, mode, tls, cpu>>

Unblock(i) ==
    /\ InKernel \/ InterruptsEnabled \/ mode[cur] = "fault"
    /\ state[i] = "Blocked"
    /\ state' = [state EXCEPT ![i] = "Ready"]
    /\ ready_queue' = Append(ready_queue, i)
    /\ UNCHANGED <<nthreads, ticks_remaining, kind, pml4, user_rsp, fs_base,
                   current_idx, idle_thread_idx, donate, boot, mode, tls, cpu>>

(***************************************************************************)
(* set_donate_target.  A system call always yields afterwards, perhaps     *)
(* after setting another target or waking more threads; a worker can be    *)
(* preempted before it yields.                                             *)
(***************************************************************************)
SetDonateTarget(i) ==
    /\ InKernel /\ <<cur, i>> \in Donations
    /\ donate' = i
    /\ mode' = [mode EXCEPT ![cur] = IF InSyscall THEN "donating" ELSE @]
    /\ UNCHANGED <<table, queue, boot, tls, cpu>>

-----------------------------------------------------------------------------
(***************************************************************************)
(* The switch itself.  Requeued is the queue after the outgoing thread, if *)
(* still runnable, has been pushed back; Switch(next, q, st) installs the  *)
(* thread chosen from it (the shared tail of preempt_tick and yield_tick). *)
(***************************************************************************)
\* Mutant: the outgoing thread is pushed back whatever its state.
RequeuedAlways == Append(ready_queue, cur)

\* Mutant: push_front in place of push_back.
RequeuedFront ==
    IF IsRunnable(state[cur]) THEN <<cur>> \o ready_queue ELSE ready_queue

Requeued ==
    IF IsRunnable(state[cur]) THEN Append(ready_queue, cur) ELSE ready_queue

RequeuedState ==
    IF IsRunnable(state[cur]) THEN [state EXCEPT ![cur] = "Ready"] ELSE state

(***************************************************************************)
(* save_current_context.                                                   *)
(***************************************************************************)
SaveCurrentContext ==
    /\ user_rsp' = [user_rsp EXCEPT ![cur] = cpu.user_rsp]
    /\ fs_base' = [fs_base EXCEPT ![cur] = cpu.fs]

(***************************************************************************)
(* The stub's swapgs: on entry from ring 3 and on exit to ring 3.          *)
(***************************************************************************)
GsAfterSwitch(next) ==
    LET inside == IF mode[cur] = "user" THEN Other(cpu.gs) ELSE cpu.gs
    IN  IF mode[next] = "user" THEN Other(inside) ELSE inside

(***************************************************************************)
(* restore_thread_state: the page table is reloaded only when it differs   *)
(* from the one recorded for the outgoing thread, and the kernel stack is  *)
(* left alone for kernel threads.                                          *)
(***************************************************************************)
\* Mutant: PER_CPU.user_rsp is not restored.
RestoreWithoutUserRsp(next) ==
    cpu' = [cpu EXCEPT
              !.fs = fs_base[next],
              !.kstack = IF kind[next] = "User" THEN next ELSE @,
              !.pid = IF kind[next] = "User" THEN next ELSE Nobody,
              !.cr3 = IF pml4[next] # pml4[cur] THEN pml4[next] ELSE @,
              !.gs = GsAfterSwitch(next),
              !.idx = next]

RestoreThreadState(next) ==
    cpu' = [user_rsp |-> user_rsp[next],
            user_rip |-> cpu.user_rip,
            fs       |-> fs_base[next],
            kstack   |-> IF kind[next] = "User" THEN next ELSE cpu.kstack,
            pid      |-> IF kind[next] = "User" THEN next ELSE Nobody,
            cr3      |-> IF pml4[next] # pml4[cur] THEN pml4[next] ELSE cpu.cr3,
            gs       |-> GsAfterSwitch(next),
            idx      |-> next]

AfterYield(m) ==
    CASE m \in {"syscall", "donating", "parked"} -> "resumed"
      [] m = "exiting" -> "exited"
      [] m = "dying"   -> "gone"
      [] OTHER         -> m

\* Mutant: the incoming thread keeps what was left of its last quantum.
SwitchWithoutReset(next, q, ticks) ==
    /\ SaveCurrentContext
    /\ ready_queue' = q
    /\ current_idx' = next
    /\ state' = [RequeuedState EXCEPT ![next] = "Running"]
    /\ ticks_remaining' = ticks
    /\ IF next = cur THEN UNCHANGED cpu ELSE RestoreThreadState(next)
    /\ UNCHANGED <<nthreads, kind, pml4, idle_thread_idx, boot, tls>>

Switch(next, q, ticks) ==
    /\ SaveCurrentContext
    /\ ready_queue' = q
    /\ current_idx' = next
    /\ state' = [RequeuedState EXCEPT ![next] = "Running"]
    /\ ticks_remaining' = [ticks EXCEPT ![next] = QUANTUM_TICKS]
    /\ IF next = cur THEN UNCHANGED cpu ELSE RestoreThreadState(next)
    /\ UNCHANGED <<nthreads, kind, pml4, idle_thread_idx, boot, tls>>

(***************************************************************************)
(* The front of the queue, or the idle thread.                             *)
(***************************************************************************)
PickFront(q) == IF q = <<>> THEN idle_thread_idx ELSE Head(q)

Rest(q) == IF q = <<>> THEN q ELSE Tail(q)

(***************************************************************************)
(* preempt_tick: run from the LAPIC timer.  A tick either only counts the  *)
(* quantum down, or ends it and switches.  (Blocked and Dead threads never *)
(* run with interrupts enabled, so the current thread is runnable here.)   *)
(***************************************************************************)
TicksCounted ==
    IF IsRunnable(state[cur])
      THEN [ticks_remaining EXCEPT ![cur] = @ - 1] ELSE ticks_remaining

QuantumLeft == IsRunnable(state[cur]) /\ TicksCounted[cur] > 0

PreemptTick ==
    /\ InterruptsEnabled
    /\ IF QuantumLeft
         THEN /\ ticks_remaining' = TicksCounted
              /\ UNCHANGED <<nthreads, state, kind, pml4, user_rsp, fs_base,
                             queue, donate, boot, mode, tls, cpu>>
         ELSE /\ Switch(PickFront(Requeued), Rest(Requeued), TicksCounted)
              /\ UNCHANGED <<donate, mode>>

(***************************************************************************)
(* yield_tick, entered by int 0x50 (yield_now).  DONATE_TARGET is consumed *)
(* whether or not it can be honoured; a Ready target is taken out of the   *)
(* middle of the queue.                                                    *)
(***************************************************************************)
DonationValid ==
    donate < nthreads /\ RequeuedState[donate] = "Ready"

YieldTick ==
    /\ donate' = Nobody
    /\ IF DonationValid
         THEN Switch(donate, RemoveFirst(Requeued, donate), ticks_remaining)
         ELSE Switch(PickFront(Requeued), Rest(Requeued), ticks_remaining)

YieldNow ==
    /\ InKernel \/ mode[cur] \in {"parked", "dying"}
    /\ mode' = [mode EXCEPT ![cur] = AfterYield(@)]
    /\ YieldTick

-----------------------------------------------------------------------------
(***************************************************************************)
(* scheduler::init has registered the boot context as thread 0.            *)
(***************************************************************************)
Init ==
    /\ nthreads = 1
    /\ state = [t \in Slots |-> IF t = BootThread THEN "Running" ELSE "Unused"]
    /\ ticks_remaining = [t \in Slots |-> QUANTUM_TICKS]
    /\ kind = [t \in Slots |-> "Kernel"]
    /\ pml4 = [t \in Slots |-> Nobody]
    /\ user_rsp = [t \in Slots |-> Nobody]
    /\ fs_base = [t \in Slots |-> Nobody]
    /\ ready_queue = <<>>
    /\ current_idx = BootThread
    /\ idle_thread_idx = BootThread
    /\ donate = Nobody
    /\ boot = "registered"
    /\ mode = [t \in Slots |-> IF t = BootThread THEN "boot" ELSE "none"]
    /\ tls = [t \in Slots |-> Nobody]
    /\ cpu = [user_rsp |-> Nobody, user_rip |-> Nobody, fs |-> Nobody,
              kstack |-> Nobody, pid |-> Nobody, cr3 |-> Nobody,
              gs |-> "kernel", idx |-> BootThread]

Next ==
    \/ BootSpawnIdle
    \/ BootTakeIdle
    \/ BootSpawnWorker
    \/ SpawnUserThread
    \/ SpawnCloneThread
    \/ EnterUser
    \/ SyscallEntry
    \/ SyscallReturn
    \/ SetFsBase
    \/ Execve
    \/ MarkBlocked
    \/ TerminateProcess
    \/ KillCurrentThread
    \/ UserFault
    \/ FaultDeliverSignal
    \/ FaultKill
    \/ \E i \in Slots : Unblock(i)
    \/ \E i \in Slots : SetDonateTarget(i)
    \/ PreemptTick
    \/ YieldNow

Spec == Init /\ [][Next]_vars

(***************************************************************************)
(* The LAPIC timer is periodic and a tick that arrives while IF = 0 stays  *)
(* pending, so it is taken whenever interrupts are enabled again and again *)
(* (strong fairness).  Kernel code that runs with IF = 0 has no unbounded  *)
(* loop: a system call ends, and what follows mark_blocked, the exit path  *)
(* and a fatal fault is executed (weak fairness).                          *)
(***************************************************************************)
Fairness ==
    /\ SF_vars(PreemptTick)
    /\ WF_vars(SyscallReturn)
    /\ WF_vars(mode[cur] # "kernel" /\ YieldNow)
    /\ WF_vars(KillCurrentThread)
    /\ WF_vars(FaultKill)

FairSpec == Spec /\ Fairness

(***************************************************************************)
(* As FairSpec, and no system call yields for ever: some call returns to   *)
(* ring 3, where the timer can fire, again and again.                      *)
(***************************************************************************)
PromptSpec == FairSpec /\ SF_vars(SyscallReturn)

-----------------------------------------------------------------------------
(***************************************************************************)
(* Types of the scheduler's state.                                         *)
(***************************************************************************)
TypeOK ==
    /\ nthreads \in 1 .. MaxThreads
    /\ state \in [Slots -> States]
    /\ ticks_remaining \in [Slots -> 0 .. QUANTUM_TICKS]
    /\ kind \in [Slots -> {"Kernel", "User"}]
    /\ pml4 \in [Slots -> Owner]
    /\ user_rsp \in [Slots -> Owner]
    /\ fs_base \in [Slots -> Owner]
    /\ ready_queue \in Seq(Slots)
    /\ current_idx \in Slots
    /\ idle_thread_idx \in Slots
    /\ donate \in Owner
    /\ boot \in {"registered", "idle_spawned", "idle_taken", "done"}
    /\ mode \in [Slots -> Modes]
    /\ tls \in [Slots -> Owner]
    /\ cpu \in Cpu

Queued(t) == t \in Range(ready_queue)

(***************************************************************************)
(* The ready queue holds each Ready thread exactly once and nothing else;  *)
(* the one exception is the idle thread, which init takes off the queue.   *)
(* Without it pop_front would run a thread twice, run a Blocked or Dead    *)
(* one (the unreachable! of kill_current_thread), or lose a woken one.     *)
(***************************************************************************)
ReadyQueueExact ==
    /\ IsInjective(ready_queue)
    /\ \A t \in Slots : Queued(t) => state[t] = "Ready"
    /\ \A t \in Slots :
          state[t] = "Ready" =>
             Queued(t) \/ (t = idle_thread_idx /\ mode[t] = "idle")

(***************************************************************************)
(* Exactly the thread on the CPU is neither queued nor off the CPU: it is  *)
(* Running unless it has just marked itself Blocked or Dead and has yet to *)
(* yield, and no other thread claims to be Running.  A Blocked thread that *)
(* is not on the CPU has left its system call at a yield, and a Dead one   *)
(* never comes back ("dead thread was rescheduled").                       *)
(***************************************************************************)
OnCpu(m) == CASE m = "parked" -> "Blocked"
              [] m = "dying"  -> "Dead"
              [] OTHER        -> "Running"

OneRunning ==
    /\ state[cur] = OnCpu(mode[cur])
    /\ mode[cur] \notin {"none", "gone"}
    /\ \A t \in Slots \ {cur} :
          /\ state[t] # "Running"
          /\ mode[t] \notin {"donating", "parked", "dying", "fault"}
          /\ state[t] = "Blocked" => mode[t] = "resumed"
          /\ state[t] = "Dead" <=> mode[t] = "gone"

(***************************************************************************)
(* The processor always carries the current thread's own context: its page *)
(* table, kernel stack, pid and FS base; GS matches the ring; a system     *)
(* call that has yielded still returns to its own user stack; and a system *)
(* call that has not yielded still sees its own RIP and R9, which          *)
(* save_current_context does not save (sys_clone reads them).              *)
(***************************************************************************)
ContextOwned ==
    /\ cpu.idx = cur
    /\ cpu.cr3 = pml4[cur]
    /\ cpu.gs = IF mode[cur] \in {"user", "fault"} THEN "user" ELSE "kernel"
    /\ kind[cur] = "User" =>
          cpu.pid = cur /\ cpu.kstack = cur /\ cpu.fs = tls[cur]
    /\ kind[cur] = "Kernel" => cpu.pid = Nobody
    /\ mode[cur] \in {"syscall", "resumed", "donating", "parked"} =>
          cpu.user_rsp = cur
    /\ mode[cur] = "syscall" => cpu.user_rip = cur

(***************************************************************************)
(* The running thread has at least one tick left: preempt_tick decrements  *)
(* an unsigned counter before it tests it.                                 *)
(***************************************************************************)
QuantumPositive ==
    ticks_remaining[cur] >= 1

(***************************************************************************)
(* docs/scheduler.md: threads cycle between Ready and Running "in strict   *)
(* round-robin order": a thread that becomes Ready eventually runs.  It    *)
(* holds while nobody donates and fails when two threads donate to each    *)
(* other more often than once per quantum.                                 *)
(***************************************************************************)
ReadyRuns ==
    \A t \in Slots :
        (state[t] = "Ready" /\ mode[t] # "idle") ~> (state[t] = "Running")

(***************************************************************************)
(* The idle thread is "Never on the ready queue" (the comment on           *)
(* Scheduler.idle_thread_idx), although both switch handlers push back     *)
(* whatever runnable thread they interrupt: once it has been taken off the *)
(* queue it never runs, because the two executor workers halt in place     *)
(* and never block, so that the queue or the CPU always has one of them.   *)
(***************************************************************************)
IdleNeverQueued ==
    boot \in {"idle_taken", "done"} => ~Queued(idle_thread_idx)
=============================================================================
