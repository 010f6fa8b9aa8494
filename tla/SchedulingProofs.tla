------------------------- MODULE SchedulingProofs -------------------------
(***************************************************************************)
(* The two schedulers.  The preemptive one, for any number of threads, any *)
(* quantum and any pattern of donations: the ready queue is exact, one     *)
(* thread runs, every quantum is positive, the idle thread stays off the   *)
(* queue, and the registers are those of the running thread.  The async    *)
(* executor, for any number of workers and tasks and any capacities of its *)
(* queues: every task is in one place.                                     *)
(***************************************************************************)
EXTENDS Scheduler, Executor, QueueLemmas, FiniteSetTheorems, TLAPS

(***************************************************************************)
(* Slots beyond threads.len() are unused, and only they are.               *)
(***************************************************************************)
SlotsInv ==
    \A t \in Slots : /\ t >= nthreads <=> state[t] = "Unused"
                     /\ state[t] = "Unused" <=> mode[t] = "none"

(***************************************************************************)
(* Thread 0's progress.  Until the second worker exists there are at most  *)
(* two threads; from then on two threads never block, which keeps the idle *)
(* thread off the CPU and off the queue.                                   *)
(***************************************************************************)
Registered ==
    /\ nthreads = 1 /\ cur = 0 /\ ready_queue = <<>>
    /\ state[0] = "Running" /\ mode[0] = "boot" /\ idle_thread_idx = 0

IdleSpawned ==
    /\ nthreads = 2
    /\ mode[0] = "boot" /\ mode[1] = "idle" /\ idle_thread_idx = 0
    /\ \/ cur = 0 /\ ready_queue = <<1>>
       \/ cur = 1 /\ ready_queue = <<0>>

IdleTaken ==
    /\ nthreads = 2 /\ cur = 0 /\ ready_queue = <<>>
    /\ mode[0] = "boot" /\ mode[1] = "idle" /\ idle_thread_idx = 1
    /\ state[1] = "Ready"

WorkersUp ==
    /\ nthreads >= 3 /\ cur # 1
    /\ mode[0] = "kernel" /\ mode[2] = "kernel"
    /\ mode[1] = "idle" /\ idle_thread_idx = 1
    /\ ~Queued(1)
    /\ state[1] = "Ready"
    /\ state[0] \in {"Ready", "Running"} /\ state[2] \in {"Ready", "Running"}

BootInv ==
    /\ boot = "registered" => Registered
    /\ boot = "idle_spawned" => IdleSpawned
    /\ boot = "idle_taken" => IdleTaken
    /\ boot = "done" => WorkersUp
    /\ donate # 1
    /\ boot # "done" => \A t \in Slots : mode[t] \in {"none", "boot", "idle"}

(***************************************************************************)
(* The inductive invariant.                                                *)
(***************************************************************************)
SchedulerInv ==
    /\ TypeOK
    /\ ReadyQueueExact
    /\ OneRunning
    /\ QuantumPositive
    /\ SlotsInv
    /\ BootInv

-----------------------------------------------------------------------------
(***************************************************************************)
(* The queue after the outgoing thread has been pushed back never is       *)
(* empty: the fallback to the idle thread is not taken.                    *)
(***************************************************************************)
LEMMA RequeuedFacts ==
    ASSUME SchedulerInv
    PROVE  /\ Requeued \in Seq(Slots) /\ Requeued # <<>>
           /\ IsInjective(Requeued)
           /\ Range(Requeued) = Range(ready_queue) \cup
                                  (IF IsRunnable(state[cur]) THEN {cur} ELSE {})
           /\ Range(Requeued) \subseteq Slots
           /\ RequeuedState \in [Slots -> States]
           /\ \A t \in Slots : RequeuedState[t] =
                 IF t = cur /\ IsRunnable(state[cur]) THEN "Ready" ELSE state[t]
<1> USE SchedulerAssumption
<1>1. /\ ready_queue \in Seq(Slots) /\ cur \in Slots
      /\ state \in [Slots -> States] /\ IsInjective(ready_queue)
  BY DEF SchedulerInv, TypeOK, ReadyQueueExact, cur
<1>2. cur \notin Range(ready_queue)
  BY <1>1 DEF SchedulerInv, ReadyQueueExact, OneRunning, OnCpu, Queued
<1>3. Range(ready_queue) \subseteq Slots
  BY <1>1, LenProperties, ElementOfSeq DEF Range
<1>4. CASE IsRunnable(state[cur])
  BY <1>1, <1>2, <1>3, <1>4, PushesBack DEF Requeued, RequeuedState, States
<1>5. CASE ~IsRunnable(state[cur])
  <2>1. cur # 0
    BY <1>5 DEF SchedulerInv, BootInv, TypeOK, Registered, IdleSpawned, IdleTaken,
                WorkersUp, OneRunning, OnCpu, IsRunnable
  <2>2. boot # "registered" /\ boot # "idle_taken"
    BY <2>1 DEF SchedulerInv, BootInv, Registered, IdleTaken
  <2>3. boot = "idle_spawned" => ready_queue = <<0>>
    BY <2>1 DEF SchedulerInv, BootInv, IdleSpawned
  <2>4. ASSUME boot = "done" PROVE 0 \in Range(ready_queue)
    <3>1. state[0] = "Ready" /\ idle_thread_idx = 1 /\ 0 \in Slots
      BY <2>4, <2>1 DEF SchedulerInv, BootInv, WorkersUp, OneRunning, Slots
    <3> QED
      BY <3>1 DEF SchedulerInv, ReadyQueueExact, Queued
  <2>5. ready_queue # <<>>
    <3>1. Range(<<>>) = {}
      BY DEF Range
    <3>2. boot \in {"registered", "idle_spawned", "idle_taken", "done"}
      BY DEF SchedulerInv, TypeOK
    <3> QED
      BY <3>1, <3>2, <2>2, <2>3, <2>4
  <2> QED
    BY <2>5, <1>1, <1>3, <1>5 DEF Requeued, RequeuedState
<1> QED
  BY <1>4, <1>5

(***************************************************************************)
(* The tail shared by preempt_tick and yield_tick preserves the invariant  *)
(* for any thread taken off the requeued queue.                            *)
(***************************************************************************)
LEMMA SwitchPreserves ==
    ASSUME SchedulerInv,
           NEW next \in Range(Requeued),
           NEW q \in Seq(Slots), IsInjective(q),
           Range(q) = Range(Requeued) \ {next},
           NEW ticks \in [Slots -> 0 .. QUANTUM_TICKS],
           Switch(next, q, ticks),
           InterruptsEnabled \/ InKernel \/ mode[cur] \in {"parked", "dying"},
           mode' = [mode EXCEPT ![cur] = AfterYield(mode[cur])],
           donate' \in Owner, donate' # 1
    PROVE  SchedulerInv'
<1> USE SchedulerAssumption
<1>1. /\ cur \in Slots /\ next \in Slots
      /\ state \in [Slots -> States] /\ mode \in [Slots -> Modes]
      /\ RequeuedState \in [Slots -> States]
      /\ \A t \in Slots : RequeuedState[t] =
                 IF t = cur /\ IsRunnable(state[cur]) THEN "Ready" ELSE state[t]
      /\ Range(Requeued) = Range(ready_queue) \cup
                                  (IF IsRunnable(state[cur]) THEN {cur} ELSE {})
  BY RequeuedFacts DEF SchedulerInv, TypeOK, cur
<1>2. /\ ready_queue' = q /\ cur' = next /\ current_idx' = next
      /\ state' = [RequeuedState EXCEPT ![next] = "Running"]
      /\ ticks_remaining' = [ticks EXCEPT ![next] = QUANTUM_TICKS]
      /\ UNCHANGED <<nthreads, kind, pml4, idle_thread_idx, boot, tls>>
  BY DEF Switch, cur
<1>3. \A t \in Slots : state'[t] =
        IF t = next THEN "Running"
        ELSE IF t = cur /\ IsRunnable(state[cur]) THEN "Ready" ELSE state[t]
  BY <1>1, <1>2
<1>4. \A t \in Slots : mode'[t] =
        IF t = cur THEN AfterYield(mode[cur]) ELSE mode[t]
  BY <1>1
<1>5. /\ state[next] = "Ready" \/ (next = cur /\ state[cur] = "Running")
      /\ mode[next] \notin {"none", "gone", "parked", "dying"}
  BY <1>1 DEF SchedulerInv, ReadyQueueExact, OneRunning, OnCpu, SlotsInv,
              Queued, IsRunnable
<1>6. TypeOK'
  <2>1. cpu' \in Cpu
    <3>1. CASE next = cur
      BY <3>1 DEF Switch, SchedulerInv, TypeOK
    <3>2. CASE next # cur
      <4>1. RestoreThreadState(next)
        BY <3>2 DEF Switch
      <4>2. GsAfterSwitch(next) \in {"kernel", "user"}
        BY DEF GsAfterSwitch, Other, SchedulerInv, TypeOK, Cpu
      <4> QED
        BY <4>1, <4>2, <1>1 DEF RestoreThreadState, SchedulerInv, TypeOK, Cpu, Owner
    <3> QED
      BY <3>1, <3>2
  <2>2. user_rsp' \in [Slots -> Owner] /\ fs_base' \in [Slots -> Owner]
    BY DEF Switch, SaveCurrentContext, SchedulerInv, TypeOK, Cpu
  <2>3. state' \in [Slots -> States]
    BY <1>1, <1>2 DEF States
  <2>4. mode' \in [Slots -> Modes]
    BY <1>1 DEF AfterYield, Modes
  <2>5. ticks_remaining' \in [Slots -> 0 .. QUANTUM_TICKS]
    BY <1>1, <1>2
  <2> QED
    BY <2>1, <2>2, <2>3, <2>4, <2>5, <1>1, <1>2 DEF SchedulerInv, TypeOK
<1>7. ReadyQueueExact'
  <2>1. ASSUME NEW t \in Slots, t \in Range(q) PROVE state'[t] = "Ready"
    BY <2>1, <1>1, <1>3 DEF SchedulerInv, ReadyQueueExact, Queued
  <2>2. ASSUME NEW t \in Slots, state'[t] = "Ready"
        PROVE  t \in Range(q) \/ (t = idle_thread_idx /\ mode'[t] = "idle")
    <3>1. t # next
      BY <2>2, <1>3
    <3>2. CASE t = cur
      BY <3>1, <3>2, <2>2, <1>1, <1>3 DEF SchedulerInv, OneRunning, OnCpu, IsRunnable
    <3>3. CASE t # cur
      BY <3>1, <3>3, <2>2, <1>1, <1>3, <1>4 DEF SchedulerInv, ReadyQueueExact, Queued
    <3> QED
      BY <3>2, <3>3
  <2> QED
    BY <2>1, <2>2, <1>2 DEF ReadyQueueExact, Queued
<1>8. OneRunning'
  <2>1. /\ state'[next] = OnCpu(mode'[next])
        /\ mode'[next] \notin {"none", "gone"}
    BY <1>1, <1>3, <1>4, <1>5 DEF OnCpu, AfterYield
  <2>2. ASSUME NEW t \in Slots \ {next}
        PROVE  /\ state'[t] # "Running"
               /\ mode'[t] \notin {"donating", "parked", "dying", "fault"}
               /\ state'[t] = "Blocked" => mode'[t] = "resumed"
               /\ state'[t] = "Dead" <=> mode'[t] = "gone"
    <3>1. CASE t # cur
      BY <3>1, <2>2, <1>1, <1>3, <1>4 DEF SchedulerInv, OneRunning
    <3>2. CASE t = cur
      BY <3>2, <2>2, <1>1, <1>3, <1>4 DEF SchedulerInv, OneRunning, OnCpu, AfterYield,
         IsRunnable, InterruptsEnabled, InKernel
    <3> QED
      BY <3>1, <3>2
  <2> QED
    BY <2>1, <2>2, <1>2 DEF OneRunning
<1>9. QuantumPositive'
  BY <1>1, <1>2 DEF QuantumPositive
<1>10. SlotsInv'
  <2>1. ASSUME NEW t \in Slots
        PROVE  /\ state'[t] = "Unused" <=> state[t] = "Unused"
               /\ mode'[t] = "none" <=> mode[t] = "none"
    BY <1>1, <1>3, <1>4, <1>5 DEF SchedulerInv, OneRunning, OnCpu, AfterYield, IsRunnable
  <2> QED
    BY <2>1, <1>2 DEF SchedulerInv, SlotsInv
<1>11. BootInv'
  <2>1. ASSUME boot = "registered" PROVE Registered'
    <3>1. Range(ready_queue) = {} /\ cur = 0 /\ state[0] = "Running"
          /\ mode[0] = "boot" /\ nthreads = 1 /\ idle_thread_idx = 0
      BY <2>1 DEF SchedulerInv, BootInv, Registered, Range
    <3>2. next = 0 /\ Range(q) = {}
      BY <3>1, <1>1 DEF IsRunnable
    <3>3. q = <<>>
      BY <3>2, SmallQueues
    <3> QED
      BY <3>1, <3>2, <3>3, <1>1, <1>2, <1>3, <1>4 DEF Registered, AfterYield
  <2>2. ASSUME boot = "idle_spawned" PROVE IdleSpawned'
    <3>1. /\ nthreads = 2 /\ mode[0] = "boot" /\ mode[1] = "idle"
          /\ idle_thread_idx = 0 /\ cur \in {0, 1}
          /\ Range(ready_queue) = {0, 1} \ {cur}
      BY <2>2 DEF SchedulerInv, BootInv, IdleSpawned, Range
    <3>2. IsRunnable(state[cur])
      BY <3>1 DEF SchedulerInv, OneRunning, OnCpu, IsRunnable
    <3>3. next \in {0, 1} /\ Range(q) = {0, 1} \ {next}
      BY <3>1, <3>2, <1>1
    <3>4. ASSUME next = 0 PROVE q = <<1>>
      <4>1. Range(q) = {1}
        BY <3>3, <3>4
      <4> QED
        BY <4>1, SmallQueues
    <3>5. ASSUME next = 1 PROVE q = <<0>>
      <4>1. Range(q) = {0}
        BY <3>3, <3>5
      <4> QED
        BY <4>1, SmallQueues
    <3>6. mode'[0] = "boot" /\ mode'[1] = "idle"
      BY <3>1, <1>4 DEF AfterYield, Slots
    <3> QED
      BY <3>1, <3>3, <3>4, <3>5, <3>6, <1>2 DEF IdleSpawned
  <2>3. ASSUME boot = "idle_taken" PROVE IdleTaken'
    <3>1. Range(ready_queue) = {} /\ cur = 0 /\ mode[0] = "boot" /\ mode[1] = "idle"
          /\ nthreads = 2 /\ idle_thread_idx = 1 /\ state[1] = "Ready"
      BY <2>3 DEF SchedulerInv, BootInv, IdleTaken, Range
    <3>2. next = 0 /\ Range(q) = {}
      BY <3>1, <1>1 DEF IsRunnable
    <3>3. q = <<>>
      BY <3>2, SmallQueues
    <3> QED
      <4>1. state'[1] = "Ready" /\ mode'[0] = "boot" /\ mode'[1] = "idle"
        BY SMTT(30), <3>1, <3>2, <1>3, <1>4 DEF AfterYield, Slots
      <4> QED
        BY <4>1, <3>1, <3>2, <3>3, <1>2 DEF IdleTaken
  <2>4. ASSUME boot = "done" PROVE WorkersUp'
    <3>1. WorkersUp
      BY <2>4 DEF SchedulerInv, BootInv
    <3>2. 1 \notin Range(Requeued)
      BY <3>1, <1>1 DEF WorkersUp, Queued
    <3>3. next # 1 /\ 1 \notin Range(q) /\ {0, 1, 2} \subseteq Slots
      BY <3>2 DEF Slots
    <3>4. /\ mode'[0] = "kernel" /\ mode'[1] = "idle" /\ mode'[2] = "kernel"
      BY <3>1, <3>3, <1>4 DEF WorkersUp, AfterYield
    <3>5. /\ state'[0] \in {"Ready", "Running"} /\ state'[2] \in {"Ready", "Running"}
          /\ state'[1] = "Ready"
      BY <3>1, <3>3, <1>3 DEF WorkersUp
    <3> QED
      BY <3>1, <3>3, <3>4, <3>5, <1>2 DEF WorkersUp, Queued
  <2>5. boot # "done" => \A t \in Slots : mode'[t] \in {"none", "boot", "idle"}
    BY <1>1, <1>4 DEF SchedulerInv, BootInv, AfterYield
  <2> QED
    BY <2>1, <2>2, <2>3, <2>4, <2>5, <1>2 DEF BootInv
<1> QED
  BY <1>6, <1>7, <1>8, <1>9, <1>10, <1>11 DEF SchedulerInv

(***************************************************************************)
(* alloc_thread_slot returns a Dead slot or the one after the last.        *)
(***************************************************************************)
LEMMA AllocFacts ==
    ASSUME SchedulerInv, SlotAvailable
    PROVE  /\ AllocThreadSlot \in Slots
           /\ AllocThreadSlot <= nthreads
           /\ AllocThreadSlot < nthreads => state[AllocThreadSlot] = "Dead"
           /\ ~(AllocThreadSlot < nthreads) =>
                 AllocThreadSlot = nthreads /\ state[AllocThreadSlot] = "Unused"
<1> USE SchedulerAssumption
<1>1. nthreads \in 1 .. MaxThreads
  BY DEF SchedulerInv, TypeOK
<1>2. CASE DeadSlots # {}
  <2>1. AllocThreadSlot \in DeadSlots
    BY <1>2, MinInSet DEF AllocThreadSlot, DeadSlots, Slots
  <2> QED
    BY <2>1, <1>1 DEF DeadSlots, Slots
<1>3. CASE DeadSlots = {}
  BY <1>1, <1>3 DEF SlotAvailable, AllocThreadSlot, SchedulerInv, SlotsInv, Slots
<1> QED
  BY <1>2, <1>3

(***************************************************************************)
(* Spawning a thread disturbs none of the threads there are.               *)
(***************************************************************************)
LEMMA SpawnPreserves ==
    ASSUME SchedulerInv, SlotAvailable,
           NEW t, t = AllocThreadSlot,
           NEW k \in {"Kernel", "User"}, NEW space \in Owner,
           NEW rsp \in Owner, NEW fs \in Owner,
           Spawn(t, k, space, rsp, fs),
           state[cur] = "Running",
           NEW m \in {"idle", "kernel", "trampoline"},
           NEW c \in {"kernel", mode[cur]},
           mode' = [mode EXCEPT ![t] = m, ![cur] = c],
           boot' \in {"registered", "idle_spawned", "idle_taken", "done"}
    PROVE  /\ TypeOK' /\ ReadyQueueExact' /\ OneRunning' /\ QuantumPositive'
           /\ SlotsInv'
           /\ t \in Slots /\ t # cur /\ t \notin Range(ready_queue)
           /\ Range(ready_queue') = Range(ready_queue) \cup {t}
           /\ \A x \in Slots : state'[x] = IF x = t THEN "Ready" ELSE state[x]
           /\ mode'[t] = m /\ mode'[cur] = c
           /\ \A x \in Slots \ {t, cur} : mode'[x] = mode[x]
           /\ nthreads' = IF t < nthreads THEN nthreads ELSE nthreads + 1
<1> USE SchedulerAssumption
<1>1. /\ t \in Slots /\ t <= nthreads
      /\ t < nthreads => state[t] = "Dead"
      /\ ~(t < nthreads) => t = nthreads /\ state[t] = "Unused"
      /\ state[t] \in {"Dead", "Unused"}
  BY AllocFacts
<1>2. /\ nthreads \in 1 .. MaxThreads /\ cur \in Slots
      /\ state \in [Slots -> States] /\ mode \in [Slots -> Modes]
      /\ ready_queue \in Seq(Slots) /\ IsInjective(ready_queue)
  BY DEF SchedulerInv, TypeOK, cur, ReadyQueueExact
<1>3. t # cur
  BY <1>1
<1>4. t \notin Range(ready_queue)
  BY <1>1 DEF SchedulerInv, ReadyQueueExact, Queued
<1>5. /\ nthreads' = IF t < nthreads THEN nthreads ELSE nthreads + 1
      /\ state' = [state EXCEPT ![t] = "Ready"]
      /\ ticks_remaining' = [ticks_remaining EXCEPT ![t] = QUANTUM_TICKS]
      /\ ready_queue' = Append(ready_queue, t)
      /\ cur' = cur /\ UNCHANGED <<current_idx, idle_thread_idx, donate, cpu>>
  BY DEF Spawn, cur
<1>6. /\ ready_queue' \in Seq(Slots) /\ IsInjective(ready_queue')
      /\ Range(ready_queue') = Range(ready_queue) \cup {t}
  BY <1>1, <1>2, <1>4, <1>5, PushesBack
<1>7. \A x \in Slots : state'[x] = IF x = t THEN "Ready" ELSE state[x]
  BY <1>1, <1>2, <1>5
<1>7a. mode'[t] = m /\ mode'[cur] = c
  BY <1>1, <1>2, <1>3
<1>7b. \A x \in Slots \ {t, cur} : mode'[x] = mode[x]
  BY <1>1, <1>2, <1>3
<1>8. TypeOK'
  <2>1. nthreads' \in 1 .. MaxThreads
    BY <1>1, <1>2, <1>5 DEF Slots
  <2>2. state' \in [Slots -> States] /\ mode' \in [Slots -> Modes]
    BY <1>1, <1>2, <1>5 DEF States, Modes
  <2>3. /\ ticks_remaining' \in [Slots -> 0 .. QUANTUM_TICKS]
        /\ kind' \in [Slots -> {"Kernel", "User"}] /\ pml4' \in [Slots -> Owner]
        /\ user_rsp' \in [Slots -> Owner] /\ fs_base' \in [Slots -> Owner]
        /\ tls' \in [Slots -> Owner]
    BY <1>1 DEF Spawn, SchedulerInv, TypeOK
  <2> QED
    BY <2>1, <2>2, <2>3, <1>5, <1>6 DEF SchedulerInv, TypeOK
<1>9. ReadyQueueExact'
  <2>1. ASSUME NEW x \in Slots, x \in Range(ready_queue') PROVE state'[x] = "Ready"
    BY <2>1, <1>6, <1>7, <1>7a, <1>7b DEF SchedulerInv, ReadyQueueExact, Queued
  <2>2. ASSUME NEW x \in Slots, state'[x] = "Ready"
        PROVE  x \in Range(ready_queue') \/ (x = idle_thread_idx /\ mode'[x] = "idle")
    BY <2>2, <1>3, <1>6, <1>7, <1>7a, <1>7b DEF SchedulerInv, ReadyQueueExact, Queued
  <2> QED
    BY <2>1, <2>2, <1>5, <1>6 DEF ReadyQueueExact, Queued
<1>10. OneRunning'
  <2>1. /\ state'[cur] = OnCpu(mode'[cur])
        /\ mode'[cur] \notin {"none", "gone"}
    <3>1. state'[cur] = "Running" /\ mode'[cur] = c
      BY <1>2, <1>3, <1>7, <1>7a, <1>7b
    <3>2. c \notin {"none", "gone", "parked", "dying"}
      BY DEF SchedulerInv, OneRunning, OnCpu
    <3> QED
      BY <3>1, <3>2 DEF OnCpu
  <2>2. ASSUME NEW x \in Slots \ {cur}
        PROVE  /\ state'[x] # "Running"
               /\ mode'[x] \notin {"donating", "parked", "dying", "fault"}
               /\ state'[x] = "Blocked" => mode'[x] = "resumed"
               /\ state'[x] = "Dead" <=> mode'[x] = "gone"
    <3>1. CASE x = t
      BY <3>1, <1>1, <1>7, <1>7a, <1>7b
    <3>2. CASE x # t
      <4>1. state'[x] = state[x] /\ mode'[x] = mode[x]
        BY <3>2, <2>2, <1>7, <1>7a, <1>7b
      <4> QED
        BY <4>1, <2>2 DEF SchedulerInv, OneRunning
    <3> QED
      BY <3>1, <3>2
  <2> QED
    BY <2>1, <2>2, <1>5 DEF OneRunning
<1>11. QuantumPositive'
  BY <1>2, <1>3, <1>5 DEF SchedulerInv, TypeOK, QuantumPositive
<1>12. SlotsInv'
  <2>1. ASSUME NEW x \in Slots
        PROVE  /\ x >= nthreads' <=> state'[x] = "Unused"
               /\ state'[x] = "Unused" <=> mode'[x] = "none"
    <3>1. CASE x = t
      BY <3>1, <1>1, <1>2, <1>5, <1>7, <1>7a, <1>7b DEF Slots
    <3>2. CASE x # t
      BY <3>2, <1>1, <1>2, <1>5, <1>7, <1>7a, <1>7b DEF SchedulerInv, SlotsInv, Slots, OneRunning
    <3> QED
      BY <3>1, <3>2
  <2> QED
    BY <2>1 DEF SlotsInv
<1> QED
  BY <1>1, <1>3, <1>4, <1>5, <1>6, <1>7, <1>7a, <1>7b, <1>8, <1>9, <1>10, <1>11, <1>12

(***************************************************************************)
(* Once a thread is somewhere other than in the boot code, the idle loop   *)
(* or a worker, both workers are up and it is none of the first three.     *)
(***************************************************************************)
LEMMA UserThreadFacts ==
    ASSUME SchedulerInv, NEW t \in Slots,
           mode[t] \notin {"none", "boot", "idle", "kernel"}
    PROVE  boot = "done" /\ WorkersUp /\ t \notin {0, 1, 2}
<1>1. boot = "done"
  BY DEF SchedulerInv, BootInv, TypeOK
<1>2. WorkersUp
  BY <1>1 DEF SchedulerInv, BootInv
<1> QED
  BY <1>1, <1>2 DEF WorkersUp

(***************************************************************************)
(* Steps that only move the current thread from one place to another where *)
(* it keeps running.                                                       *)
(***************************************************************************)
LEMMA ModePreserves ==
    ASSUME SchedulerInv, TypeOK',
           UNCHANGED <<nthreads, state, ticks_remaining, queue, boot>>,
           donate' # 1,
           NEW m \in Modes, mode' = [mode EXCEPT ![cur] = m],
           \/ m = mode[cur]
           \/ /\ mode[cur] \notin {"none", "boot", "idle", "kernel", "parked", "dying"}
              /\ m \notin {"none", "idle", "gone", "parked", "dying"}
    PROVE  SchedulerInv'
<1> USE SchedulerAssumption
<1>1. /\ cur \in Slots /\ cur' = cur
      /\ mode \in [Slots -> Modes]
      /\ UNCHANGED <<ready_queue, current_idx, idle_thread_idx>>
  BY DEF SchedulerInv, TypeOK, cur, queue
<1>2. mode'[cur] = m /\ \A t \in Slots \ {cur} : mode'[t] = mode[t]
  BY <1>1
<1>3. CASE m = mode[cur]
  <2>1. mode' = mode
    BY <1>1, <1>3
  <2> QED
    BY <2>1, <1>1 DEF SchedulerInv, ReadyQueueExact, Queued, OneRunning,
       QuantumPositive, SlotsInv, BootInv, Registered, IdleSpawned, IdleTaken, WorkersUp
<1>4. CASE /\ mode[cur] \notin {"none", "boot", "idle", "kernel", "parked", "dying"}
           /\ m \notin {"none", "idle", "gone", "parked", "dying"}
  <2>1. boot = "done" /\ WorkersUp /\ cur \notin {0, 1, 2}
    BY <1>1, <1>4, UserThreadFacts
  <2>2. state[cur] = "Running"
    BY <1>4 DEF SchedulerInv, OneRunning, OnCpu
  <2>3. ReadyQueueExact'
    BY <2>2, <1>1, <1>2 DEF SchedulerInv, ReadyQueueExact, Queued
  <2>4. OneRunning'
    BY <2>2, <1>1, <1>2, <1>4 DEF SchedulerInv, OneRunning, OnCpu
  <2>5. SlotsInv'
    BY <2>2, <1>1, <1>2, <1>4 DEF SchedulerInv, SlotsInv
  <2>6. WorkersUp'
    <3>1. {0, 1, 2} \subseteq Slots \ {cur}
      BY <2>1 DEF Slots
    <3> QED
      BY <3>1, <2>1, <1>1, <1>2 DEF WorkersUp, Queued
  <2>7. BootInv'
    BY <2>1, <2>6, <1>1 DEF BootInv
  <2>8. QuantumPositive'
    BY <1>1 DEF SchedulerInv, QuantumPositive
  <2> QED
    BY <2>3, <2>4, <2>5, <2>7, <2>8 DEF SchedulerInv
<1> QED
  BY <1>3, <1>4

(***************************************************************************)
(* Steps in which the current thread marks itself Blocked or Dead.         *)
(***************************************************************************)
LEMMA LeavePreserves ==
    ASSUME SchedulerInv, TypeOK',
           UNCHANGED <<nthreads, ticks_remaining, queue, boot, donate>>,
           mode[cur] \in {"syscall", "resumed", "donating", "exited", "fault"},
           NEW m \in {"parked", "dying"}, mode' = [mode EXCEPT ![cur] = m],
           state' = [state EXCEPT ![cur] = OnCpu(m)]
    PROVE  SchedulerInv'
<1> USE SchedulerAssumption
<1>1. /\ cur \in Slots /\ cur' = cur
      /\ mode \in [Slots -> Modes] /\ state \in [Slots -> States]
      /\ UNCHANGED <<ready_queue, current_idx, idle_thread_idx>>
  BY DEF SchedulerInv, TypeOK, cur, queue
<1>2. mode'[cur] = m /\ \A t \in Slots \ {cur} : mode'[t] = mode[t]
  BY <1>1
<1>3. state'[cur] = OnCpu(m) /\ \A t \in Slots \ {cur} : state'[t] = state[t]
  BY <1>1
<1>4. boot = "done" /\ WorkersUp /\ cur \notin {0, 1, 2}
  BY <1>1, UserThreadFacts
<1>5. state[cur] = "Running" /\ OnCpu(m) \in {"Blocked", "Dead"}
  BY DEF SchedulerInv, OneRunning, OnCpu
<1>6. ReadyQueueExact'
  <2>1. cur \notin Range(ready_queue)
    BY <1>1, <1>5 DEF SchedulerInv, ReadyQueueExact, Queued
  <2> QED
    BY <2>1, <1>1, <1>2, <1>3, <1>5 DEF SchedulerInv, ReadyQueueExact, Queued
<1>7. OneRunning'
  BY <1>1, <1>2, <1>3 DEF SchedulerInv, OneRunning
<1>8. SlotsInv'
  <2>1. ASSUME NEW t \in Slots
        PROVE  /\ state'[t] = "Unused" <=> state[t] = "Unused"
               /\ mode'[t] = "none" <=> mode[t] = "none"
    BY <1>2, <1>3, <1>5
  <2> QED
    BY <2>1 DEF SchedulerInv, SlotsInv
<1>9. WorkersUp'
  <2>1. {0, 1, 2} \subseteq Slots \ {cur}
    BY <1>4 DEF Slots
  <2> QED
    BY <2>1, <1>1, <1>2, <1>3, <1>4 DEF WorkersUp, Queued
<1>10. BootInv'
  BY <1>4, <1>9, <1>1 DEF SchedulerInv, BootInv
<1>11. QuantumPositive'
  BY <1>1 DEF SchedulerInv, QuantumPositive
<1> QED
  BY <1>6, <1>7, <1>8, <1>10, <1>11 DEF SchedulerInv

(***************************************************************************)
(* unblock pushes a Blocked thread back.                                   *)
(***************************************************************************)
LEMMA UnblockPreserves ==
    ASSUME SchedulerInv, NEW i \in Slots, Unblock(i)
    PROVE  SchedulerInv'
<1> USE SchedulerAssumption
<1>1. /\ cur \in Slots /\ cur' = cur
      /\ state \in [Slots -> States] /\ mode' = mode
      /\ UNCHANGED <<nthreads, ticks_remaining, idle_thread_idx, boot, donate>>
      /\ state' = [state EXCEPT ![i] = "Ready"]
      /\ ready_queue' = Append(ready_queue, i)
      /\ ready_queue \in Seq(Slots) /\ IsInjective(ready_queue)
      /\ state[i] = "Blocked"
  BY DEF SchedulerInv, TypeOK, ReadyQueueExact, Unblock, cur
<1>2. i # cur
  BY <1>1 DEF Unblock, SchedulerInv, OneRunning, OnCpu, InKernel, InterruptsEnabled
<1>3. boot = "done" /\ WorkersUp /\ i \notin {0, 1, 2}
  BY <1>1, <1>2, UserThreadFacts DEF SchedulerInv, OneRunning
<1>4. i \notin Range(ready_queue)
  BY <1>1 DEF SchedulerInv, ReadyQueueExact, Queued
<1>5. /\ ready_queue' \in Seq(Slots) /\ IsInjective(ready_queue')
      /\ Range(ready_queue') = Range(ready_queue) \cup {i}
  BY <1>1, <1>4, PushesBack
<1>6. state'[i] = "Ready" /\ \A t \in Slots \ {i} : state'[t] = state[t]
  BY <1>1
<1>7. TypeOK'
  BY <1>1, <1>5 DEF Unblock, SchedulerInv, TypeOK, States
<1>8. ReadyQueueExact'
  BY <1>1, <1>5, <1>6 DEF SchedulerInv, ReadyQueueExact, Queued
<1>9. OneRunning'
  <2>1. mode[i] # "gone"
    BY <1>1, <1>2 DEF SchedulerInv, OneRunning
  <2> QED
    BY <2>1, <1>1, <1>2, <1>6 DEF SchedulerInv, OneRunning
<1>10. SlotsInv'
  BY <1>1, <1>6 DEF SchedulerInv, SlotsInv
<1>11. WorkersUp'
  <2>1. {0, 1, 2} \subseteq Slots \ {i}
    BY <1>3 DEF Slots
  <2> QED
    BY <2>1, <1>1, <1>3, <1>5, <1>6 DEF WorkersUp, Queued
<1>12. BootInv'
  BY <1>1, <1>3, <1>11 DEF SchedulerInv, BootInv
<1>13. QuantumPositive'
  BY <1>1 DEF SchedulerInv, QuantumPositive
<1> QED
  BY <1>7, <1>8, <1>9, <1>10, <1>12, <1>13 DEF SchedulerInv

(***************************************************************************)
(* preempt_tick.                                                           *)
(***************************************************************************)
LEMMA PreemptTickPreserves ==
    ASSUME SchedulerInv, PreemptTick
    PROVE  SchedulerInv'
<1> USE SchedulerAssumption
<1>1. /\ state[cur] = "Running" /\ cur \in Slots
      /\ ticks_remaining \in [Slots -> 0 .. QUANTUM_TICKS]
      /\ ticks_remaining[cur] \in 1 .. QUANTUM_TICKS
      /\ mode \in [Slots -> Modes]
  BY DEF PreemptTick, InterruptsEnabled, SchedulerInv, OneRunning, OnCpu,
         QuantumPositive, TypeOK, cur
<1>2. TicksCounted = [ticks_remaining EXCEPT ![cur] = @ - 1]
  BY <1>1 DEF TicksCounted, IsRunnable
<1>3. TicksCounted \in [Slots -> 0 .. QUANTUM_TICKS]
  BY <1>1, <1>2
<1>4. CASE QuantumLeft
  <2>1. /\ ticks_remaining' = TicksCounted /\ cur' = cur
        /\ UNCHANGED <<nthreads, state, kind, pml4, user_rsp, fs_base,
                       queue, donate, boot, mode, tls, cpu>>
    BY <1>4 DEF PreemptTick, queue, cur
  <2>2. TypeOK'
    BY <2>1, <1>3 DEF SchedulerInv, TypeOK, queue
  <2>3. QuantumPositive'
    BY <2>1, <1>1, <1>3, <1>4 DEF QuantumLeft, QuantumPositive
  <2>4. ReadyQueueExact' /\ OneRunning' /\ SlotsInv'
    BY <2>1 DEF SchedulerInv, ReadyQueueExact, Queued, OneRunning, SlotsInv, queue
  <2>5. BootInv'
    BY <2>1 DEF SchedulerInv, BootInv, Registered, IdleSpawned, IdleTaken,
                WorkersUp, Queued, queue
  <2> QED
    BY <2>2, <2>3, <2>4, <2>5 DEF SchedulerInv
<1>5. CASE ~QuantumLeft
  <2>1. /\ Switch(PickFront(Requeued), Rest(Requeued), TicksCounted)
        /\ UNCHANGED <<donate, mode>>
    BY <1>5 DEF PreemptTick
  <2>2. /\ Requeued \in Seq(Slots) /\ Requeued # <<>> /\ IsInjective(Requeued)
    BY RequeuedFacts
  <2>3. PickFront(Requeued) = Head(Requeued) /\ Rest(Requeued) = Tail(Requeued)
    BY <2>2 DEF PickFront, Rest
  <2>4. /\ Head(Requeued) \in Range(Requeued) /\ Tail(Requeued) \in Seq(Slots)
        /\ Range(Tail(Requeued)) = Range(Requeued) \ {Head(Requeued)}
        /\ IsInjective(Tail(Requeued))
    BY <2>2, PopFront
  <2>5. mode' = [mode EXCEPT ![cur] = AfterYield(mode[cur])]
    BY <2>1, <1>1 DEF PreemptTick, InterruptsEnabled, AfterYield
  <2>6. donate' \in Owner /\ donate' # 1
    BY <2>1 DEF SchedulerInv, TypeOK, BootInv
  <2>7. InterruptsEnabled
    BY DEF PreemptTick
  <2> QED
    BY <2>1, <2>3, <2>4, <2>5, <2>6, <2>7, <1>3, SwitchPreserves
<1> QED
  BY <1>4, <1>5

(***************************************************************************)
(* yield_now, with or without a donation.                                  *)
(***************************************************************************)
LEMMA YieldNowPreserves ==
    ASSUME SchedulerInv, YieldNow
    PROVE  SchedulerInv'
<1> USE SchedulerAssumption
<1>1. /\ Requeued \in Seq(Slots) /\ Requeued # <<>> /\ IsInjective(Requeued)
      /\ Range(Requeued) = Range(ready_queue) \cup
                              (IF IsRunnable(state[cur]) THEN {cur} ELSE {})
      /\ \A t \in Slots : RequeuedState[t] =
                 IF t = cur /\ IsRunnable(state[cur]) THEN "Ready" ELSE state[t]
  BY RequeuedFacts
<1>2. /\ InKernel \/ mode[cur] \in {"parked", "dying"}
      /\ mode' = [mode EXCEPT ![cur] = AfterYield(mode[cur])]
      /\ donate' = Nobody
  BY DEF YieldNow, YieldTick
<1>3. ticks_remaining \in [Slots -> 0 .. QUANTUM_TICKS]
  BY DEF SchedulerInv, TypeOK
<1>4. donate' \in Owner /\ donate' # 1
  BY <1>2 DEF Nobody, Owner
<1>5. CASE DonationValid
  <2>1. Switch(donate, RemoveFirst(Requeued, donate), ticks_remaining)
    BY <1>5 DEF YieldNow, YieldTick
  <2>2. donate \in Slots /\ donate # 1 /\ RequeuedState[donate] = "Ready"
    BY <1>5 DEF DonationValid, SchedulerInv, TypeOK, BootInv, Owner, Nobody, Slots
  <2>3. donate \in Range(Requeued)
    <3>1. CASE donate = cur
      BY <3>1, <2>2, <1>1 DEF SchedulerInv, OneRunning, OnCpu, IsRunnable
    <3>2. CASE donate # cur
      <4>1. state[donate] = "Ready"
        BY <3>2, <2>2, <1>1
      <4>2. ~(donate = idle_thread_idx /\ mode[donate] = "idle")
        BY <2>2 DEF SchedulerInv, TypeOK, BootInv, Registered, IdleSpawned, IdleTaken, WorkersUp
      <4> QED
        BY <4>1, <4>2, <2>2, <1>1 DEF SchedulerInv, ReadyQueueExact, Queued
    <3> QED
      BY <3>1, <3>2
  <2>4. /\ RemoveFirst(Requeued, donate) \in Seq(Slots)
        /\ Range(RemoveFirst(Requeued, donate)) = Range(Requeued) \ {donate}
        /\ IsInjective(RemoveFirst(Requeued, donate))
    BY <2>3, <1>1, RemoveMiddle
  <2> QED
    BY <2>1, <2>3, <2>4, <1>2, <1>3, <1>4, SwitchPreserves
<1>6. CASE ~DonationValid
  <2>1. Switch(PickFront(Requeued), Rest(Requeued), ticks_remaining)
    BY <1>6 DEF YieldNow, YieldTick
  <2>2. PickFront(Requeued) = Head(Requeued) /\ Rest(Requeued) = Tail(Requeued)
    BY <1>1 DEF PickFront, Rest
  <2>3. /\ Head(Requeued) \in Range(Requeued) /\ Tail(Requeued) \in Seq(Slots)
        /\ Range(Tail(Requeued)) = Range(Requeued) \ {Head(Requeued)}
        /\ IsInjective(Tail(Requeued))
    BY <1>1, PopFront
  <2> QED
    BY <2>1, <2>2, <2>3, <1>2, <1>3, <1>4, SwitchPreserves
<1> QED
  BY <1>5, <1>6

(***************************************************************************)
(* The steps of thread 0 through init() and run_kernel.                    *)
(***************************************************************************)
LEMMA BootPreserves ==
    ASSUME SchedulerInv, BootSpawnIdle \/ BootTakeIdle \/ BootSpawnWorker
    PROVE  SchedulerInv'
<1> USE SchedulerAssumption
<1>1. Nobody \in Owner /\ cpu.cr3 \in Owner /\ {0, 1, 2} \subseteq Slots
  BY DEF SchedulerInv, TypeOK, Cpu, Owner, Nobody, Slots
<1>2. ASSUME BootSpawnIdle PROVE SchedulerInv'
  <2>1. Registered /\ boot' = "idle_spawned" /\ cur = 0 /\ SlotAvailable
    BY <1>2 DEF BootSpawnIdle, SchedulerInv, BootInv, BootThread
  <2> DEFINE t == AllocThreadSlot
  <2>2. Spawn(t, "Kernel", cpu.cr3, Nobody, Nobody)
    BY <1>2 DEF BootSpawnIdle, SpawnThread
  <2>3. t = 1
    <3>1. DeadSlots = {}
      BY <2>1 DEF Registered, DeadSlots, Slots
    <3> QED
      BY <3>1, <2>1 DEF AllocThreadSlot, Registered
  <2>4. mode' = [mode EXCEPT ![t] = "idle", ![cur] = "boot"]
    <3>1. mode' = [mode EXCEPT ![t] = "idle"] /\ mode[cur] = "boot"
      BY <1>2, <2>1 DEF BootSpawnIdle, Registered
    <3>2. mode \in [Slots -> Modes] /\ t # cur /\ cur \in Slots /\ t \in Slots
      BY <2>1, <2>3, <1>1 DEF SchedulerInv, TypeOK
    <3> HIDE DEF t
    <3> QED
      BY <3>1, <3>2
  <2>5. state[cur] = "Running" /\ mode[cur] = "boot"
    BY <2>1 DEF Registered
  <2>6. /\ TypeOK' /\ ReadyQueueExact' /\ OneRunning' /\ QuantumPositive'
        /\ SlotsInv' /\ mode'[t] = "idle" /\ mode'[cur] = "boot"
        /\ \A x \in Slots \ {t, cur} : mode'[x] = mode[x]
        /\ nthreads' = IF t < nthreads THEN nthreads ELSE nthreads + 1
    <3> HIDE DEF t
    <3> QED
      BY <2>1, <2>2, <2>4, <2>5, <1>1, SpawnPreserves DEF t
  <2>7. IdleSpawned'
    <3>1. ready_queue' = Append(<<>>, t) /\ cur' = cur /\ idle_thread_idx' = 0
      BY <2>1, <2>2 DEF Spawn, Registered, cur
    <3>2. ready_queue' = <<1>>
      BY <3>1, <2>3
    <3> QED
      BY <3>1, <3>2, <2>1, <2>3, <2>6 DEF IdleSpawned, Registered
  <2>8. BootInv'
    <3>1. donate' # 1
      BY <2>2 DEF Spawn, SchedulerInv, BootInv
    <3>2. \A x \in Slots : mode'[x] \in {"none", "boot", "idle"}
      <4>1. boot = "registered"
        BY <1>2 DEF BootSpawnIdle
      <4>2. \A x \in Slots : mode[x] \in {"none", "boot", "idle"}
        BY <4>1 DEF SchedulerInv, BootInv
      <4> HIDE DEF t
      <4> QED
        BY <4>2, <2>6
    <3> QED
      BY <3>1, <3>2, <2>1, <2>7 DEF BootInv
  <2> QED
    BY <2>6, <2>8 DEF SchedulerInv
<1>3. ASSUME BootTakeIdle PROVE SchedulerInv'
  <2>1. IdleSpawned /\ cur = 0 /\ ready_queue = <<1>>
    BY <1>3 DEF BootTakeIdle, SchedulerInv, BootInv, BootThread, IdleSpawned
  <2>2. Last(ready_queue) = 1 /\ Front(ready_queue) = <<>>
    BY <2>1 DEF Last, Front
  <2>3. state[1] = "Ready" /\ state \in [Slots -> States]
    BY <2>1, <1>1 DEF SchedulerInv, TypeOK, ReadyQueueExact, Queued, Range
  <2>4. /\ boot' = "idle_taken" /\ idle_thread_idx' = 1 /\ ready_queue' = <<>>
        /\ state' = state /\ cur' = cur
        /\ UNCHANGED <<nthreads, ticks_remaining, kind, pml4, user_rsp, fs_base,
                       current_idx, donate, mode, tls, cpu>>
    BY <1>3, <2>2, <2>3 DEF BootTakeIdle, cur
  <2>5. TypeOK'
    BY <2>4, <1>1 DEF SchedulerInv, TypeOK
  <2>6. ReadyQueueExact'
    <3>1. Range(<<>>) = {} /\ IsInjective(<<>>)
      BY DEF Range, IsInjective
    <3>2. Range(ready_queue) = {1}
      BY <2>1 DEF Range
    <3> QED
      BY <3>1, <3>2, <2>1, <2>4 DEF SchedulerInv, ReadyQueueExact, Queued, IdleSpawned
  <2>7. OneRunning' /\ QuantumPositive' /\ SlotsInv'
    BY <2>4 DEF SchedulerInv, OneRunning, QuantumPositive, SlotsInv
  <2>8. BootInv'
    BY <1>3, <2>1, <2>3, <2>4 DEF SchedulerInv, BootInv, IdleSpawned, IdleTaken, BootTakeIdle
  <2> QED
    BY <2>5, <2>6, <2>7, <2>8 DEF SchedulerInv
<1>4. ASSUME BootSpawnWorker PROVE SchedulerInv'
  <2>1. IdleTaken /\ boot' = "done" /\ cur = 0 /\ SlotAvailable
    BY <1>4 DEF BootSpawnWorker, SchedulerInv, BootInv, BootThread
  <2> DEFINE t == AllocThreadSlot
  <2>2. Spawn(t, "Kernel", cpu.cr3, Nobody, Nobody)
    BY <1>4 DEF BootSpawnWorker, SpawnThread
  <2>3. mode' = [mode EXCEPT ![t] = "kernel", ![cur] = "kernel"]
    BY <1>4 DEF BootSpawnWorker
  <2>4. state[cur] = "Running"
    BY <2>1 DEF IdleTaken, SchedulerInv, OneRunning, OnCpu
  <2>5. t = 2
    <3>1. DeadSlots = {}
      BY <2>1, <2>4 DEF IdleTaken, DeadSlots, Slots
    <3> QED
      BY <3>1, <2>1 DEF AllocThreadSlot, IdleTaken
  <2>6. /\ TypeOK' /\ ReadyQueueExact' /\ OneRunning' /\ QuantumPositive'
        /\ SlotsInv' /\ mode'[t] = "kernel" /\ mode'[cur] = "kernel"
        /\ \A x \in Slots \ {t, cur} : mode'[x] = mode[x]
        /\ \A x \in Slots : state'[x] = IF x = t THEN "Ready" ELSE state[x]
        /\ Range(ready_queue') = Range(ready_queue) \cup {t}
        /\ nthreads' = IF t < nthreads THEN nthreads ELSE nthreads + 1
    <3> HIDE DEF t
    <3> QED
      BY <2>1, <2>2, <2>3, <2>4, <1>1, SpawnPreserves DEF t
  <2>7. WorkersUp'
    <3>1. /\ cur' = cur /\ idle_thread_idx' = 1
          /\ Range(ready_queue) = {} /\ nthreads = 2 /\ state[1] = "Ready"
          /\ mode[1] = "idle"
      BY <2>1, <2>2 DEF Spawn, IdleTaken, Range, cur
    <3>2. 1 \in Slots \ {t, cur}
      BY <2>1, <2>5, <1>1
    <3> QED
      BY <3>1, <3>2, <2>1, <2>4, <2>5, <2>6, <1>1 DEF WorkersUp, Queued
  <2>8. BootInv'
    BY <2>1, <2>2, <2>7 DEF Spawn, SchedulerInv, BootInv
  <2> QED
    BY <2>6, <2>8 DEF SchedulerInv
<1> QED
  BY <1>2, <1>3, <1>4

(***************************************************************************)
(* The two ways a user thread comes to be.                                 *)
(***************************************************************************)
LEMMA SpawnUserPreserves ==
    ASSUME SchedulerInv, SpawnUserThread \/ SpawnCloneThread
    PROVE  SchedulerInv'
<1> USE SchedulerAssumption
<1> DEFINE t == AllocThreadSlot
<1>1. /\ SlotAvailable /\ boot' = boot
      /\ mode[cur] \in {"kernel", "syscall"}
      /\ mode' = [mode EXCEPT ![t] = "trampoline"]
  BY DEF SpawnUserThread, SpawnCloneThread
<1>2. cur \in Slots /\ mode \in [Slots -> Modes]
  BY DEF SchedulerInv, TypeOK, cur
<1>3. t \in Slots /\ state[t] \in {"Dead", "Unused"}
  BY <1>1, AllocFacts
<1>4. state[cur] = "Running"
  BY <1>1 DEF SchedulerInv, OneRunning, OnCpu
<1>5. mode' = [mode EXCEPT ![t] = "trampoline", ![cur] = mode[cur]]
  BY <1>1, <1>2, <1>3, <1>4
<1>6. \E space, rsp, fs \in Owner : Spawn(t, "User", space, rsp, fs)
  <2>1. t \in Owner /\ Nobody \in Owner /\ pml4[cur] \in Owner /\ cpu.fs \in Owner
    BY <1>2, <1>3 DEF Owner, SchedulerInv, TypeOK, Cpu
  <2>2. CASE SpawnUserThread
    BY <2>1, <2>2 DEF SpawnUserThread
  <2>3. CASE SpawnCloneThread
    BY <2>1, <2>3 DEF SpawnCloneThread
  <2> QED
    BY <2>2, <2>3
<1>7. PICK space \in Owner, rsp \in Owner, fs \in Owner :
            Spawn(t, "User", space, rsp, fs)
  BY <1>6
<1>8. boot' \in {"registered", "idle_spawned", "idle_taken", "done"}
  BY <1>1 DEF SchedulerInv, TypeOK
<1>9. /\ TypeOK' /\ ReadyQueueExact' /\ OneRunning' /\ QuantumPositive'
      /\ SlotsInv' /\ mode'[t] = "trampoline" /\ mode'[cur] = mode[cur]
      /\ \A x \in Slots \ {t, cur} : mode'[x] = mode[x]
      /\ \A x \in Slots : state'[x] = IF x = t THEN "Ready" ELSE state[x]
      /\ Range(ready_queue') = Range(ready_queue) \cup {t}
      /\ nthreads' = IF t < nthreads THEN nthreads ELSE nthreads + 1
  <2>1. t = AllocThreadSlot
    OBVIOUS
  <2>2. PICK c \in {"kernel", mode[cur]} : c = mode[cur]
    OBVIOUS
  <2>3. mode' = [mode EXCEPT ![t] = "trampoline", ![cur] = c] /\ SlotAvailable
    BY <2>2, <1>1, <1>5
  <2> HIDE DEF t
  <2>4. /\ TypeOK' /\ ReadyQueueExact' /\ OneRunning' /\ QuantumPositive'
        /\ SlotsInv' /\ mode'[t] = "trampoline" /\ mode'[cur] = c
        /\ \A x \in Slots \ {t, cur} : mode'[x] = mode[x]
        /\ \A x \in Slots : state'[x] = IF x = t THEN "Ready" ELSE state[x]
        /\ Range(ready_queue') = Range(ready_queue) \cup {t}
        /\ nthreads' = IF t < nthreads THEN nthreads ELSE nthreads + 1
    BY <2>1, <2>3, <1>4, <1>7, <1>8, SpawnPreserves,
       ZenonT(90)
  <2> QED
    BY <2>2, <2>4
<1>10. boot = "done" /\ WorkersUp
  BY <1>1, <1>2 DEF SchedulerInv, BootInv, TypeOK
<1>11. t \notin {0, 1, 2} /\ {0, 1, 2} \subseteq Slots
  BY <1>3, <1>10 DEF WorkersUp, Slots
<1>12. WorkersUp'
  <2>1. /\ cur' = cur /\ idle_thread_idx' = idle_thread_idx
    BY <1>7 DEF Spawn, cur
  <2>2. nthreads' >= 3
    BY <1>9, <1>10 DEF WorkersUp, SchedulerInv, TypeOK
  <2>3. mode'[0] = mode[0] /\ mode'[1] = mode[1] /\ mode'[2] = mode[2]
    BY <1>9, <1>11
  <2>4. state'[0] = state[0] /\ state'[1] = state[1] /\ state'[2] = state[2]
    BY <1>9, <1>11
  <2>5. ~Queued(1)'
    BY <1>9, <1>10, <1>11 DEF WorkersUp, Queued
  <2> QED
    BY <2>1, <2>2, <2>3, <2>4, <2>5, <1>10 DEF WorkersUp
<1>13. BootInv'
  BY <1>1, <1>7, <1>10, <1>12 DEF Spawn, SchedulerInv, BootInv
<1> QED
  BY <1>9, <1>13 DEF SchedulerInv

(***************************************************************************)
(* Steps of the current thread in ring 3 and in system calls that touch    *)
(* neither the queue nor any thread's state.                               *)
(***************************************************************************)
LEMMA UserStepsPreserve ==
    ASSUME SchedulerInv,
           \/ EnterUser \/ SyscallEntry \/ SyscallReturn \/ SetFsBase \/ Execve
           \/ TerminateProcess \/ UserFault \/ FaultDeliverSignal
           \/ \E i \in Slots : SetDonateTarget(i)
    PROVE  SchedulerInv'
<1> USE SchedulerAssumption
<1>1. /\ cur \in Slots /\ mode \in [Slots -> Modes] /\ Slots \subseteq Owner
      /\ Nobody \in Owner /\ donate # 1 /\ cpu \in Cpu
      /\ pml4 \in [Slots -> Owner]
  BY DEF SchedulerInv, TypeOK, BootInv, cur, Owner
<1> USE DEF table
<1>2. CASE EnterUser
  <2>1. mode' = [mode EXCEPT ![cur] = "user"] /\ TypeOK'
    BY <1>1, <1>2 DEF EnterUser, SchedulerInv, TypeOK, Modes, queue, Cpu
  <2> QED
    BY <2>1, <1>1, <1>2, ModePreserves DEF EnterUser, Modes
<1>3. CASE SyscallEntry
  <2>1. mode' = [mode EXCEPT ![cur] = "syscall"] /\ TypeOK'
    BY <1>1, <1>3 DEF SyscallEntry, SchedulerInv, TypeOK, Modes, queue, Cpu, Other
  <2> QED
    BY <2>1, <1>1, <1>3, ModePreserves DEF SyscallEntry, Modes
<1>4. CASE SyscallReturn
  <2>1. mode' = [mode EXCEPT ![cur] = "user"] /\ TypeOK'
    BY <1>1, <1>4 DEF SyscallReturn, SchedulerInv, TypeOK, Modes, queue, Cpu, Other
  <2> QED
    BY <2>1, <1>1, <1>4, ModePreserves DEF SyscallReturn, InSyscall, Modes
<1>5. CASE SetFsBase
  <2>1. mode' = [mode EXCEPT ![cur] = mode[cur]] /\ TypeOK'
    BY <1>1, <1>5 DEF SetFsBase, SchedulerInv, TypeOK, Modes, queue, Cpu
  <2> QED
    BY <2>1, <1>1, <1>5, ModePreserves DEF SetFsBase, Modes
<1>6. CASE Execve
  <2>1. mode' = [mode EXCEPT ![cur] = "user"] /\ TypeOK'
    BY <1>1, <1>6 DEF Execve, SchedulerInv, TypeOK, Modes, queue, Cpu
  <2> QED
    BY <2>1, <1>1, <1>6, ModePreserves DEF Execve, InSyscall, Modes
<1>7. CASE TerminateProcess
  <2>1. mode' = [mode EXCEPT ![cur] = "exiting"] /\ TypeOK'
    <3>1. PICK space \in {pml4[cur], Nobody} :
                /\ pml4' = [pml4 EXCEPT ![cur] = space]
                /\ cpu' = [cpu EXCEPT !.cr3 = space]
      BY <1>7 DEF TerminateProcess
    <3>2. space \in Owner
      BY <1>1
    <3>3. pml4' \in [Slots -> Owner] /\ cpu' \in Cpu
      BY <3>1, <3>2, <1>1 DEF Cpu
    <3> QED
      BY <3>3, <1>1, <1>7 DEF TerminateProcess, SchedulerInv, TypeOK, Modes, queue
  <2> QED
    BY <2>1, <1>1, <1>7, ModePreserves DEF TerminateProcess, InSyscall, Modes
<1>8. CASE UserFault
  <2>1. mode' = [mode EXCEPT ![cur] = "fault"] /\ TypeOK'
    BY <1>1, <1>8 DEF UserFault, SchedulerInv, TypeOK, Modes, queue
  <2> QED
    BY <2>1, <1>1, <1>8, ModePreserves DEF UserFault, Modes
<1>9. CASE FaultDeliverSignal
  <2>1. mode' = [mode EXCEPT ![cur] = "user"] /\ TypeOK'
    BY <1>1, <1>9 DEF FaultDeliverSignal, SchedulerInv, TypeOK, Modes, queue
  <2> QED
    BY <2>1, <1>1, <1>9, ModePreserves DEF FaultDeliverSignal, Modes
<1>10. ASSUME NEW i \in Slots, SetDonateTarget(i) PROVE SchedulerInv'
  <2>1. i # 1
    <3>1. <<cur, i>> \in Donations
      BY <1>10 DEF SetDonateTarget
    <3> QED
      BY <3>1
  <2> DEFINE m == IF InSyscall THEN "donating" ELSE mode[cur]
  <2>2. m \in Modes
    BY <1>1 DEF Modes
  <2>3. mode' = [mode EXCEPT ![cur] = m]
    BY <1>10 DEF SetDonateTarget
  <2>4. TypeOK'
    BY <2>2, <2>3, <1>1, <1>10 DEF SetDonateTarget, SchedulerInv, TypeOK, queue
  <2>5. \/ m = mode[cur]
        \/ /\ mode[cur] \notin {"none", "boot", "idle", "kernel", "parked", "dying"}
           /\ m \notin {"none", "idle", "gone", "parked", "dying"}
    BY DEF InSyscall
  <2>6. UNCHANGED <<nthreads, state, ticks_remaining, queue, boot>> /\ donate' # 1
    BY <2>1, <1>10 DEF SetDonateTarget
  <2> HIDE DEF m
  <2> QED
    BY <2>2, <2>3, <2>4, <2>5, <2>6, ModePreserves
<1> QED
  BY <1>2, <1>3, <1>4, <1>5, <1>6, <1>7, <1>8, <1>9, <1>10

(***************************************************************************)
(* Steps in which the current thread gives itself up.                      *)
(***************************************************************************)
LEMMA LeaveStepsPreserve ==
    ASSUME SchedulerInv, MarkBlocked \/ KillCurrentThread \/ FaultKill
    PROVE  SchedulerInv'
<1> USE SchedulerAssumption
<1>1. /\ cur \in Slots /\ mode \in [Slots -> Modes] /\ state \in [Slots -> States]
      /\ cpu \in Cpu
  BY DEF SchedulerInv, TypeOK, cur
<1>2. CASE MarkBlocked
  <2>1. /\ mode' = [mode EXCEPT ![cur] = "parked"]
        /\ state' = [state EXCEPT ![cur] = OnCpu("parked")]
    BY <1>2 DEF MarkBlocked, OnCpu
  <2>2. TypeOK'
    BY <1>1, <1>2 DEF MarkBlocked, SchedulerInv, TypeOK, Modes, States, queue
  <2>3. mode[cur] \in {"syscall", "resumed", "donating"}
    BY <1>2 DEF MarkBlocked, InSyscall
  <2> QED
    BY <2>1, <2>2, <2>3, <1>2, LeavePreserves DEF MarkBlocked
<1>3. CASE KillCurrentThread
  <2>1. /\ mode' = [mode EXCEPT ![cur] = "dying"]
        /\ state' = [state EXCEPT ![cur] = OnCpu("dying")]
    BY <1>3 DEF KillCurrentThread, MarkDead, OnCpu
  <2>2. TypeOK'
    BY <1>1, <1>3 DEF KillCurrentThread, MarkDead, SchedulerInv, TypeOK, Modes, States, queue
  <2> QED
    BY <2>1, <2>2, <1>3, LeavePreserves DEF KillCurrentThread
<1>4. CASE FaultKill
  <2>1. /\ mode' = [mode EXCEPT ![cur] = "dying"]
        /\ state' = [state EXCEPT ![cur] = OnCpu("dying")]
    BY <1>4 DEF FaultKill, MarkDead, OnCpu
  <2>2. TypeOK'
    BY <1>1, <1>4 DEF FaultKill, MarkDead, SchedulerInv, TypeOK, Modes, States, queue,
                      Cpu, Other
  <2> QED
    BY <2>1, <2>2, <1>4, LeavePreserves DEF FaultKill
<1> QED
  BY <1>2, <1>3, <1>4

(***************************************************************************)
(* The initial states satisfy the invariant.                               *)
(***************************************************************************)
LEMMA InitEstablishes == Init => SchedulerInv
<1> USE SchedulerAssumption
<1> SUFFICES ASSUME Init PROVE SchedulerInv
  OBVIOUS
<1>1. 0 \in Slots /\ Nobody \in Owner /\ 1 # Nobody /\ cur = 0
  BY DEF Init, Slots, Nobody, Owner, cur, BootThread
<1>2. TypeOK
  BY <1>1 DEF Init, TypeOK, States, Modes, Cpu, BootThread
<1>3. Range(ready_queue) = {} /\ IsInjective(ready_queue)
  BY DEF Init, Range, IsInjective
<1>4. ReadyQueueExact
  BY <1>3 DEF Init, ReadyQueueExact, Queued
<1>5. OneRunning /\ QuantumPositive
  BY <1>1 DEF Init, OneRunning, OnCpu, QuantumPositive, BootThread
<1>6. SlotsInv
  BY <1>1 DEF Init, SlotsInv, Slots, BootThread
<1>7. BootInv
  BY <1>1 DEF Init, BootInv, Registered, BootThread
<1> QED
  BY <1>2, <1>4, <1>5, <1>6, <1>7 DEF SchedulerInv

(***************************************************************************)
(* Every step preserves the invariant.                                     *)
(***************************************************************************)
LEMMA NextPreserves == SchedulerInv /\ [Next]_vars => SchedulerInv'
<1> SUFFICES ASSUME SchedulerInv, [Next]_vars PROVE SchedulerInv'
  OBVIOUS
<1>1. CASE BootSpawnIdle \/ BootTakeIdle \/ BootSpawnWorker
  BY <1>1, BootPreserves
<1>2. CASE SpawnUserThread \/ SpawnCloneThread
  BY <1>2, SpawnUserPreserves
<1>3. CASE \/ EnterUser \/ SyscallEntry \/ SyscallReturn \/ SetFsBase \/ Execve
           \/ TerminateProcess \/ UserFault \/ FaultDeliverSignal
           \/ \E i \in Slots : SetDonateTarget(i)
  BY <1>3, UserStepsPreserve
<1>4. CASE MarkBlocked \/ KillCurrentThread \/ FaultKill
  BY <1>4, LeaveStepsPreserve
<1>5. CASE \E i \in Slots : Unblock(i)
  BY <1>5, UnblockPreserves
<1>6. CASE PreemptTick
  BY <1>6, PreemptTickPreserves
<1>7. CASE YieldNow
  BY <1>7, YieldNowPreserves
<1>8. CASE UNCHANGED vars
  <2>1. /\ UNCHANGED <<nthreads, state, ticks_remaining, kind, pml4, user_rsp, fs_base>>
        /\ UNCHANGED <<ready_queue, current_idx, idle_thread_idx>>
        /\ UNCHANGED <<donate, boot, mode, tls, cpu>> /\ cur' = cur
    BY <1>8 DEF vars, table, queue, cur
  <2>2. TypeOK' /\ ReadyQueueExact' /\ OneRunning' /\ QuantumPositive' /\ SlotsInv'
    BY <2>1 DEF SchedulerInv, TypeOK, ReadyQueueExact, Queued, OneRunning,
                QuantumPositive, SlotsInv
  <2>3. BootInv'
    BY <2>1 DEF SchedulerInv, BootInv, Registered, IdleSpawned, IdleTaken,
                WorkersUp, Queued
  <2> QED
    BY <2>2, <2>3 DEF SchedulerInv
<1> QED
  BY <1>1, <1>2, <1>3, <1>4, <1>5, <1>6, <1>7, <1>8 DEF Next

-----------------------------------------------------------------------------
(***************************************************************************)
(* The state of the scheduler keeps its types.                             *)
(***************************************************************************)
THEOREM SchedulerTypes == Spec => []TypeOK
<1>1. SchedulerInv => TypeOK
  BY DEF SchedulerInv
<1> QED
  BY <1>1, InitEstablishes, NextPreserves, PTL DEF Spec

(***************************************************************************)
(* Whatever threads spawn, block, wake, donate, fault and exit, the ready  *)
(* queue holds every Ready thread once and no other thread: pop_front      *)
(* never resumes a Blocked or Dead thread and no woken thread is lost.     *)
(***************************************************************************)
THEOREM ReadyQueueIsExact == Spec => []ReadyQueueExact
<1>1. SchedulerInv => ReadyQueueExact
  BY DEF SchedulerInv
<1> QED
  BY <1>1, InitEstablishes, NextPreserves, PTL DEF Spec

(***************************************************************************)
(* Only the thread on the CPU is Running, and a Dead thread never comes    *)
(* back (the unreachable! at the end of kill_current_thread).              *)
(***************************************************************************)
THEOREM OneThreadRuns == Spec => []OneRunning
<1>1. SchedulerInv => OneRunning
  BY DEF SchedulerInv
<1> QED
  BY <1>1, InitEstablishes, NextPreserves, PTL DEF Spec

(***************************************************************************)
(* preempt_tick never decrements a quantum of zero.                        *)
(***************************************************************************)
THEOREM QuantumStaysPositive == Spec => []QuantumPositive
<1>1. SchedulerInv => QuantumPositive
  BY DEF SchedulerInv
<1> QED
  BY <1>1, InitEstablishes, NextPreserves, PTL DEF Spec

(***************************************************************************)
(* After init the idle thread is never queued: the workers, which never    *)
(* block, keep it off the CPU.                                             *)
(***************************************************************************)
THEOREM IdleStaysOffQueue == Spec => []IdleNeverQueued
<1>1. SchedulerInv => IdleNeverQueued
  BY DEF SchedulerInv, BootInv, IdleTaken, WorkersUp, IdleNeverQueued, Queued, Range
<1> QED
  BY <1>1, InitEstablishes, NextPreserves, PTL DEF Spec

-----------------------------------------------------------------------------
(***************************************************************************)
(* The contexts.  Where a thread executes tells its kind, and of a thread  *)
(* that is off the CPU the Thread record holds what the processor does     *)
(* not: its FS base and, if it is inside a system call, its user stack.    *)
(* It has not stopped where a value that is saved nowhere is still needed. *)
(***************************************************************************)
KernelModes == {"boot", "kernel", "idle"}
UserModes == {"trampoline", "user", "syscall", "resumed", "donating", "parked", "exiting",
              "exited", "fault", "dying"}

ContextInv ==
    /\ ContextOwned
    /\ \A t \in Slots : /\ mode[t] \in KernelModes => kind[t] = "Kernel"
                        /\ mode[t] \in UserModes => kind[t] = "User"
    /\ \A t \in Slots \ {cur} :
          /\ mode[t] \notin {"syscall", "exiting"}
          /\ kind[t] = "User" => fs_base[t] = tls[t]
          /\ mode[t] = "resumed" => user_rsp[t] = t

(***************************************************************************)
(* save_current_context and restore_thread_state: the thread switched to   *)
(* finds its own context, and the one switched from leaves its own behind. *)
(***************************************************************************)
LEMMA SwitchKeepsContext ==
    ASSUME SchedulerInv, ContextInv, NEW next \in Slots, NEW q, NEW ticks,
           Switch(next, q, ticks), mode[cur] \notin {"fault", "exited"},
           mode' = [mode EXCEPT ![cur] = AfterYield(mode[cur])]
    PROVE  ContextInv'
<1>1. /\ cur \in Slots /\ mode \in [Slots -> Modes] /\ cpu \in Cpu
      /\ kind \in [Slots -> {"Kernel", "User"}] /\ pml4 \in [Slots -> Owner]
      /\ user_rsp \in [Slots -> Owner] /\ fs_base \in [Slots -> Owner]
  BY DEF SchedulerInv, TypeOK, cur
<1>2. /\ user_rsp' = [user_rsp EXCEPT ![cur] = cpu.user_rsp]
      /\ fs_base' = [fs_base EXCEPT ![cur] = cpu.fs]
      /\ cur' = next /\ UNCHANGED <<kind, pml4, tls>>
  BY DEF Switch, SaveCurrentContext, cur
<1>3. /\ mode'[cur] = AfterYield(mode[cur])
      /\ \A t \in Slots \ {cur} : mode'[t] = mode[t]
  BY <1>1
<1>4. /\ mode[cur] \in {"syscall", "donating", "parked"} => mode'[cur] = "resumed"
      /\ mode[cur] = "exiting" => mode'[cur] = "exited"
      /\ mode[cur] = "dying" => mode'[cur] = "gone"
      /\ mode[cur] \notin {"syscall", "donating", "parked", "exiting", "dying"} =>
            mode'[cur] = mode[cur]
  BY <1>3 DEF AfterYield
<1>5. \A t \in Slots : /\ mode'[t] \in KernelModes => kind'[t] = "Kernel"
                       /\ mode'[t] \in UserModes => kind'[t] = "User"
  BY <1>2, <1>3, <1>4 DEF ContextInv, KernelModes, UserModes
<1>6. /\ mode'[cur] \notin {"syscall", "exiting"}
      /\ kind[cur] = "User" => fs_base'[cur] = tls[cur]
      /\ mode'[cur] = "resumed" => user_rsp'[cur] = cur
  <2>1. mode'[cur] = "resumed" => mode[cur] \in {"syscall", "resumed", "donating", "parked"}
    BY <1>4
  <2> QED
    BY <1>1, <1>2, <1>4, <2>1 DEF ContextInv, ContextOwned
<1>7. \A t \in Slots : /\ mode'[t] \notin {"syscall", "exiting"}
                       /\ kind'[t] = "User" => fs_base'[t] = tls'[t]
                       /\ mode'[t] = "resumed" => user_rsp'[t] = t
  BY <1>1, <1>2, <1>3, <1>6 DEF ContextInv
<1>8. CASE next = cur
  <2>1. cpu' = cpu
    BY <1>8 DEF Switch
  <2>2. mode'[cur] = "resumed" => mode[cur] \in {"syscall", "resumed", "donating", "parked"}
    BY <1>4
  <2>3. mode'[cur] \in {"user", "fault"} <=> mode[cur] \in {"user", "fault"}
    BY <1>4
  <2>4. mode'[cur] \in {"syscall", "donating", "parked"} => FALSE
    BY <1>4
  <2>5. ContextOwned'
    BY <1>2, <1>8, <2>1, <2>2, <2>3, <2>4 DEF ContextInv, ContextOwned
  <2> QED
    BY <1>2, <1>5, <1>7, <2>5 DEF ContextInv
<1>9. CASE next # cur
  <2>1. RestoreThreadState(next)
    BY <1>9 DEF Switch
  <2>2. /\ cpu'.idx = next /\ cpu'.user_rsp = user_rsp[next] /\ cpu'.fs = fs_base[next]
        /\ cpu'.kstack = IF kind[next] = "User" THEN next ELSE cpu.kstack
        /\ cpu'.pid = IF kind[next] = "User" THEN next ELSE Nobody
        /\ cpu'.cr3 = IF pml4[next] # pml4[cur] THEN pml4[next] ELSE cpu.cr3
        /\ cpu'.gs = GsAfterSwitch(next)
    BY <2>1 DEF RestoreThreadState
  <2>3. mode[next] \notin {"syscall", "donating", "parked", "fault"} /\ mode'[next] = mode[next]
    BY <1>3, <1>9 DEF ContextInv, SchedulerInv, OneRunning
  <2>4. cpu'.gs = IF mode'[next] = "user" THEN "user" ELSE "kernel"
    BY <2>2, <2>3 DEF GsAfterSwitch, Other, ContextInv, ContextOwned
  <2>5. cpu'.cr3 = pml4[next]
    BY <2>2 DEF ContextInv, ContextOwned
  <2>6. kind[next] = "User" => fs_base[next] = tls[next]
    BY <1>9 DEF ContextInv
  <2>7. mode[next] = "resumed" => user_rsp[next] = next
    BY <1>9 DEF ContextInv
  <2>8. ContextOwned'
    BY <1>2, <2>2, <2>3, <2>4, <2>5, <2>6, <2>7 DEF ContextOwned
  <2> QED
    BY <1>2, <1>5, <1>7, <2>8 DEF ContextInv
<1> QED
  BY <1>8, <1>9

(***************************************************************************)
(* A new thread begins with the context its record was filled with.        *)
(***************************************************************************)
LEMMA SpawnKeepsContext ==
    ASSUME SchedulerInv, ContextInv, NEW t \in Slots, t # cur,
           NEW k \in {"Kernel", "User"}, NEW space, NEW rsp, NEW fs,
           Spawn(t, k, space, rsp, fs),
           NEW m, NEW c, mode' = [mode EXCEPT ![t] = m, ![cur] = c],
           \/ k = "Kernel" /\ m \in {"idle", "kernel"}
           \/ k = "User" /\ m = "trampoline",
           c = mode[cur] \/ (mode[cur] = "boot" /\ c = "kernel")
    PROVE  ContextInv'
<1>1. /\ cur \in Slots /\ mode \in [Slots -> Modes]
      /\ kind \in [Slots -> {"Kernel", "User"}] /\ pml4 \in [Slots -> Owner]
      /\ user_rsp \in [Slots -> Owner] /\ fs_base \in [Slots -> Owner]
      /\ tls \in [Slots -> Owner]
  BY DEF SchedulerInv, TypeOK, cur
<1>2. /\ mode'[t] = m /\ mode'[cur] = c /\ \A x \in Slots \ {t, cur} : mode'[x] = mode[x]
      /\ kind'[t] = k /\ fs_base'[t] = fs /\ tls'[t] = fs
      /\ \A x \in Slots \ {t} : /\ kind'[x] = kind[x] /\ pml4'[x] = pml4[x] /\ tls'[x] = tls[x]
                                /\ user_rsp'[x] = user_rsp[x] /\ fs_base'[x] = fs_base[x]
      /\ cpu' = cpu /\ cur' = cur
  BY <1>1 DEF Spawn, cur
<1>3. ContextOwned'
  BY <1>1, <1>2 DEF ContextInv, ContextOwned
<1>4. \A x \in Slots : /\ mode'[x] \in KernelModes => kind'[x] = "Kernel"
                       /\ mode'[x] \in UserModes => kind'[x] = "User"
  BY <1>1, <1>2 DEF ContextInv, KernelModes, UserModes
<1>5. \A x \in Slots \ {cur} : /\ mode'[x] \notin {"syscall", "exiting"}
                               /\ kind'[x] = "User" => fs_base'[x] = tls'[x]
                               /\ mode'[x] = "resumed" => user_rsp'[x] = x
  BY <1>1, <1>2 DEF ContextInv
<1> QED
  BY <1>2, <1>3, <1>4, <1>5 DEF ContextInv

(***************************************************************************)
(* Steps of the current thread itself, which leave the saved contexts of   *)
(* the others alone.                                                       *)
(***************************************************************************)
LEMMA OwnStepKeepsContext ==
    ASSUME SchedulerInv, ContextInv, NEW m,
           mode' = [mode EXCEPT ![cur] = m],
           m \in KernelModes => mode[cur] \in KernelModes,
           m \in UserModes => mode[cur] \in UserModes,
           UNCHANGED <<kind, user_rsp, fs_base, current_idx>>,
           \A t \in Slots \ {cur} : tls'[t] = tls[t],
           ContextOwned'
    PROVE  ContextInv'
<1>1. /\ cur \in Slots /\ mode \in [Slots -> Modes] /\ cur' = cur
      /\ mode'[cur] = m /\ \A x \in Slots \ {cur} : mode'[x] = mode[x]
  BY DEF SchedulerInv, TypeOK, cur
<1>2. \A x \in Slots : /\ mode'[x] \in KernelModes => kind'[x] = "Kernel"
                       /\ mode'[x] \in UserModes => kind'[x] = "User"
  BY <1>1 DEF ContextInv
<1>3. \A x \in Slots \ {cur} : /\ mode'[x] \notin {"syscall", "exiting"}
                               /\ kind'[x] = "User" => fs_base'[x] = tls'[x]
                               /\ mode'[x] = "resumed" => user_rsp'[x] = x
  BY <1>1 DEF ContextInv
<1> QED
  BY <1>1, <1>2, <1>3 DEF ContextInv

(***************************************************************************)
(* The steps of user programs and of their system calls.                   *)
(***************************************************************************)
LEMMA UserStepsKeepContext ==
    ASSUME SchedulerInv, ContextInv,
           \/ EnterUser \/ SyscallEntry \/ SyscallReturn \/ SetFsBase \/ Execve
           \/ TerminateProcess \/ UserFault \/ FaultDeliverSignal
           \/ MarkBlocked \/ KillCurrentThread \/ FaultKill
           \/ \E i \in Slots : SetDonateTarget(i)
    PROVE  ContextInv'
<1>1. /\ cur \in Slots /\ mode \in [Slots -> Modes] /\ cpu \in Cpu
      /\ pml4 \in [Slots -> Owner] /\ tls \in [Slots -> Owner]
      /\ kind \in [Slots -> {"Kernel", "User"}]
  BY DEF SchedulerInv, TypeOK, cur
<1>2. kind[cur] = "User" <=> mode[cur] \in UserModes
  BY <1>1 DEF ContextInv, SchedulerInv, OneRunning, Modes, UserModes, KernelModes
<1> USE DEF table, queue, cur, ContextOwned
<1>3. CASE EnterUser
  <2>1. ContextOwned'
    BY <1>1, <1>2, <1>3 DEF EnterUser, ContextInv, UserModes, Cpu
  <2> QED
    BY <1>3, <2>1, OwnStepKeepsContext DEF EnterUser, KernelModes, UserModes
<1>4. CASE SyscallEntry
  <2>1. ContextOwned'
    BY <1>1, <1>2, <1>4 DEF SyscallEntry, ContextInv, Cpu, Other
  <2> QED
    BY <1>4, <2>1, OwnStepKeepsContext DEF SyscallEntry, KernelModes, UserModes
<1>5. CASE SyscallReturn
  <2>1. ContextOwned'
    BY <1>1, <1>2, <1>5 DEF SyscallReturn, InSyscall, ContextInv, Cpu, Other
  <2> QED
    BY <1>5, <2>1, OwnStepKeepsContext DEF SyscallReturn, InSyscall, KernelModes, UserModes
<1>6. CASE SetFsBase
  <2>1. ContextOwned' /\ mode' = [mode EXCEPT ![cur] = mode[cur]]
    BY <1>1, <1>2, <1>6 DEF SetFsBase, InSyscall, ContextInv, Cpu
  <2> QED
    BY <1>1, <1>6, <2>1, OwnStepKeepsContext DEF SetFsBase
<1>7. CASE Execve
  <2>1. ContextOwned'
    BY <1>1, <1>2, <1>7 DEF Execve, InSyscall, ContextInv, Cpu
  <2> QED
    BY <1>1, <1>7, <2>1, OwnStepKeepsContext DEF Execve, InSyscall, KernelModes, UserModes
<1>8. CASE TerminateProcess
  <2>1. ContextOwned'
    BY <1>1, <1>2, <1>8 DEF TerminateProcess, InSyscall, ContextInv, Cpu
  <2> QED
    BY <1>8, <2>1, OwnStepKeepsContext DEF TerminateProcess, InSyscall, KernelModes, UserModes
<1>9. CASE UserFault \/ FaultDeliverSignal
  <2>1. ContextOwned'
    BY <1>1, <1>9 DEF UserFault, FaultDeliverSignal, ContextInv
  <2> QED
    BY <1>9, <2>1, OwnStepKeepsContext DEF UserFault, FaultDeliverSignal, KernelModes, UserModes
<1>10. CASE MarkBlocked
  <2>1. ContextOwned'
    BY <1>1, <1>10 DEF MarkBlocked, InSyscall, ContextInv
  <2> QED
    BY <1>10, <2>1, OwnStepKeepsContext DEF MarkBlocked, InSyscall, KernelModes, UserModes
<1>11. CASE KillCurrentThread \/ FaultKill
  <2>1. ContextOwned'
    BY <1>1, <1>11 DEF KillCurrentThread, FaultKill, MarkDead, ContextInv, Cpu, Other
  <2> QED
    BY <1>11, <2>1, OwnStepKeepsContext DEF KillCurrentThread, FaultKill, MarkDead, KernelModes,
       UserModes
<1>12. ASSUME NEW i \in Slots, SetDonateTarget(i) PROVE ContextInv'
  <2>1. mode' = [mode EXCEPT ![cur] = IF InSyscall THEN "donating" ELSE mode[cur]]
    BY <1>1, <1>12 DEF SetDonateTarget
  <2>2. ContextOwned'
    BY <1>1, <1>12, <2>1 DEF SetDonateTarget, InSyscall, ContextInv
  <2> QED
    BY <1>12, <2>1, <2>2, OwnStepKeepsContext DEF SetDonateTarget, InSyscall, KernelModes,
       UserModes
<1> QED
  BY <1>3, <1>4, <1>5, <1>6, <1>7, <1>8, <1>9, <1>10, <1>11, <1>12

(***************************************************************************)
(* Every step keeps the contexts.                                          *)
(***************************************************************************)
LEMMA NextKeepsContext == SchedulerInv /\ ContextInv /\ [Next]_vars => ContextInv'
<1> SUFFICES ASSUME SchedulerInv, ContextInv, [Next]_vars PROVE ContextInv'
  OBVIOUS
<1>1. SchedulerInv'
  BY NextPreserves
<1>2. /\ cur \in Slots /\ mode \in [Slots -> Modes] /\ current_idx' \in Slots
      /\ kind \in [Slots -> {"Kernel", "User"}]
  BY <1>1 DEF SchedulerInv, TypeOK, cur
<1>3. ASSUME SlotAvailable, state[cur] = "Running"
      PROVE  AllocThreadSlot \in Slots /\ AllocThreadSlot # cur
  <2>1. nthreads \in 1 .. MaxThreads /\ state \in [Slots -> States]
    BY DEF SchedulerInv, TypeOK
  <2> QED
    BY <1>3, <2>1, AllocFacts
<1>4. mode[cur] \in {"boot", "kernel", "syscall"} => state[cur] = "Running"
  BY DEF SchedulerInv, OneRunning, OnCpu
<1>5. boot # "done" => mode[0] = "boot"
  BY DEF SchedulerInv, TypeOK, BootInv, Registered, IdleSpawned, IdleTaken
<1>6. CASE BootSpawnIdle
  <2>1. mode[cur] = "boot" /\ SlotAvailable
    BY <1>5, <1>6 DEF BootSpawnIdle, BootThread
  <2>2. AllocThreadSlot \in Slots /\ AllocThreadSlot # cur
    BY <1>3, <1>4, <2>1
  <2>3. mode' = [mode EXCEPT ![AllocThreadSlot] = "idle", ![cur] = mode[cur]]
    BY <1>2, <1>6, <2>2 DEF BootSpawnIdle
  <2>4. \E space, rsp, fs : Spawn(AllocThreadSlot, "Kernel", space, rsp, fs)
    BY <1>6 DEF BootSpawnIdle, SpawnThread
  <2> QED
    BY <2>2, <2>3, <2>4, SpawnKeepsContext
<1>7. CASE BootSpawnWorker
  <2>1. mode[cur] = "boot" /\ SlotAvailable
    BY <1>5, <1>7 DEF BootSpawnWorker, BootThread
  <2>2. AllocThreadSlot \in Slots /\ AllocThreadSlot # cur
    BY <1>3, <1>4, <2>1
  <2> QED
    BY <1>7, <2>1, <2>2, SpawnKeepsContext DEF BootSpawnWorker, SpawnThread
<1>8. CASE SpawnUserThread \/ SpawnCloneThread
  <2>1. mode[cur] \in {"kernel", "syscall"} /\ SlotAvailable
    BY <1>8 DEF SpawnUserThread, SpawnCloneThread
  <2>2. AllocThreadSlot \in Slots /\ AllocThreadSlot # cur
    BY <1>3, <1>4, <2>1
  <2>3. mode' = [mode EXCEPT ![AllocThreadSlot] = "trampoline", ![cur] = mode[cur]]
    BY <1>2, <1>8, <2>2 DEF SpawnUserThread, SpawnCloneThread
  <2>4. \E space, rsp, fs : Spawn(AllocThreadSlot, "User", space, rsp, fs)
    BY <1>8 DEF SpawnUserThread, SpawnCloneThread
  <2> QED
    BY <2>2, <2>3, <2>4, SpawnKeepsContext
<1>9. CASE \/ BootTakeIdle \/ (\E i \in Slots : Unblock(i)) \/ UNCHANGED vars
           \/ (PreemptTick /\ QuantumLeft)
  <2>1. /\ UNCHANGED <<kind, pml4, user_rsp, fs_base, mode, tls, cpu>>
        /\ cur' = cur
    BY <1>9 DEF BootTakeIdle, Unblock, PreemptTick, vars, table, queue, cur
  <2> QED
    BY <2>1 DEF ContextInv, ContextOwned
<1>10. CASE PreemptTick /\ ~QuantumLeft
  <2>1. Switch(PickFront(Requeued), Rest(Requeued), TicksCounted) /\ mode' = mode
    BY <1>10 DEF PreemptTick
  <2>2. mode[cur] \in {"boot", "kernel", "idle", "trampoline", "user"}
    BY <1>10 DEF PreemptTick, InterruptsEnabled
  <2>3. mode' = [mode EXCEPT ![cur] = AfterYield(mode[cur])]
    BY <1>2, <2>1, <2>2 DEF AfterYield
  <2>4. PickFront(Requeued) \in Slots
    BY <1>2, <2>1 DEF Switch
  <2> QED
    BY <2>1, <2>2, <2>3, <2>4, SwitchKeepsContext
<1>11. CASE YieldNow
  <2>1. /\ mode[cur] \in {"kernel", "syscall", "resumed", "donating", "exiting", "parked", "dying"}
        /\ mode' = [mode EXCEPT ![cur] = AfterYield(mode[cur])]
    BY <1>11 DEF YieldNow, InKernel
  <2>2. PICK next, q : Switch(next, q, ticks_remaining)
    BY <1>11 DEF YieldNow, YieldTick
  <2>3. next \in Slots
    BY <1>2, <2>2 DEF Switch
  <2> QED
    BY <2>1, <2>2, <2>3, SwitchKeepsContext
<1>12. CASE \/ EnterUser \/ SyscallEntry \/ SyscallReturn \/ SetFsBase \/ Execve
            \/ TerminateProcess \/ UserFault \/ FaultDeliverSignal
            \/ MarkBlocked \/ KillCurrentThread \/ FaultKill
            \/ \E i \in Slots : SetDonateTarget(i)
  BY <1>12, UserStepsKeepContext
<1> QED
  BY <1>6, <1>7, <1>8, <1>9, <1>10, <1>11, <1>12 DEF Next

(***************************************************************************)
(* Whenever the timer or a yield switches threads, the processor carries   *)
(* the context of the thread that runs: its page table, kernel stack, pid, *)
(* FS base and GS, and inside a system call its user stack.                *)
(***************************************************************************)
THEOREM ContextIsOwn == Spec => []ContextOwned
<1>1. Init => ContextInv
  <2>1. ASSUME Init PROVE ContextInv
    <3>1. 0 \in Slots
      BY SchedulerAssumption DEF Slots
    <3>2. /\ \A t \in Slots : mode[t] \in {"boot", "none"} /\ kind[t] = "Kernel"
          /\ cur = 0 /\ mode[0] = "boot" /\ pml4[0] = Nobody
      BY <2>1, <3>1 DEF Init, BootThread, cur
    <3>3. ContextOwned
      BY <2>1, <3>1, <3>2 DEF Init, BootThread, ContextOwned
    <3> QED
      BY <3>2, <3>3 DEF ContextInv, KernelModes, UserModes
  <2> QED
    BY <2>1
<1>2. ContextInv => ContextOwned
  BY DEF ContextInv
<1> QED
  BY <1>1, <1>2, InitEstablishes, NextPreserves, NextKeepsContext, PTL DEF Spec

-----------------------------------------------------------------------------
(***************************************************************************)
(*                           The async executor                            *)
(***************************************************************************)

(***************************************************************************)
(* The labels at which a worker's task, or the id it took from WAKE_QUEUE, *)
(* is in use.                                                              *)
(***************************************************************************)
Polling == {"cache", "poll", "register", "retest", "ready", "ready_deferred",
            "pending", "check", "requeue", "panic"}

Waking == {"wake_look", "wake_push", "wake_cache", "wake_defer"}

InUse ==
    \A w \in Workers : /\ pc[w] \in Polling => task[w] \in Tasks
                       /\ pc[w] \in Waking => woken[w] \in Tasks

(***************************************************************************)
(* The task a worker has taken out of the queue or of the map, and not yet *)
(* put anywhere else.                                                      *)
(***************************************************************************)
Hand(w) == IF InHand(w) THEN task[w]
           ELSE IF At(w, "wake_push") THEN woken[w] ELSE None

(***************************************************************************)
(* The places a task can be in exclude each other, and a task is in one of *)
(* them exactly as long as it is alive.                                    *)
(***************************************************************************)
Disjoint ==
    /\ IsInjective(TASK_QUEUE)
    /\ Range(TASK_QUEUE) \cap WAIT_MAP = {}
    /\ \A w \in Workers : Hand(w) \notin Range(TASK_QUEUE) \cup WAIT_MAP
    /\ \A w, v \in Workers : Hand(w) = Hand(v) /\ Hand(w) # None => w = v

Alive ==
    /\ done \subseteq spawned
    /\ \A t \in Tasks :
          t \in spawned \ done <=> \/ t \in Range(TASK_QUEUE) \cup WAIT_MAP
                                   \/ \E w \in Workers : Hand(w) = t

(***************************************************************************)
(* The inductive invariant.                                                *)
(***************************************************************************)
ExecutorInv == ExecTypeOK /\ InUse /\ Disjoint /\ Alive

-----------------------------------------------------------------------------
(***************************************************************************)
(* The invariant holds when the first worker enters run_worker.            *)
(***************************************************************************)
LEMMA InitExecutor == ExecInit => ExecutorInv
<1> SUFFICES ASSUME ExecInit PROVE ExecutorInv
  OBVIOUS
<1>1. ExecTypeOK
  BY ExecutorAssumption, EmptySeq DEF ExecInit, ExecTypeOK, Labels
<1>2. InUse
  BY DEF ExecInit, InUse, Polling, Waking
<1>3. Range(TASK_QUEUE) = {} /\ IsInjective(TASK_QUEUE)
  BY DEF ExecInit, Range, IsInjective
<1>4. \A w \in Workers : Hand(w) = None
  BY DEF ExecInit, Hand, InHand, At
<1> QED
  BY <1>1, <1>2, <1>3, <1>4, ExecutorAssumption
     DEF ExecutorInv, Disjoint, Alive, ExecInit

-----------------------------------------------------------------------------
(***************************************************************************)
(* Every step keeps the types: in particular wakers that fire while        *)
(* WAKE_QUEUE is full are dropped (timer::tick), never pushed beyond it.   *)
(***************************************************************************)
LEMMA TypesKept == ExecTypeOK /\ InUse /\ [ExecNext]_execVars => ExecTypeOK' /\ InUse'
<1> SUFFICES ASSUME ExecTypeOK, InUse, [ExecNext]_execVars PROVE ExecTypeOK' /\ InUse'
  OBVIOUS
<1> USE ExecutorAssumption
<1>0. /\ TASK_QUEUE \in Seq(Tasks)
      /\ WAKE_QUEUE \in Seq(Tasks) /\ Len(WAKE_QUEUE) <= WAKE_SLOTS
      /\ WAKERS \in Seq(Tasks) /\ Len(WAKERS) <= MAX_WAKERS
      /\ WAIT_MAP \subseteq Tasks /\ WAKER_CACHE \subseteq Tasks
      /\ DEFERRED_WAKES \subseteq Tasks /\ due \subseteq Tasks
      /\ spawned \subseteq Tasks /\ done \subseteq Tasks
      /\ delays \in [Tasks -> 1 .. MaxDelays]
      /\ pc \in [Workers -> Labels]
      /\ task \in [Workers -> Tasks \cup {None}]
      /\ woken \in [Workers -> Tasks \cup {None}]
  BY DEF ExecTypeOK
<1>1. CASE UNCHANGED execVars
  BY <1>0, <1>1 DEF execVars, queues, timer, worker, ExecTypeOK, InUse
<1>2. ASSUME NEW t \in Tasks, SpawnTask(t) PROVE ExecTypeOK' /\ InUse'
  BY <1>0, <1>2, PushesBack DEF SpawnTask, timer, worker, ExecTypeOK, InUse
<1>3. CASE Tick
  <2>1. Pushed(WAKERS) \in Seq(Tasks) /\ Len(Pushed(WAKERS)) <= WAKE_SLOTS
    <3> DEFINE all == WAKE_QUEUE \o WAKERS
    <3>1. all \in Seq(Tasks) /\ Len(all) \in Nat
      BY <1>0, ConcatProperties, LenProperties
    <3>2. \A i \in 1 .. Len(all) : all[i] \in Tasks
      BY <3>1, ElementOfSeq
    <3> HIDE DEF all
    <3>3. CASE Len(all) <= WAKE_SLOTS
      BY <3>1, <3>3 DEF Pushed, all
    <3>4. CASE Len(all) > WAKE_SLOTS
      <4>1. \A i \in 1 .. WAKE_SLOTS : all[i] \in Tasks
        BY <3>1, <3>2, <3>4
      <4>2. /\ SubSeq(all, 1, WAKE_SLOTS) \in Seq(Tasks)
            /\ Len(SubSeq(all, 1, WAKE_SLOTS)) = WAKE_SLOTS
        BY <4>1, SubSeqProperties
      <4> QED
        BY <3>1, <3>4, <4>2 DEF Pushed, all
    <3> QED
      BY <3>1, <3>3, <3>4
  <2>2. <<>> \in Seq(Tasks) /\ Len(<<>>) = 0
    BY EmptySeq
  <2> QED
    BY <1>0, <1>3, <2>1, <2>2 DEF Tick, worker, ExecTypeOK, InUse
<1>4. ASSUME NEW w \in Workers, Step(w) PROVE ExecTypeOK' /\ InUse'
  <2>1. CASE WakePop(w)
    <3>1. CASE WAKE_QUEUE = <<>>
      BY SMTT(30), <1>0, <2>1, <3>1 DEF WakePop, At, Goto, timer, ExecTypeOK, InUse, Labels,
         Polling, Waking
    <3>2. CASE WAKE_QUEUE # <<>>
      <4>1. /\ Head(WAKE_QUEUE) \in Tasks /\ Tail(WAKE_QUEUE) \in Seq(Tasks)
            /\ Len(Tail(WAKE_QUEUE)) <= WAKE_SLOTS
        BY <1>0, <3>2, HeadTailProperties, LenProperties
      <4> QED
        BY ZenonT(40), <1>0, <2>1, <3>2, <4>1 DEF WakePop, At, Goto, timer, ExecTypeOK, InUse,
           Labels, Polling, Waking
    <3> QED
      BY <3>1, <3>2
  <2>2. CASE WakeLook(w)
    BY <1>0, <2>2 DEF WakeLook, At, Goto, timer, ExecTypeOK, InUse, Labels, Polling,
       Waking
  <2>3. CASE WakePush(w)
    <3>1. woken[w] \in Tasks
      BY <2>3 DEF WakePush, At, InUse, Waking
    <3>2. Append(TASK_QUEUE, woken[w]) \in Seq(Tasks)
      BY <1>0, <3>1, PushesBack
    <3> QED
      BY <1>0, <2>3, <3>2 DEF WakePush, At, Goto, timer, ExecTypeOK, InUse, Labels,
         Polling, Waking
  <2>4. CASE WakeCache(w)
    BY <1>0, <2>4 DEF WakeCache, At, Goto, queues, timer, ExecTypeOK, InUse, Labels,
       Polling, Waking
  <2>5. CASE WakeDefer(w)
    BY <1>0, <2>5 DEF WakeDefer, At, Goto, timer, ExecTypeOK, InUse, Labels, Polling,
       Waking
  <2>6. CASE RunPop(w)
    <3>1. CASE TASK_QUEUE = <<>>
      BY ZenonT(40), <1>0, <2>6, <3>1 DEF RunPop, At, Goto, timer, ExecTypeOK, InUse, Labels,
         Polling, Waking
    <3>2. CASE TASK_QUEUE # <<>>
      <4>1. Head(TASK_QUEUE) \in Tasks /\ Tail(TASK_QUEUE) \in Seq(Tasks)
        BY <1>0, <3>2, HeadTailProperties
      <4> QED
        BY ZenonT(40), <1>0, <2>6, <3>2, <4>1 DEF RunPop, At, Goto, timer, ExecTypeOK, InUse,
           Labels, Polling, Waking
    <3> QED
      BY <3>1, <3>2
  <2>7. CASE RunCache(w)
    BY <1>0, <2>7 DEF RunCache, At, Goto, timer, ExecTypeOK, InUse, Labels, Polling,
       Waking
  <2>8. CASE PollTest(w, "poll", "register") \/ PollTest(w, "retest", "pending")
    BY ZenonT(40), <1>0, <2>8 DEF PollTest, At, Goto, queues, timer, ExecTypeOK, InUse, Labels,
       Polling, Waking
  <2>9. CASE PollRegister(w)
    <3>1. task[w] \in Tasks
      BY <2>9 DEF PollRegister, At, InUse, Polling
    <3>2. /\ Append(WAKERS, task[w]) \in Seq(Tasks)
          /\ Len(Append(WAKERS, task[w])) <= MAX_WAKERS
      BY <1>0, <2>9, <3>1, AppendProperties, LenProperties DEF PollRegister
    <3> QED
      BY <1>0, <2>9, <3>2 DEF PollRegister, At, Goto, queues, ExecTypeOK, InUse, Labels,
         Polling, Waking
  <2>10. CASE PollPanics(w)
    BY <1>0, <2>10 DEF PollPanics, At, Goto, queues, timer, ExecTypeOK, InUse, Labels,
       Polling, Waking
  <2>11. CASE NextDelay(w)
    BY <1>0, <2>11 DEF NextDelay, At, Goto, queues, ExecTypeOK, InUse, Labels, Polling,
       Waking
  <2>12. CASE ReadyCache(w)
    BY <1>0, <2>12 DEF ReadyCache, At, Goto, timer, ExecTypeOK, InUse, Labels, Polling,
       Waking
  <2>13. CASE ReadyDeferred(w)
    BY <1>0, <2>13 DEF ReadyDeferred, At, Goto, timer, ExecTypeOK, InUse, Labels,
       Polling, Waking
  <2>14. CASE PendingInsert(w)
    BY <1>0, <2>14 DEF PendingInsert, At, Goto, timer, ExecTypeOK, InUse, Labels,
       Polling, Waking
  <2>15. CASE PendingCheck(w)
    BY <1>0, <2>15 DEF PendingCheck, At, Goto, timer, ExecTypeOK, InUse, Labels,
       Polling, Waking
  <2>16. CASE Requeue(w)
    <3>1. task[w] \in Tasks
      BY <2>16 DEF Requeue, At, InUse, Polling
    <3>2. Append(TASK_QUEUE, task[w]) \in Seq(Tasks)
      BY <1>0, <3>1, PushesBack
    <3> QED
      BY <1>0, <2>16, <3>2 DEF Requeue, At, Goto, timer, ExecTypeOK, InUse, Labels,
         Polling, Waking
  <2>17. CASE SleepIfIdle(w)
    BY <1>0, <2>17 DEF SleepIfIdle, At, Goto, queues, timer, ExecTypeOK, InUse, Labels,
       Polling, Waking
  <2> QED
    BY <1>4, <2>1, <2>2, <2>3, <2>4, <2>5, <2>6, <2>7, <2>8, <2>9, <2>10, <2>11,
       <2>12, <2>13, <2>14, <2>15, <2>16, <2>17 DEF Step, Wake, Poll
<1> QED
  BY <1>1, <1>2, <1>3, <1>4 DEF ExecNext

(***************************************************************************)
(* Where the tasks are depends on the ready queue, the wait map and the    *)
(* hands only: a step that leaves these alone moves no task.               *)
(***************************************************************************)
LEMMA NothingMoves ==
    ASSUME Disjoint, Alive, UNCHANGED <<TASK_QUEUE, WAIT_MAP, spawned, done>>,
           \A w \in Workers : Hand(w)' = Hand(w)
    PROVE  Disjoint' /\ Alive'
BY DEF Disjoint, Alive

(***************************************************************************)
(* A step of one worker leaves the hands of the others as they are.        *)
(***************************************************************************)
LEMMA OtherHands ==
    ASSUME ExecTypeOK, NEW w \in Workers, NEW v \in Workers, v # w,
           \E l : Goto(w, l),
           task' = task \/ \E x : task' = [task EXCEPT ![w] = x],
           woken' = woken \/ \E x : woken' = [woken EXCEPT ![w] = x]
    PROVE  Hand(v)' = Hand(v)
<1>1. pc'[v] = pc[v]
  BY DEF ExecTypeOK, Goto
<1>2. task'[v] = task[v] /\ woken'[v] = woken[v]
  BY DEF ExecTypeOK
<1> QED
  BY <1>1, <1>2 DEF Hand, InHand, At

(***************************************************************************)
(* No step loses, duplicates or revives a task.                            *)
(***************************************************************************)
LEMMA PlacesKept ==
    ASSUME ExecutorInv, [ExecNext]_execVars
    PROVE  Disjoint' /\ Alive'
<1> USE ExecutorAssumption
<1>0. /\ ExecTypeOK /\ InUse /\ Disjoint /\ Alive
      /\ TASK_QUEUE \in Seq(Tasks) /\ None \notin Tasks
      /\ IsInjective(TASK_QUEUE)
      /\ pc \in [Workers -> Labels]
      /\ task \in [Workers -> Tasks \cup {None}]
      /\ woken \in [Workers -> Tasks \cup {None}]
  BY DEF ExecutorInv, ExecTypeOK, Disjoint
<1>a. None \notin Range(TASK_QUEUE) \cup WAIT_MAP
  BY <1>0, RangeOfSeq DEF ExecTypeOK
<1>1. CASE UNCHANGED execVars
  BY <1>0, <1>1, NothingMoves DEF execVars, queues, worker, Hand, InHand, At
<1>2. ASSUME NEW t \in Tasks, SpawnTask(t) PROVE Disjoint' /\ Alive'
  <2>1. \A w \in Workers : Hand(w)' = Hand(w)
    BY <1>2 DEF SpawnTask, worker, Hand, InHand, At
  <2>2. t \notin spawned /\ t \notin Range(TASK_QUEUE) \cup WAIT_MAP
        /\ \A w \in Workers : Hand(w) # t
    BY <1>0, <1>2 DEF SpawnTask, Alive
  <2>3. Range(TASK_QUEUE') = Range(TASK_QUEUE) \cup {t} /\ IsInjective(TASK_QUEUE')
    BY <1>0, <1>2, <2>2, PushesBack DEF SpawnTask
  <2> QED
    BY <1>0, <1>2, <2>1, <2>2, <2>3 DEF SpawnTask, Disjoint, Alive
<1>3. CASE Tick
  BY <1>0, <1>3, NothingMoves DEF Tick, worker, Hand, InHand, At
<1>4. ASSUME NEW w \in Workers, Step(w) PROVE Disjoint' /\ Alive'
  <2>0. ASSUME NEW l, Goto(w, l) PROVE pc'[w] = l
    BY <2>0, <1>0 DEF Goto
  <2>1. CASE WakePop(w)
    <3>1. \A v \in Workers : Hand(v)' = Hand(v)
      BY <1>0, <2>0, <2>1, OtherHands DEF WakePop, Hand, InHand, At
    <3> QED
      BY <1>0, <2>1, <3>1, NothingMoves DEF WakePop
  <2>2. CASE WakeLook(w)
    <3> DEFINE t == woken[w]
    <3>1. \A v \in Workers \ {w} : Hand(v)' = Hand(v)
      BY <1>0, <2>2, OtherHands DEF WakeLook
    <3>2. Hand(w) = None /\ t \in Tasks
      BY <1>0, <2>2 DEF WakeLook, Hand, InHand, At, InUse, Waking
    <3>3. CASE t \in WAIT_MAP
      <4>1. Hand(w)' = t
        BY <2>2, <3>3, <1>0 DEF WakeLook, Goto, Hand, InHand, At
      <4> QED
        BY <1>0, <2>2, <3>1, <3>2, <3>3, <4>1 DEF WakeLook, Disjoint, Alive
    <3>4. CASE t \notin WAIT_MAP
      <4>1. Hand(w)' = None /\ WAIT_MAP' = WAIT_MAP
        BY <2>2, <3>4, <1>0 DEF WakeLook, Goto, Hand, InHand, At
      <4> QED
        BY <1>0, <2>2, <3>1, <3>2, <4>1, NothingMoves DEF WakeLook
    <3> QED
      BY <3>3, <3>4
  <2>3. CASE WakePush(w)
    <3> DEFINE t == woken[w]
    <3>1. \A v \in Workers \ {w} : Hand(v)' = Hand(v)
      BY <1>0, <2>3, OtherHands DEF WakePush
    <3>2. Hand(w) = t /\ Hand(w)' = None /\ t \in Tasks
      BY <1>0, <2>3 DEF WakePush, Goto, Hand, InHand, At, InUse, Waking
    <3>3. /\ Range(TASK_QUEUE') = Range(TASK_QUEUE) \cup {t}
          /\ IsInjective(TASK_QUEUE')
      BY <1>0, <2>3, <3>2, PushesBack DEF WakePush, Disjoint
    <3>4. UNCHANGED <<WAIT_MAP, spawned, done>>
      BY <2>3 DEF WakePush
    <3>5. Disjoint'
      BY <1>0, <1>a, <3>1, <3>2, <3>3, <3>4 DEF Disjoint
    <3>6. Alive'
      BY <1>0, <3>1, <3>2, <3>3, <3>4 DEF Alive
    <3> QED
      BY <3>5, <3>6
  <2>4. CASE WakeCache(w)
    <3>1. \A v \in Workers : Hand(v)' = Hand(v)
      BY <1>0, <2>0, <2>4, OtherHands DEF WakeCache, Hand, InHand, At
    <3> QED
      BY <1>0, <2>4, <3>1, NothingMoves DEF WakeCache, queues
  <2>5. CASE WakeDefer(w)
    <3>1. \A v \in Workers : Hand(v)' = Hand(v)
      BY <1>0, <2>0, <2>5, OtherHands DEF WakeDefer, Hand, InHand, At
    <3> QED
      BY <1>0, <2>5, <3>1, NothingMoves DEF WakeDefer
  <2>6. CASE RunPop(w)
    <3>1. \A v \in Workers \ {w} : Hand(v)' = Hand(v)
      BY <1>0, <2>6, OtherHands DEF RunPop
    <3>2. Hand(w) = None
      BY <2>6 DEF RunPop, Hand, InHand, At
    <3>3. CASE TASK_QUEUE = <<>>
      <4>1. Hand(w)' = None
        BY <1>0, <2>6, <3>3 DEF RunPop, Goto, Hand, InHand, At
      <4> QED
        BY <1>0, <2>6, <3>1, <3>2, <3>3, <4>1, NothingMoves DEF RunPop
    <3>4. CASE TASK_QUEUE # <<>>
      <4> DEFINE t == Head(TASK_QUEUE)
      <4>1. Hand(w)' = t
        BY <1>0, <2>6, <3>4 DEF RunPop, Goto, Hand, InHand, At
      <4>2. /\ t \in Tasks /\ t \in Range(TASK_QUEUE)
            /\ Range(TASK_QUEUE') = Range(TASK_QUEUE) \ {t}
            /\ IsInjective(TASK_QUEUE')
        <5>1. TASK_QUEUE' = Tail(TASK_QUEUE)
          BY <2>6, <3>4 DEF RunPop
        <5> QED
          BY <5>1, <1>0, <3>4, PopFront, HeadTailProperties
      <4> HIDE DEF t
      <4> QED
        BY <1>0, <2>6, <3>1, <3>2, <4>1, <4>2 DEF RunPop, Disjoint, Alive
    <3> QED
      BY <3>3, <3>4
  <2>7. CASE RunCache(w)
    <3>1. \A v \in Workers : Hand(v)' = Hand(v)
      BY <1>0, <2>0, <2>7, OtherHands DEF RunCache, Hand, InHand, At
    <3> QED
      BY <1>0, <2>7, <3>1, NothingMoves DEF RunCache
  <2>8. CASE PollTest(w, "poll", "register") \/ PollTest(w, "retest", "pending")
    <3>1. \A v \in Workers : Hand(v)' = Hand(v)
      BY <1>0, <2>0, <2>8, OtherHands DEF PollTest, Hand, InHand, At
    <3> QED
      BY <1>0, <2>8, <3>1, NothingMoves DEF PollTest, queues
  <2>9. CASE PollRegister(w)
    <3>1. \A v \in Workers : Hand(v)' = Hand(v)
      BY <1>0, <2>0, <2>9, OtherHands DEF PollRegister, Hand, InHand, At
    <3> QED
      BY <1>0, <2>9, <3>1, NothingMoves DEF PollRegister, queues
  <2>10. CASE PollPanics(w)
    <3>1. \A v \in Workers : Hand(v)' = Hand(v)
      BY <1>0, <2>0, <2>10, OtherHands DEF PollPanics, Hand, InHand, At
    <3> QED
      BY <1>0, <2>10, <3>1, NothingMoves DEF PollPanics, queues
  <2>11. CASE NextDelay(w)
    <3>1. \A v \in Workers : Hand(v)' = Hand(v)
      BY <1>0, <2>0, <2>11, OtherHands DEF NextDelay, Hand, InHand, At
    <3> QED
      BY <1>0, <2>11, <3>1, NothingMoves DEF NextDelay, queues
  <2>12. CASE ReadyCache(w)
    <3>1. \A v \in Workers : Hand(v)' = Hand(v)
      BY <1>0, <2>0, <2>12, OtherHands DEF ReadyCache, Hand, InHand, At
    <3> QED
      BY <1>0, <2>12, <3>1, NothingMoves DEF ReadyCache
  <2>13. CASE ReadyDeferred(w)
    <3>1. \A v \in Workers \ {w} : Hand(v)' = Hand(v)
      BY <1>0, <2>13, OtherHands DEF ReadyDeferred
    <3>2. Hand(w) = task[w] /\ Hand(w)' = None /\ task[w] \in Tasks
      BY <1>0, <2>13 DEF ReadyDeferred, Goto, Hand, InHand, At, InUse, Polling
    <3>3. UNCHANGED <<TASK_QUEUE, WAIT_MAP, spawned>> /\ done' = done \cup {task[w]}
      BY <2>13 DEF ReadyDeferred
    <3>4. Disjoint'
      BY <1>0, <1>a, <3>1, <3>2, <3>3 DEF Disjoint
    <3>5. task[w] \in spawned \ done
      BY <1>0, <3>2 DEF Alive
    <3>6. /\ task[w] \notin Range(TASK_QUEUE) \cup WAIT_MAP
          /\ \A v \in Workers : Hand(v)' # task[w]
      BY <1>0, <3>1, <3>2 DEF Disjoint
    <3>7. Alive'
      BY <1>0, <3>1, <3>2, <3>3, <3>5, <3>6 DEF Alive
    <3> QED
      BY <3>4, <3>7
  <2>14. CASE PendingInsert(w)
    <3>1. \A v \in Workers \ {w} : Hand(v)' = Hand(v)
      BY <1>0, <2>14, OtherHands DEF PendingInsert
    <3>2. Hand(w) = task[w] /\ Hand(w)' = None /\ task[w] \in Tasks
      BY <1>0, <2>14 DEF PendingInsert, Goto, Hand, InHand, At, InUse, Polling
    <3>3. /\ UNCHANGED <<TASK_QUEUE, spawned, done>>
          /\ WAIT_MAP' = WAIT_MAP \cup {task[w]}
      BY <2>14 DEF PendingInsert
    <3>4. Disjoint'
      BY <1>0, <1>a, <3>1, <3>2, <3>3 DEF Disjoint
    <3>5. Alive'
      BY <1>0, <3>1, <3>2, <3>3 DEF Alive
    <3> QED
      BY <3>4, <3>5
  <2>15. CASE PendingCheck(w)
    <3>1. \A v \in Workers : Hand(v)' = Hand(v)
      BY <1>0, <2>0, <2>15, OtherHands DEF PendingCheck, Hand, InHand, At
    <3> QED
      BY <1>0, <2>15, <3>1, NothingMoves DEF PendingCheck
  <2>16. CASE Requeue(w)
    <3> DEFINE t == task[w]
    <3>1. \A v \in Workers : Hand(v)' = Hand(v)
      BY <1>0, <2>0, <2>16, OtherHands DEF Requeue, Hand, InHand, At
    <3>2. t \in Tasks
      BY <2>16, <1>0 DEF Requeue, At, InUse, Polling
    <3>3. CASE t \in WAIT_MAP
      <4>1. /\ Range(TASK_QUEUE') = Range(TASK_QUEUE) \cup {t}
            /\ IsInjective(TASK_QUEUE')
        BY <1>0, <2>16, <3>2, <3>3, PushesBack DEF Requeue, Disjoint
      <4> QED
        BY <1>0, <2>16, <3>1, <3>2, <3>3, <4>1 DEF Requeue, Disjoint, Alive
    <3>4. CASE t \notin WAIT_MAP
      BY <1>0, <2>16, <3>1, <3>4, NothingMoves DEF Requeue
    <3> QED
      BY <3>3, <3>4
  <2>17. CASE SleepIfIdle(w)
    <3>1. \A v \in Workers : Hand(v)' = Hand(v)
      BY <1>0, <2>0, <2>17, OtherHands DEF SleepIfIdle, Hand, InHand, At
    <3> QED
      BY <1>0, <2>17, <3>1, NothingMoves DEF SleepIfIdle, queues
  <2> QED
    BY <1>4, <2>1, <2>2, <2>3, <2>4, <2>5, <2>6, <2>7, <2>8, <2>9, <2>10, <2>11,
       <2>12, <2>13, <2>14, <2>15, <2>16, <2>17 DEF Step, Wake, Poll
<1> QED
  BY <1>1, <1>2, <1>3, <1>4 DEF ExecNext

(***************************************************************************)
(* A set of holders described by the four parts of Holders has one element *)
(* when exactly one part has.                                              *)
(***************************************************************************)
LEMMA OneHolder ==
    ASSUME ExecutorInv, NEW t \in Tasks
    PROVE  Cardinality(Holders(t)) = IF t \in spawned \ done THEN 1 ELSE 0
<1> DEFINE Q == {j \in DOMAIN TASK_QUEUE : TASK_QUEUE[j] = t}
           M == WAIT_MAP \cap {t}
           P == {v \in Workers : InHand(v) /\ task[v] = t}
           K == {v \in Workers : At(v, "wake_push") /\ woken[v] = t}
<1>0. /\ ExecTypeOK /\ InUse /\ Disjoint /\ Alive /\ None \notin Tasks
      /\ \A w \in Workers : Hand(w) = t <=> w \in P \cup K
      /\ P \cap K = {}
      /\ t \in Range(TASK_QUEUE) <=> Q # {}
  BY ExecutorAssumption DEF ExecutorInv, Hand, InHand, At, Range
<1>1. Holders(t) = {<<"queue", i>> : i \in Q} \cup {<<"map", 0>> : x \in M}
                     \cup {<<"poll", w>> : w \in P} \cup {<<"wake", w>> : w \in K}
  BY DEF Holders
<1>2. CASE t \notin spawned \ done
  <2>1. Q = {} /\ M = {} /\ P = {} /\ K = {}
    BY <1>0, <1>2 DEF Alive
  <2>2. Holders(t) = {}
    BY <1>1, <2>1
  <2> QED
    BY <1>2, <2>2, FS_EmptySet
<1>3. CASE t \in spawned \ done
  <2>1. \E h : Holders(t) = {h}
    <3>1. CASE t \in Range(TASK_QUEUE)
      <4>1. PICK i \in DOMAIN TASK_QUEUE : TASK_QUEUE[i] = t
        BY <3>1 DEF Range
      <4>2. Q = {i}
        BY <4>1, <1>0 DEF Disjoint, IsInjective
      <4>3. M = {} /\ P = {} /\ K = {}
        BY <3>1, <1>0 DEF Disjoint
      <4>4. Holders(t) = {<<"queue", i>>}
        BY <4>2, <4>3, <1>1
      <4> QED
        BY <4>4
    <3>2. CASE t \in WAIT_MAP
      <4>1. M = {t} /\ Q = {} /\ P = {} /\ K = {}
        BY <3>2, <1>0 DEF Disjoint
      <4>2. Holders(t) = {<<"map", 0>>}
        BY <4>1, <1>1
      <4> QED
        BY <4>2
    <3>3. ASSUME NEW w \in Workers, Hand(w) = t
          PROVE  \E h : Holders(t) = {h}
      <4>1. M = {} /\ Q = {} /\ P \cup K = {w}
        BY <3>3, <1>0 DEF Disjoint
      <4>2. CASE w \in P
        <5>1. P = {w} /\ K = {}
          BY <4>1, <4>2, <1>0
        <5>2. Holders(t) = {<<"poll", w>>}
          BY <4>1, <5>1, <1>1
        <5> QED
          BY <5>2
      <4>3. CASE w \in K
        <5>1. K = {w} /\ P = {}
          BY <4>1, <4>3, <1>0
        <5>2. Holders(t) = {<<"wake", w>>}
          BY <4>1, <5>1, <1>1
        <5> QED
          BY <5>2
      <4> QED
        BY <4>1, <4>2, <4>3
    <3> QED
      BY <1>0, <1>3, <3>1, <3>2, <3>3 DEF Alive
  <2> QED
    BY <1>3, <2>1, FS_Singleton
<1> QED
  BY <1>2, <1>3

(***************************************************************************)
(* The invariant holds throughout a run of the workers.                    *)
(***************************************************************************)
THEOREM ExecutorSafe == ExecSpec => []ExecutorInv
<1>1. ExecInit => ExecutorInv
  BY InitExecutor
<1>2. ExecutorInv /\ [ExecNext]_execVars => ExecutorInv'
  BY TypesKept, PlacesKept DEF ExecutorInv
<1> QED
  BY <1>1, <1>2, PTL DEF ExecSpec

(***************************************************************************)
(* executor.rs: whatever the interleaving of wake_tasks, run_ready_tasks   *)
(* and the timer, a live task is in the ready queue, in the wait map or    *)
(* with one worker, and in one of them once; a completed task in none.     *)
(***************************************************************************)
THEOREM TaskInOnePlace == ExecSpec => []OnePlace
<1>1. ExecutorInv => OnePlace
  BY OneHolder DEF OnePlace
<1> QED
  BY <1>1, ExecutorSafe, PTL
=============================================================================
