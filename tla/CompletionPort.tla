--------------------------- MODULE CompletionPort ---------------------------
(***************************************************************************)
(* A completion port (completion-port/src/port.rs and its kernel wrapper   *)
(* libkernel/src/completion_port.rs), the system calls that use it         *)
(* (osl/src/io_port.rs), and the other user of scheduler::unblock that     *)
(* shares its threads: the async-to-sync bridge of osl/src/blocking.rs.    *)
(*                                                                         *)
(* System calls run with interrupts off on the only CPU, so a thread in    *)
(* one is undisturbed until it yields: such a segment is one step, or a    *)
(* run of steps during which cpu names the thread.  Executor tasks are     *)
(* preemptible, so what they do before and after a lock are separate       *)
(* steps.  A completion is its submission's id and whether it carries data *)
(* that only a system call of the receiver can copy (deferred).            *)
(***************************************************************************)
EXTENDS Naturals, Sequences, FiniteSets, SequencesExt

CONSTANTS
    Threads,        \* user threads that hold a descriptor of the port
    Consumers,      \* the ones that wait on it (the port has one waiter slot)
    None,           \* no thread, no task
    Tasks,          \* executor tasks that will call unblock (bound)
    MaxQueued,      \* CompletionPort.max_queued, 256 in the kernel
    CqEntries,      \* capacity of the shared completion ring
    MaxOps,         \* bound on the submissions of a behaviour
    Workloads       \* sets of the system calls that the threads make

AllCalls == {"io_submit", "io_wait", "timed_wait", "setup_rings",
             "ring_enter", "blocking", "one_entry"}

ASSUME CompletionPortAssumption ==
    /\ None \notin Threads \cup Tasks
    /\ Consumers \subseteq Threads
    /\ MaxQueued \in Nat /\ CqEntries \in Nat \ {0} /\ MaxOps \in Nat
    /\ Workloads \subseteq SUBSET AllCalls

(***************************************************************************)
(* What process_submission does with an entry: post at once and donate     *)
(* (OP_NOP and an accepted OP_IPC_SEND, or with data an OP_IPC_RECV that   *)
(* finds a message), post an error at once, or leave the post to a task,   *)
(* an interrupt handler or another thread, with or without data to copy.   *)
(***************************************************************************)
Kinds == {"ready", "ready_data", "error", "simple", "deferred"}

Entry      == [id : 1 .. MaxOps, kind : Kinds]
Completion == [id : 1 .. MaxOps, deferred : BOOLEAN]

CompletionOf(e) ==
    [id |-> e.id, deferred |-> e.kind \in {"deferred", "ready_data"}]

VARIABLES
    queue,      \* CompletionPort.queue
    waiter,     \* CompletionPort.waiter
    ring,       \* io_ring.is_some()
    sq,         \* the shared submission ring, oldest first
    cq,         \* the shared completion ring, oldest first
    sched,      \* scheduler state of each thread, as unblock sees it
    call,       \* the system call each thread is in
    todo,       \* entries that call has still to process
    cpu,        \* the thread running with interrupts off, between steps
    inflight,   \* submissions whose completion is still to be posted
    tasks,      \* executor tasks that will unblock a thread
    nsub,       \* submissions made so far
    posted,     \* every completion posted, in order (history)
    received,   \* every completion user code has got, in order (history)
    lost,       \* completions that found the queue or the ring full (history)
    late,       \* threads that an unblock not meant for it woke in blocking()
                \* (history)
    workload    \* the one of Workloads that this behaviour is about

port    == <<queue, waiter, ring, sq, cq>>
threads == <<sched, call, todo, cpu>>
history == <<posted, received, lost, late>>
vars    == <<port, threads, inflight, tasks, nsub, history, workload>>

Fns == {"user", "submit", "ring_submit", "io_wait", "ring_wait", "blocking",
        "panicked"}

InUser == [fn |-> "user", min |-> 0, max |-> 0, task |-> None, done |-> FALSE]

MaySyscall(t, name) ==
    name \in workload /\ cpu = None /\ call[t].fn = "user"

Resumes(t, fn) ==
    cpu \in {None, t} /\ sched[t] = "Runnable" /\ call[t].fn = fn

(***************************************************************************)
(* scheduler::unblock.                                                     *)
(***************************************************************************)
Unblocked(t) ==
    [sched EXCEPT ![t] = IF @ = "Blocked" THEN "Runnable" ELSE @]

Blocked(t, fn) == sched[t] = "Blocked" /\ call[t].fn = fn

(***************************************************************************)
(* An unblock that finds its thread asleep in blocking() and does not come *)
(* from the task k of that call is noted; post has no task.                *)
(***************************************************************************)
LateWake(t, k) ==
    IF t # None /\ Blocked(t, "blocking") /\ call[t].task # k
      THEN late \cup {t} ELSE late

-----------------------------------------------------------------------------
(***************************************************************************)
(* The parts of CompletionPort::post.  A completion that finds the kernel  *)
(* queue or the shared ring full is dropped without a word.                *)
(***************************************************************************)
\* Mutant: completions are stacked rather than queued.
PushFront(c) ==
    /\ IF Len(queue) < MaxQueued
         THEN queue' = <<c>> \o queue /\ UNCHANGED lost
         ELSE lost' = lost \cup {c} /\ UNCHANGED queue
    /\ UNCHANGED cq

PushBack(c) ==
    /\ IF Len(queue) < MaxQueued
         THEN queue' = Append(queue, c) /\ UNCHANGED lost
         ELSE lost' = lost \cup {c} /\ UNCHANGED queue
    /\ UNCHANGED cq

PostCqe(c) ==
    /\ IF Len(cq) < CqEntries
         THEN cq' = Append(cq, c) /\ UNCHANGED lost
         ELSE lost' = lost \cup {c} /\ UNCHANGED cq
    /\ UNCHANGED queue

\* Mutant: the fast path of ring mode forgets the waiter.
WakeUnlessRing ==
    /\ waiter' = IF ring THEN waiter ELSE None
    /\ sched' = IF waiter = None \/ ring THEN sched ELSE Unblocked(waiter)
    /\ late' = IF ring THEN late ELSE LateWake(waiter, None)

WakeWaiter ==
    /\ waiter' = None
    /\ sched' = IF waiter = None THEN sched ELSE Unblocked(waiter)
    /\ late' = LateWake(waiter, None)

(***************************************************************************)
(* CompletionPort::post: in ring mode a completion without data goes       *)
(* straight to the shared ring, any other to the kernel queue, and the     *)
(* waiter is taken and woken in either case, stored or dropped.            *)
(***************************************************************************)
Post(c) ==
    /\ IF ring /\ ~c.deferred THEN PostCqe(c) ELSE PushBack(c)
    /\ WakeWaiter
    /\ posted' = Append(posted, c)

(***************************************************************************)
(* An executor task or an interrupt handler completes a submission.        *)
(***************************************************************************)
Complete(e) ==
    /\ cpu = None /\ e \in inflight
    /\ inflight' = inflight \ {e}
    /\ Post(CompletionOf(e))
    /\ UNCHANGED <<ring, sq, call, todo, cpu, tasks, nsub, received>>

-----------------------------------------------------------------------------
(***************************************************************************)
(* sys_io_submit: the entries are processed one by one; after one that     *)
(* woke somebody the thread yields before it goes on.  It donates to the   *)
(* port's waiter, except that an OP_IPC_SEND without one, or an            *)
(* OP_IPC_RECV, may donate to the other end of its channel instead.        *)
(***************************************************************************)
MayYield(e) ==
    CASE e.kind = "ready"      -> IF waiter # None THEN {TRUE} ELSE BOOLEAN
      [] e.kind = "ready_data" -> BOOLEAN
      [] OTHER                 -> {FALSE}

Batch(kinds) == [i \in 1 .. Len(kinds) |-> [id |-> nsub + i, kind |-> kinds[i]]]

IoSubmit(t, kinds) ==
    /\ MaySyscall(t, "io_submit")
    /\ nsub + Len(kinds) <= MaxOps
    /\ nsub' = nsub + Len(kinds)
    /\ call' = [call EXCEPT ![t].fn = "submit"]
    /\ todo' = [todo EXCEPT ![t] = Batch(kinds)]
    /\ cpu' = t
    /\ UNCHANGED <<port, sched, inflight, tasks, history>>

ProcessSubmission(t) ==
    LET e == Head(todo[t])
    IN /\ Resumes(t, "submit") \/ Resumes(t, "ring_submit")
       /\ todo[t] # <<>>
       /\ todo' = [todo EXCEPT ![t] = Tail(@)]
       /\ \E yields \in MayYield(e) : cpu' = IF yields THEN None ELSE t
       /\ IF e.kind \in {"ready", "ready_data", "error"}
            THEN Post(CompletionOf(e)) /\ UNCHANGED inflight
            ELSE /\ inflight' = inflight \cup {e}
                 /\ UNCHANGED <<queue, waiter, cq, sched, posted, lost, late>>
       /\ UNCHANGED <<ring, sq, call, tasks, nsub, received>>

SubmitReturns(t) ==
    /\ Resumes(t, "submit") /\ todo[t] = <<>>
    /\ call' = [call EXCEPT ![t] = InUser]
    /\ cpu' = None
    /\ UNCHANGED <<port, sched, todo, inflight, tasks, nsub, history>>

-----------------------------------------------------------------------------
(***************************************************************************)
(* WaitCondition::wait_while with set_waiter: registering, marking Blocked *)
(* and yielding cannot be told apart by anyone else.                       *)
(***************************************************************************)
WaitOnPort(t) ==
    /\ waiter' = t
    /\ sched' = [sched EXCEPT ![t] = "Blocked"]

(***************************************************************************)
(* The loop body of sys_io_wait.  On return the timeout task, if it has    *)
(* not yet seen its delay expire, is cancelled; the waiter slot is left as *)
(* it is.                                                                  *)
(***************************************************************************)
\* Mutant: the timeout is never tested.
IoWaitReadyNoTimeout(c) == Len(queue) >= c.min

IoWaitReady(c) == Len(queue) >= c.min \/ c.done

Cancelled(ts, t) ==
    [k \in Tasks |-> IF ts[k].thread = t /\ ts[k].phase = "delay"
                       THEN [ts[k] EXCEPT !.phase = "cancelled"]
                       ELSE ts[k]]

\* Mutant: the completions copied out stay in the queue when max is reached.
DrainCopy(max) ==
    LET n == IF max < Len(queue) THEN max ELSE Len(queue)
    IN /\ received' = received \o SubSeq(queue, 1, n)
       /\ queue' = IF n = Len(queue) THEN <<>> ELSE queue

Drain(max) ==
    LET n == IF max < Len(queue) THEN max ELSE Len(queue)
    IN /\ received' = received \o SubSeq(queue, 1, n)
       /\ queue' = SubSeq(queue, n + 1, Len(queue))

IoWaitLoop(t, c, ts) ==
    /\ cpu' = None
    /\ IF IoWaitReady(c)
         THEN /\ Drain(c.max)
              /\ call' = [call EXCEPT ![t] = InUser]
              /\ tasks' = Cancelled(ts, t)
              /\ UNCHANGED <<waiter, sched>>
         ELSE /\ WaitOnPort(t)
              /\ call' = [call EXCEPT ![t] = c]
              /\ tasks' = ts
              /\ UNCHANGED <<queue, received>>
    /\ UNCHANGED <<ring, sq, cq, todo, inflight, nsub, posted, lost, late>>

FreeTask == [phase |-> "free", thread |-> None]

IoWait(t, max, min) ==
    /\ MaySyscall(t, "io_wait") /\ t \in Consumers /\ ~ring
    /\ IoWaitLoop(t, [InUser EXCEPT !.fn = "io_wait", !.max = max,
                         !.min = IF min < max THEN min ELSE max], tasks)

IoWaitTimed(t, max, min, k) ==
    /\ MaySyscall(t, "timed_wait") /\ t \in Consumers /\ ~ring
    /\ tasks[k] = FreeTask
    /\ IoWaitLoop(t, [InUser EXCEPT !.fn = "io_wait", !.max = max,
                         !.min = IF min < max THEN min ELSE max, !.task = k],
                  [tasks EXCEPT ![k] = [phase |-> "delay", thread |-> t]])

IoWaitResumes(t) ==
    /\ Resumes(t, "io_wait")
    /\ IoWaitLoop(t, call[t], tasks)

(***************************************************************************)
(* The timeout.  The deadline is fixed before the task that waits for it   *)
(* is spawned, so the task's own delay never ends before the deadline.     *)
(* Between the poll that sees the delay expired, having seen the cancel    *)
(* flag clear, and the unblock, the task can be preempted.                 *)
(***************************************************************************)
DeadlinePasses(t) ==
    /\ cpu = None /\ call[t].fn = "io_wait" /\ call[t].task # None
    /\ ~call[t].done
    /\ call' = [call EXCEPT ![t].done = TRUE]
    /\ UNCHANGED <<port, sched, todo, cpu, inflight, tasks, nsub, history>>

\* Mutant: the task's delay is not tied to the deadline.
DelayElapsedEarly(k) == tasks[k].phase = "delay"

DelayElapsed(k) == tasks[k].phase = "delay" /\ call[tasks[k].thread].done

DelayExpires(k) ==
    /\ cpu = None /\ DelayElapsed(k)
    /\ tasks' = [tasks EXCEPT ![k].phase = "firing"]
    /\ UNCHANGED <<port, threads, inflight, nsub, history>>

DelayCancelled(k) ==
    /\ cpu = None /\ tasks[k].phase = "cancelled"
    /\ tasks' = [tasks EXCEPT ![k] = FreeTask]
    /\ UNCHANGED <<port, threads, inflight, nsub, history>>

(***************************************************************************)
(* The last step of a timeout task and of a task spawned by blocking().    *)
(***************************************************************************)
TaskUnblocks(k) ==
    /\ cpu = None /\ tasks[k].phase \in {"firing", "stored"}
    /\ sched' = Unblocked(tasks[k].thread)
    /\ tasks' = [tasks EXCEPT ![k] = FreeTask]
    /\ late' = LateWake(tasks[k].thread, k)
    /\ UNCHANGED <<port, call, todo, cpu, inflight, nsub, posted, received, lost>>

-----------------------------------------------------------------------------
(***************************************************************************)
(* blocking(): the task stores its result and then unblocks the thread.    *)
(* The thread waits once, without a loop, and expects the result; a panic  *)
(* halts the machine with interrupts off.                                  *)
(***************************************************************************)
BlockingCall(t, k) ==
    /\ MaySyscall(t, "blocking") /\ tasks[k] = FreeTask
    /\ call' = [call EXCEPT ![t] = [InUser EXCEPT !.fn = "blocking", !.task = k]]
    /\ sched' = [sched EXCEPT ![t] = "Blocked"]
    /\ tasks' = [tasks EXCEPT ![k] = [phase |-> "future", thread |-> t]]
    /\ late' = late \ {t}
    /\ UNCHANGED <<port, todo, cpu, inflight, nsub, posted, received, lost>>

\* Mutant: the thread is unblocked before the result is stored.
FutureUnblocksFirst(k) ==
    /\ cpu = None /\ tasks[k].phase = "future"
    /\ tasks' = [tasks EXCEPT ![k].phase = "stored"]
    /\ UNCHANGED <<port, threads, inflight, nsub, history>>

FutureStoresResult(k) ==
    /\ cpu = None /\ tasks[k].phase = "future"
    /\ tasks' = [tasks EXCEPT ![k].phase = "stored"]
    /\ call' = [call EXCEPT ![tasks[k].thread].done = TRUE]
    /\ UNCHANGED <<port, sched, todo, cpu, inflight, nsub, history>>

BlockingResumes(t) ==
    /\ Resumes(t, "blocking")
    /\ call' = [call EXCEPT ![t] =
                   IF @.done THEN InUser ELSE [@ EXCEPT !.fn = "panicked"]]
    /\ cpu' = IF call[t].done THEN None ELSE t
    /\ UNCHANGED <<port, sched, todo, inflight, tasks, nsub, history>>

-----------------------------------------------------------------------------
(***************************************************************************)
(* Ring mode.  sys_io_setup_rings installs the rings (it returns EBUSY     *)
(* when there are some); user code fills the submission ring and empties   *)
(* the completion ring in shared memory, without a system call.            *)
(***************************************************************************)
SetupRings(t) ==
    /\ MaySyscall(t, "setup_rings") /\ t \in Consumers /\ ~ring
    /\ ring' = TRUE
    /\ UNCHANGED <<queue, waiter, sq, cq, threads, inflight, tasks, nsub,
                   history>>

SqPush(t, kind) ==
    /\ MaySyscall(t, "ring_enter") /\ t \in Consumers /\ ring /\ nsub < MaxOps
    /\ nsub' = nsub + 1
    /\ sq' = Append(sq, [id |-> nsub + 1, kind |-> kind])
    /\ UNCHANGED <<queue, waiter, ring, cq, threads, inflight, tasks, history>>

CqPop(t) ==
    /\ MaySyscall(t, "ring_enter") /\ t \in Consumers /\ cq # <<>>
    /\ received' = Append(received, Head(cq))
    /\ cq' = Tail(cq)
    /\ UNCHANGED <<queue, waiter, ring, sq, threads, inflight, tasks, nsub,
                   posted, lost, late>>

(***************************************************************************)
(* sys_io_ring_enter.  Phase 1 processes up to to_submit entries of the    *)
(* submission ring and advances its head when it is done with them all     *)
(* (max holds how many); phase 2 flushes the kernel queue into the ring,   *)
(* ignoring that the ring may be full; phase 3 waits for min entries and   *)
(* flushes again after every wake-up.                                      *)
(***************************************************************************)
RingEnter(t, to_submit, min) ==
    LET count == IF to_submit < Len(sq) THEN to_submit ELSE Len(sq)
    IN /\ MaySyscall(t, "ring_enter") /\ t \in Consumers /\ ring
       /\ call' = [call EXCEPT ![t] = [InUser EXCEPT !.fn = "ring_submit",
                                         !.min = min, !.max = count]]
       /\ todo' = [todo EXCEPT ![t] = SubSeq(sq, 1, count)]
       /\ cpu' = t
       /\ UNCHANGED <<port, sched, inflight, tasks, nsub, history>>

\* Mutant: phase 3 does not flush the queue after a wake-up.
FlushNothing ==
    UNCHANGED <<cq, queue, lost>>

Flush ==
    LET room == CqEntries - Len(cq)
        n    == IF room < Len(queue) THEN room ELSE Len(queue)
    IN /\ cq' = cq \o SubSeq(queue, 1, n)
       /\ queue' = <<>>
       /\ lost' = lost \cup Range(SubSeq(queue, n + 1, Len(queue)))

RingLoop(t) ==
    /\ Flush
    /\ cpu' = None
    /\ IF Len(cq') >= call[t].min
         THEN /\ call' = [call EXCEPT ![t] = InUser]
              /\ UNCHANGED <<waiter, sched>>
         ELSE /\ WaitOnPort(t)
              /\ call' = [call EXCEPT ![t].fn = "ring_wait"]
    /\ UNCHANGED <<ring, todo, inflight, tasks, nsub, posted, received, late>>

RingSubmitted(t) ==
    /\ Resumes(t, "ring_submit") /\ todo[t] = <<>>
    /\ sq' = SubSeq(sq, call[t].max + 1, Len(sq))
    /\ RingLoop(t)

RingResumes(t) ==
    /\ Resumes(t, "ring_wait")
    /\ RingLoop(t)
    /\ UNCHANGED sq

-----------------------------------------------------------------------------
Init ==
    /\ queue = <<>> /\ waiter = None
    /\ ring = FALSE /\ sq = <<>> /\ cq = <<>>
    /\ sched = [t \in Threads |-> "Runnable"]
    /\ call = [t \in Threads |-> InUser]
    /\ todo = [t \in Threads |-> <<>>]
    /\ cpu = None
    /\ inflight = {}
    /\ tasks = [k \in Tasks |-> FreeTask]
    /\ nsub = 0
    /\ posted = <<>> /\ received = <<>> /\ lost = {} /\ late = {}
    /\ workload \in Workloads

(***************************************************************************)
(* The batches tried: of one and two entries, or, to keep a mix small that *)
(* says "one_entry", a single entry that a task completes.                 *)
(***************************************************************************)
Batches ==
    IF "one_entry" \in workload THEN {<<"simple">>}
    ELSE {<<k>> : k \in Kinds} \cup {<<"ready", k>> : k \in Kinds}

Sizes   == 0 .. 2

Returns(t) ==
    \/ ProcessSubmission(t)
    \/ SubmitReturns(t)
    \/ IoWaitResumes(t)
    \/ BlockingResumes(t)
    \/ RingSubmitted(t)
    \/ RingResumes(t)

UserStep(t) ==
    \/ \E kinds \in Batches : IoSubmit(t, kinds)
    \/ \E max \in Sizes \ {0}, min \in Sizes : IoWait(t, max, min)
    \/ \E max \in Sizes \ {0}, min \in Sizes, k \in Tasks :
          IoWaitTimed(t, max, min, k)
    \/ \E k \in Tasks : BlockingCall(t, k)
    \/ SetupRings(t)
    \/ \E kind \in Kinds : SqPush(t, kind)
    \/ CqPop(t)
    \/ \E n \in Sizes, min \in Sizes : RingEnter(t, n, min)

TaskStep(k) ==
    \/ DelayExpires(k)
    \/ DelayCancelled(k)
    \/ FutureStoresResult(k)
    \/ TaskUnblocks(k)

Next ==
    /\ \/ \E t \in Threads : Returns(t) \/ UserStep(t) \/ DeadlinePasses(t)
       \/ \E k \in Tasks : TaskStep(k)
       \/ \E e \in inflight : Complete(e)
    /\ UNCHANGED workload

Spec == Init /\ [][Next]_vars

(***************************************************************************)
(* Ready threads run (the scheduler's ReadyRuns, which holds for threads   *)
(* that nobody starves by donation), and so does the worker thread that is *)
(* in the middle of a task's poll: what follows the end of a delay or the  *)
(* storing of a result is the rest of that poll.  Nothing is assumed of    *)
(* user code, of when I/O completes, or of a task that waits to be polled  *)
(* again: the executor can lose its wake (executor.rs:167).                *)
(***************************************************************************)
Fairness ==
    /\ \A t \in Threads : WF_vars(Returns(t) /\ UNCHANGED workload)
    /\ \A k \in Tasks : WF_vars(TaskUnblocks(k) /\ UNCHANGED workload)

FairSpec == Spec /\ Fairness

-----------------------------------------------------------------------------
(***************************************************************************)
(* Types, and the bounds of the queue and the ring.                        *)
(***************************************************************************)
TypeOK ==
    /\ queue \in Seq(Completion) /\ Len(queue) <= MaxQueued
    /\ waiter \in Threads \cup {None}
    /\ ring \in BOOLEAN
    /\ sq \in Seq(Entry)
    /\ cq \in Seq(Completion) /\ Len(cq) <= CqEntries
    /\ sched \in [Threads -> {"Runnable", "Blocked"}]
    /\ call \in [Threads -> [fn : Fns, min : Nat, max : Nat,
                             task : Tasks \cup {None}, done : BOOLEAN]]
    /\ todo \in [Threads -> Seq(Entry)]
    /\ cpu \in Threads \cup {None}
    /\ inflight \subseteq Entry
    /\ tasks \in [Tasks -> [phase : {"free", "delay", "cancelled", "firing",
                                     "future", "stored"},
                            thread : Threads \cup {None}]]
    /\ nsub \in 0 .. MaxOps
    /\ posted \in Seq(Completion) /\ received \in Seq(Completion)
    /\ lost \subseteq Completion /\ late \subseteq Threads
    /\ workload \in Workloads

(***************************************************************************)
(* No wake-up is lost: a thread blocked in io_wait or io_ring_enter is the *)
(* registered waiter and what it waits for is not there; in ring mode no   *)
(* deferred completion is left in the kernel queue behind its back.  With  *)
(* one consumer per port; a second one would take over the waiter slot.    *)
(***************************************************************************)
NoLostWakeup ==
    \A t \in Threads :
        /\ Blocked(t, "io_wait") => waiter = t /\ Len(queue) < call[t].min
        /\ Blocked(t, "ring_wait") =>
              waiter = t /\ queue = <<>> /\ Len(cq) < call[t].min

(***************************************************************************)
(* A thread blocked with a timeout has a task that has yet to unblock it:  *)
(* a stale wake-up, or a task that fires early, would leave it asleep for  *)
(* ever, since io_wait spawns its task once and not on every turn.         *)
(***************************************************************************)
TimeoutStillComing ==
    \A t \in Threads :
        Blocked(t, "io_wait") /\ call[t].task # None =>
            \E k \in Tasks : tasks[k].thread = t
                             /\ tasks[k].phase \in {"delay", "firing"}

(***************************************************************************)
(* Every completion is in exactly one place: with user code, in the ring,  *)
(* in the kernel queue, or dropped because one of them was full.           *)
(***************************************************************************)
ExactlyOnce ==
    LET all == received \o cq \o queue
    IN /\ IsInjective(all)
       /\ Range(all) \cap lost = {}
       /\ Range(all) \cup lost = Range(posted)
       /\ IsInjective(posted)

(***************************************************************************)
(* User code gets completions in the order they were posted; in ring mode, *)
(* where a completion without data overtakes the kernel queue, the ones    *)
(* with data stay in order among themselves.                               *)
(***************************************************************************)
Ordered(c) == ~ring \/ c.deferred

Precedes(s, c, d) == \E i, j \in DOMAIN s : i < j /\ s[i] = c /\ s[j] = d

InPostOrder ==
    LET all == received \o cq \o queue
    IN \A c, d \in Range(all) :
          Ordered(c) /\ Ordered(d) /\ Precedes(all, c, d) => Precedes(posted, c, d)

(***************************************************************************)
(* blocking.rs: the result is there when the thread resumes (the expect    *)
(* "blocking: result missing after unblock").  The exception is an unblock *)
(* that was meant for an earlier call of the thread: a timer task that has *)
(* seen its deadline, or a post that finds the thread in the waiter slot   *)
(* which an expired io_wait left behind.  Without timed waits there is     *)
(* neither.                                                                *)
(***************************************************************************)
ResultThere ==
    \A t \in Threads :
        call[t].fn = "panicked" => t \in late /\ "timed_wait" \in workload

(***************************************************************************)
(* A thread in io_wait or io_ring_enter returns once there is enough for   *)
(* it.                                                                     *)
(***************************************************************************)
Enough(t) ==
    \/ call[t].fn = "io_wait" /\ Len(queue) >= call[t].min
    \/ /\ call[t].fn = "ring_wait"
       /\ Len(queue) + Len(cq) >= call[t].min /\ call[t].min <= CqEntries

WaitReturns == \A t \in Threads : Enough(t) ~> call[t].fn = "user"

(***************************************************************************)
(* A timed io_wait returns, with or without completions, once its timer    *)
(* task has been polled after the deadline.                                *)
(***************************************************************************)
TimerPolled(t) ==
    /\ call[t].fn = "io_wait" /\ call[t].task # None
    /\ tasks[call[t].task] = [phase |-> "firing", thread |-> t]

TimedWaitReturns == \A t \in Threads : TimerPolled(t) ~> call[t].fn = "user"
=============================================================================
