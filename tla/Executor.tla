------------------------------ MODULE Executor ------------------------------
(***************************************************************************)
(* The async executor of libkernel/src/task/executor.rs, run by several    *)
(* kernel threads at once, with the future that nearly all of its tasks    *)
(* wait on: timer::Delay (libkernel/src/task/timer.rs).                    *)
(*                                                                         *)
(* Workers run with interrupts enabled and can be preempted between any    *)
(* two critical sections, so each critical section is a step.  The timer   *)
(* interrupt is a step of its own.  Of the tick counter only its relation  *)
(* to a task's target matters: due holds the tasks whose target is past.   *)
(***************************************************************************)
EXTENDS Naturals, Sequences, FiniteSets, SequencesExt

CONSTANTS
    Workers,        \* kernel threads in run_worker
    Tasks,          \* tasks, each awaiting one Delay after another
    MaxDelays,      \* bound on the Delays one task awaits
    None,
    WAKE_SLOTS,     \* capacity of WAKE_QUEUE, 256 in the kernel
    MAX_WAKERS      \* slots of timer::WAKERS, 16 in the kernel

ASSUME ExecutorAssumption ==
    /\ None \notin Tasks
    /\ WAKE_SLOTS \in Nat \ {0} /\ MAX_WAKERS \in Nat \ {0}
    /\ MaxDelays \in Nat \ {0}

VARIABLES
    TASK_QUEUE,     \* tasks ready to be polled
    WAIT_MAP,       \* tasks that returned Pending
    WAKE_QUEUE,     \* ids whose wakers have fired
    WAKER_CACHE,    \* tasks with a cached waker
    DEFERRED_WAKES, \* wakes consumed while the task was in flight
    WAKERS,         \* wakers registered with the timer, by task
    due,            \* tasks whose delay is over
    delays,         \* Delays each task has begun to await
    spawned, done,
    pc,             \* where each worker is
    task,           \* the task it polls, None between polls
    woken           \* the id it took from WAKE_QUEUE, None once dealt with

queues == <<TASK_QUEUE, WAIT_MAP, WAKE_QUEUE, WAKER_CACHE, DEFERRED_WAKES>>
timer  == <<WAKERS, due, delays>>
worker == <<pc, task, woken>>
execVars == <<queues, timer, spawned, done, worker>>

At(w, label) == pc[w] = label

Goto(w, label) == pc' = [pc EXCEPT ![w] = label]

-----------------------------------------------------------------------------
(***************************************************************************)
(* spawn, and timer::tick: the interrupt takes every registered waker and  *)
(* wakes it, which drops the id silently when WAKE_QUEUE is full.          *)
(***************************************************************************)
SpawnTask(t) ==
    /\ t \notin spawned
    /\ spawned' = spawned \cup {t}
    /\ TASK_QUEUE' = Append(TASK_QUEUE, t)
    /\ UNCHANGED <<WAIT_MAP, WAKE_QUEUE, WAKER_CACHE, DEFERRED_WAKES, timer,
                   done, worker>>

Pushed(ids) ==
    LET all == WAKE_QUEUE \o ids
    IN IF Len(all) <= WAKE_SLOTS THEN all ELSE SubSeq(all, 1, WAKE_SLOTS)

Tick ==
    /\ WAKE_QUEUE' = Pushed(WAKERS)
    /\ WAKERS' = <<>>
    /\ \E S \in SUBSET (spawned \ done) : due' = due \cup S
    /\ UNCHANGED <<TASK_QUEUE, WAIT_MAP, WAKER_CACHE, DEFERRED_WAKES, delays,
                   spawned, done, worker>>

-----------------------------------------------------------------------------
(***************************************************************************)
(* wake_tasks: take an id; if its task waits, move it to the ready queue,  *)
(* else, if it has not completed, record a deferred wake.  It is called at *)
(* the top of run_worker's loop and after a poll that returned Pending,    *)
(* and run_ready_tasks follows it in either case.                          *)
(***************************************************************************)
WakePop(w) ==
    /\ At(w, "wake")
    /\ IF WAKE_QUEUE = <<>>
         THEN Goto(w, "run") /\ UNCHANGED <<WAKE_QUEUE, woken>>
         ELSE /\ Goto(w, "wake_look")
              /\ woken' = [woken EXCEPT ![w] = Head(WAKE_QUEUE)]
              /\ WAKE_QUEUE' = Tail(WAKE_QUEUE)
    /\ UNCHANGED <<TASK_QUEUE, WAIT_MAP, WAKER_CACHE, DEFERRED_WAKES, timer,
                   spawned, done, task>>

\* Mutant: a cached waker is taken to mean that the task is in flight.
WakeLookCached(w) ==
    /\ At(w, "wake_look")
    /\ Goto(w, IF woken[w] \in WAKER_CACHE THEN "wake_defer" ELSE "wake_push")
    /\ UNCHANGED <<queues, timer, spawned, done, task, woken>>

WakeLook(w) ==
    /\ At(w, "wake_look")
    /\ Goto(w, IF woken[w] \in WAIT_MAP THEN "wake_push" ELSE "wake_cache")
    /\ WAIT_MAP' = WAIT_MAP \ {woken[w]}
    /\ UNCHANGED <<TASK_QUEUE, WAKE_QUEUE, WAKER_CACHE, DEFERRED_WAKES, timer,
                   spawned, done, task, woken>>

WakePush(w) ==
    /\ At(w, "wake_push")
    /\ Goto(w, "wake")
    /\ TASK_QUEUE' = Append(TASK_QUEUE, woken[w])
    /\ woken' = [woken EXCEPT ![w] = None]
    /\ UNCHANGED <<WAIT_MAP, WAKE_QUEUE, WAKER_CACHE, DEFERRED_WAKES, timer,
                   spawned, done, task>>

WakeCache(w) ==
    /\ At(w, "wake_cache")
    /\ Goto(w, IF woken[w] \in WAKER_CACHE THEN "wake_defer" ELSE "wake")
    /\ woken' = [woken EXCEPT ![w] = IF @ \in WAKER_CACHE THEN @ ELSE None]
    /\ UNCHANGED <<queues, timer, spawned, done, task>>

WakeDefer(w) ==
    /\ At(w, "wake_defer")
    /\ Goto(w, "wake")
    /\ DEFERRED_WAKES' = DEFERRED_WAKES \cup {woken[w]}
    /\ woken' = [woken EXCEPT ![w] = None]
    /\ UNCHANGED <<TASK_QUEUE, WAIT_MAP, WAKE_QUEUE, WAKER_CACHE, timer,
                   spawned, done, task>>

-----------------------------------------------------------------------------
(***************************************************************************)
(* run_ready_tasks: take a task, cache its waker, poll it.                 *)
(***************************************************************************)
RunPop(w) ==
    /\ At(w, "run")
    /\ IF TASK_QUEUE = <<>>
         THEN Goto(w, "idle") /\ UNCHANGED <<TASK_QUEUE, task>>
         ELSE /\ Goto(w, "cache")
              /\ task' = [task EXCEPT ![w] = Head(TASK_QUEUE)]
              /\ TASK_QUEUE' = Tail(TASK_QUEUE)
    /\ UNCHANGED <<WAIT_MAP, WAKE_QUEUE, WAKER_CACHE, DEFERRED_WAKES, timer,
                   spawned, done, woken>>

RunCache(w) ==
    /\ At(w, "cache")
    /\ Goto(w, "poll")
    /\ WAKER_CACHE' = WAKER_CACHE \cup {task[w]}
    /\ UNCHANGED <<TASK_QUEUE, WAIT_MAP, WAKE_QUEUE, DEFERRED_WAKES, timer,
                   spawned, done, task, woken>>

(***************************************************************************)
(* Delay::poll: test the target, register the waker, test the target once  *)
(* more.  A registered waker stays behind when the second test succeeds.   *)
(* The panic happens with interrupts off and halts the machine.            *)
(***************************************************************************)
PollTest(w, before, after) ==
    /\ At(w, before)
    /\ Goto(w, IF task[w] \in due THEN "ready" ELSE after)
    /\ UNCHANGED <<queues, timer, spawned, done, task, woken>>

PollRegister(w) ==
    /\ At(w, "register") /\ Len(WAKERS) < MAX_WAKERS
    /\ Goto(w, "retest")
    /\ WAKERS' = Append(WAKERS, task[w])
    /\ UNCHANGED <<queues, due, delays, spawned, done, task, woken>>

PollPanics(w) ==
    /\ At(w, "register") /\ Len(WAKERS) >= MAX_WAKERS
    /\ Goto(w, "panic")
    /\ UNCHANGED <<queues, timer, spawned, done, task, woken>>

(***************************************************************************)
(* The Delay is over: the task ends there, or goes on, within the same     *)
(* poll, to await its next Delay, whose target is yet to come.             *)
(***************************************************************************)
NextDelay(w) ==
    /\ At(w, "ready") /\ delays[task[w]] < MaxDelays
    /\ Goto(w, "poll")
    /\ due' = due \ {task[w]}
    /\ delays' = [delays EXCEPT ![task[w]] = @ + 1]
    /\ UNCHANGED <<queues, WAKERS, spawned, done, task, woken>>

(***************************************************************************)
(* Poll::Ready: forget the cached waker, then any deferred wake.           *)
(***************************************************************************)
ReadyCache(w) ==
    /\ At(w, "ready")
    /\ Goto(w, "ready_deferred")
    /\ WAKER_CACHE' = WAKER_CACHE \ {task[w]}
    /\ UNCHANGED <<TASK_QUEUE, WAIT_MAP, WAKE_QUEUE, DEFERRED_WAKES, timer,
                   spawned, done, task, woken>>

ReadyDeferred(w) ==
    /\ At(w, "ready_deferred")
    /\ Goto(w, "run")
    /\ DEFERRED_WAKES' = DEFERRED_WAKES \ {task[w]}
    /\ done' = done \cup {task[w]}
    /\ task' = [task EXCEPT ![w] = None]
    /\ UNCHANGED <<TASK_QUEUE, WAIT_MAP, WAKE_QUEUE, WAKER_CACHE, timer,
                   spawned, woken>>

(***************************************************************************)
(* Poll::Pending: park the task, then look whether its wake has already    *)
(* been consumed; if so move it straight back to the ready queue.          *)
(***************************************************************************)
PendingInsert(w) ==
    /\ At(w, "pending")
    /\ Goto(w, "check")
    /\ WAIT_MAP' = WAIT_MAP \cup {task[w]}
    /\ UNCHANGED <<TASK_QUEUE, WAKE_QUEUE, WAKER_CACHE, DEFERRED_WAKES, timer,
                   spawned, done, task, woken>>

PendingCheck(w) ==
    /\ At(w, "check")
    /\ Goto(w, IF task[w] \in DEFERRED_WAKES THEN "requeue" ELSE "wake")
    /\ DEFERRED_WAKES' = DEFERRED_WAKES \ {task[w]}
    /\ task' = [task EXCEPT ![w] = IF @ \in DEFERRED_WAKES THEN @ ELSE None]
    /\ UNCHANGED <<TASK_QUEUE, WAIT_MAP, WAKE_QUEUE, WAKER_CACHE, timer,
                   spawned, done, woken>>

\* Mutant: that another worker may have moved the task is forgotten.
RequeueAnyway(w) ==
    /\ At(w, "requeue")
    /\ Goto(w, "run")
    /\ WAIT_MAP' = WAIT_MAP \ {task[w]}
    /\ TASK_QUEUE' = Append(TASK_QUEUE, task[w])
    /\ task' = [task EXCEPT ![w] = None]
    /\ UNCHANGED <<WAKE_QUEUE, WAKER_CACHE, DEFERRED_WAKES, timer, spawned,
                   done, woken>>

Requeue(w) ==
    /\ At(w, "requeue")
    /\ Goto(w, "run")
    /\ WAIT_MAP' = WAIT_MAP \ {task[w]}
    /\ TASK_QUEUE' = IF task[w] \in WAIT_MAP THEN Append(TASK_QUEUE, task[w])
                                             ELSE TASK_QUEUE
    /\ task' = [task EXCEPT ![w] = None]
    /\ UNCHANGED <<WAKE_QUEUE, WAKER_CACHE, DEFERRED_WAKES, timer, spawned,
                   done, woken>>

(***************************************************************************)
(* sleep_if_idle: HLT ends with the next interrupt, at the latest the next *)
(* tick, and the loop of run_worker starts over.                           *)
(***************************************************************************)
SleepIfIdle(w) ==
    /\ At(w, "idle")
    /\ Goto(w, "wake")
    /\ UNCHANGED <<queues, timer, spawned, done, task, woken>>

-----------------------------------------------------------------------------
ExecInit ==
    /\ TASK_QUEUE = <<>> /\ WAIT_MAP = {} /\ WAKE_QUEUE = <<>>
    /\ WAKER_CACHE = {} /\ DEFERRED_WAKES = {}
    /\ WAKERS = <<>> /\ due = {} /\ delays = [t \in Tasks |-> 1]
    /\ spawned = {} /\ done = {}
    /\ pc = [w \in Workers |-> "wake"]
    /\ task = [w \in Workers |-> None]
    /\ woken = [w \in Workers |-> None]

Wake(w) ==
    WakePop(w) \/ WakeLook(w) \/ WakePush(w) \/ WakeCache(w) \/ WakeDefer(w)

Poll(w) ==
    \/ PollTest(w, "poll", "register")
    \/ PollRegister(w)
    \/ PollPanics(w)
    \/ PollTest(w, "retest", "pending")
    \/ NextDelay(w)

Step(w) ==
    \/ Wake(w)
    \/ RunPop(w) \/ RunCache(w)
    \/ Poll(w)
    \/ ReadyCache(w) \/ ReadyDeferred(w)
    \/ PendingInsert(w) \/ PendingCheck(w) \/ Requeue(w)
    \/ SleepIfIdle(w)

Panicked == \E w \in Workers : At(w, "panic")

ExecNext ==
    /\ ~Panicked
    /\ \/ \E w \in Workers : Step(w)
       \/ \E t \in Tasks : SpawnTask(t)
       \/ Tick

ExecSpec == ExecInit /\ [][ExecNext]_execVars

(***************************************************************************)
(* Workers are threads that never block, so the scheduler runs them, and   *)
(* the timer is periodic.                                                  *)
(***************************************************************************)
ExecFairSpec ==
    /\ ExecSpec
    /\ WF_execVars(~Panicked /\ Tick)
    /\ \A w \in Workers : WF_execVars(~Panicked /\ Step(w))

-----------------------------------------------------------------------------
Labels == {"wake", "wake_look", "wake_push", "wake_cache", "wake_defer",
           "run", "cache", "poll", "register", "retest", "ready",
           "ready_deferred", "pending", "check", "requeue", "idle", "panic"}

(***************************************************************************)
(* Types, and the capacity of the lock-free queue.                         *)
(***************************************************************************)
ExecTypeOK ==
    /\ TASK_QUEUE \in Seq(Tasks)
    /\ WAKE_QUEUE \in Seq(Tasks) /\ Len(WAKE_QUEUE) <= WAKE_SLOTS
    /\ WAKERS \in Seq(Tasks) /\ Len(WAKERS) <= MAX_WAKERS
    /\ \A S \in {WAIT_MAP, WAKER_CACHE, DEFERRED_WAKES, due, spawned, done} :
          S \subseteq Tasks
    /\ delays \in [Tasks -> 1 .. MaxDelays]
    /\ pc \in [Workers -> Labels]
    /\ task \in [Workers -> Tasks \cup {None}]
    /\ woken \in [Workers -> Tasks \cup {None}]

(***************************************************************************)
(* A task that has been spawned and has not completed is in one place: the *)
(* ready queue, the wait map, or the hands of one worker.  Two workers     *)
(* never poll the same future, and none is dropped by a race.              *)
(***************************************************************************)
InHand(w) == pc[w] \in {"cache", "poll", "register", "retest", "ready",
                        "ready_deferred", "pending", "panic"}

Holders(t) ==
    {<<"queue", i>> : i \in {j \in DOMAIN TASK_QUEUE : TASK_QUEUE[j] = t}}
        \cup {<<"map", 0>> : x \in WAIT_MAP \cap {t}}
        \cup {<<"poll", w>> : w \in {v \in Workers : InHand(v) /\ task[v] = t}}
        \cup {<<"wake", w>> : w \in {v \in Workers : At(v, "wake_push")
                                                     /\ woken[v] = t}}

OnePlace ==
    \A t \in Tasks :
        Cardinality(Holders(t)) = IF t \in spawned \ done THEN 1 ELSE 0

(***************************************************************************)
(* A wake that is in the queue while its task waits is not lost: whichever *)
(* worker takes it, the task is polled again, unless the kernel panics.    *)
(***************************************************************************)
WokenIsPolled ==
    \A t \in Tasks :
        t \in WAIT_MAP \cap Range(WAKE_QUEUE)
            ~> (Panicked \/ \E w \in Workers : At(w, "poll") /\ task[w] = t)

(***************************************************************************)
(* executor.rs on DEFERRED_WAKES: a task whose wake was consumed while it  *)
(* was in flight is re-queued "without ever sleeping"; so a task whose     *)
(* delay is over goes on or completes, unless the kernel has panicked.     *)
(***************************************************************************)
DelaysEnd ==
    \A t \in Tasks :
        t \in due ~> (t \notin due \/ t \in done \/ Panicked)
=============================================================================
