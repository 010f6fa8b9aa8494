------------------------ MODULE CompletionPortProofs ------------------------
(***************************************************************************)
(* Safety of the completion port for any number of threads, tasks,         *)
(* operations and any capacities: no wake-up is lost, a timeout is always  *)
(* still to come, every completion is in one place and in its turn, and    *)
(* the result of blocking() is there.  The port has one waiter slot and    *)
(* one pair of rings, so all of these but the timeout and the result need  *)
(* that one thread waits on it.                                            *)
(***************************************************************************)
EXTENDS CompletionPort, QueueLemmas

OneConsumer == \A s, t \in Consumers : s = t

(***************************************************************************)
(* Only consumers wait on the port.                                        *)
(***************************************************************************)
CallsInv ==
    \A t \in Threads :
        call[t].fn \in {"io_wait", "ring_submit", "ring_wait"} => t \in Consumers

(***************************************************************************)
(* While a thread is blocked with a timeout, or its deadline is to come,   *)
(* its own task is on its way; one about to unblock has seen the deadline. *)
(***************************************************************************)
TimeoutInv ==
    \A t \in Threads, k \in Tasks :
        call[t].fn = "io_wait" /\ call[t].task = k =>
            /\ sched[t] = "Blocked" \/ ~call[t].done =>
                  tasks[k].thread = t /\ tasks[k].phase \in {"delay", "firing"}
            /\ tasks[k].thread = t /\ tasks[k].phase = "firing" => call[t].done

(***************************************************************************)
(* Without timeouts, whoever will unblock a thread in blocking() has       *)
(* stored the result: the waiter slot names a thread that waits on the     *)
(* port, and the only task of the thread is that of this call.             *)
(***************************************************************************)
NoTimeouts ==
    /\ waiter # None => /\ sched[waiter] = "Blocked"
                        /\ call[waiter].fn \in {"io_wait", "ring_wait"}
    /\ \A k \in Tasks : tasks[k].phase # "free" =>
          /\ tasks[k].phase \in {"future", "stored"}
          /\ tasks[k].thread \in Threads
          /\ Blocked(tasks[k].thread, "blocking")
          /\ call[tasks[k].thread].task = k
          /\ tasks[k].phase = "stored" => call[tasks[k].thread].done
    /\ \A t \in Threads :
          call[t].fn = "blocking" => sched[t] = "Blocked" \/ call[t].done

(***************************************************************************)
(* With or without timeouts: the task of a blocking() call is the last to  *)
(* leave it, and a thread that is awake in one has its result or was woken *)
(* by somebody else.                                                       *)
(***************************************************************************)
OwnInv ==
    /\ \A k \in Tasks, t \in Threads : tasks[k].thread = t =>
          /\ tasks[k].phase = "future" =>
                /\ call[t].fn \in {"blocking", "panicked"} /\ call[t].task = k
                /\ ~call[t].done
          /\ call[t].fn = "blocking" /\ call[t].task = k =>
                \/ tasks[k].phase = "future"
                \/ tasks[k].phase = "stored" /\ call[t].done
    /\ \A t \in Threads : call[t].fn = "blocking" =>
          /\ call[t].task \in Tasks
          /\ sched[t] = "Blocked" \/ call[t].done \/ t \in late

ResultInv ==
    /\ "timed_wait" \notin workload => NoTimeouts
    /\ OwnInv
    /\ ResultThere

(***************************************************************************)
(* A submission is on its way in one place: in the submission ring, in the *)
(* batch a system call works through, or in flight.  While io_ring_enter   *)
(* works through a batch the ring still holds that batch, which begins it. *)
(***************************************************************************)
Begun(t) == IF call[t].fn = "ring_submit" THEN call[t].max ELSE 0

SqIds == {sq[i].id : i \in {j \in DOMAIN sq : \A t \in Threads : j > Begun(t)}}

TodoIds(t) == {todo[t][i].id : i \in DOMAIN todo[t]}

InflightIds == {e.id : e \in inflight}

PostedIds == {c.id : c \in Range(posted)}

PendingInv ==
    /\ \A i, j \in DOMAIN sq : sq[i].id = sq[j].id => i = j
    /\ \A t \in Threads : \A i, j \in DOMAIN todo[t] :
          todo[t][i].id = todo[t][j].id => i = j
    /\ \A e, f \in inflight : e.id = f.id => e = f
    /\ \A s, t \in Threads : s # t => TodoIds(s) \cap TodoIds(t) = {}
    /\ \A t \in Threads : TodoIds(t) \cap (SqIds \cup InflightIds \cup PostedIds) = {}
    /\ SqIds \cap (InflightIds \cup PostedIds) = {}
    /\ InflightIds \cap PostedIds = {}
    /\ \A n \in SqIds \cup InflightIds \cup PostedIds : n <= nsub
    /\ \A t \in Threads : \A n \in TodoIds(t) : n <= nsub
    /\ \A i \in DOMAIN sq : sq[i].id <= nsub

(***************************************************************************)
(* A completion is in one place, and each was posted once.                 *)
(***************************************************************************)
OnceInv ==
    /\ IsInjective(received) /\ IsInjective(cq) /\ IsInjective(queue)
    /\ IsInjective(posted)
    /\ Range(received) \cap Range(cq) = {} /\ Range(received) \cap Range(queue) = {}
    /\ Range(cq) \cap Range(queue) = {}
    /\ (Range(received) \cup Range(cq) \cup Range(queue)) \cap lost = {}
    /\ Range(received) \cup Range(cq) \cup Range(queue) \cup lost = Range(posted)

-----------------------------------------------------------------------------
CallRecord == [fn : Fns, min : Nat, max : Nat, task : Tasks \cup {None},
               done : BOOLEAN]

(***************************************************************************)
(* The types of the variables, one by one.                                 *)
(***************************************************************************)
LEMMA Types ==
    ASSUME TypeOK
    PROVE  /\ queue \in Seq(Completion) /\ Len(queue) \in Nat /\ Len(queue) <= MaxQueued
           /\ waiter \in Threads \cup {None} /\ ring \in BOOLEAN
           /\ sq \in Seq(Entry) /\ Len(sq) \in Nat
           /\ cq \in Seq(Completion) /\ Len(cq) \in Nat /\ Len(cq) <= CqEntries
           /\ sched \in [Threads -> {"Runnable", "Blocked"}]
           /\ call \in [Threads -> CallRecord]
           /\ todo \in [Threads -> Seq(Entry)]
           /\ cpu \in Threads \cup {None} /\ inflight \subseteq Entry
           /\ tasks \in [Tasks -> [phase : {"free", "delay", "cancelled", "firing",
                                            "future", "stored"},
                                   thread : Threads \cup {None}]]
           /\ nsub \in 0 .. MaxOps /\ posted \in Seq(Completion)
           /\ received \in Seq(Completion) /\ lost \subseteq Completion
           /\ late \subseteq Threads /\ workload \in Workloads
BY LenProperties DEF TypeOK, CallRecord

(***************************************************************************)
(* The initial state of the port has the right types.                      *)
(***************************************************************************)
LEMMA TypesInit == Init => TypeOK
<1> SUFFICES ASSUME Init PROVE TypeOK
  OBVIOUS
<1>1. InUser \in CallRecord
  BY DEF InUser, CallRecord, Fns
<1>2. \A S : <<>> \in Seq(S) /\ Len(<<>>) = 0
  BY EmptySeq
<1>3. 0 <= MaxQueued /\ 0 <= CqEntries /\ 0 \in 0 .. MaxOps
  BY CompletionPortAssumption
<1> QED
  BY <1>1, <1>2, <1>3 DEF Init, TypeOK, CallRecord, FreeTask

(***************************************************************************)
(* CompletionPort::post stores within the bounds of queue and ring.        *)
(***************************************************************************)
LEMMA PostTypes ==
    ASSUME TypeOK, NEW c \in Completion, Post(c)
    PROVE  /\ queue' \in Seq(Completion) /\ Len(queue') <= MaxQueued
           /\ cq' \in Seq(Completion) /\ Len(cq') <= CqEntries
           /\ waiter' = None
           /\ sched' \in [Threads -> {"Runnable", "Blocked"}]
           /\ posted' \in Seq(Completion) /\ lost' \subseteq Completion
           /\ late' \subseteq Threads
<1> USE CompletionPortAssumption
<1>1. /\ Append(queue, c) \in Seq(Completion)
      /\ Len(Append(queue, c)) = Len(queue) + 1
      /\ Append(cq, c) \in Seq(Completion) /\ Len(Append(cq, c)) = Len(cq) + 1
      /\ Append(posted, c) \in Seq(Completion)
  BY Types, AppendProperties
<1>2. /\ waiter' = None
      /\ sched' \in [Threads -> {"Runnable", "Blocked"}]
      /\ late' \subseteq Threads
  BY Types DEF Post, WakeWaiter, Unblocked, LateWake
<1>3. /\ queue' \in Seq(Completion) /\ Len(queue') <= MaxQueued
      /\ cq' \in Seq(Completion) /\ Len(cq') <= CqEntries
      /\ lost' \subseteq Completion
  <2>1. /\ queue \in Seq(Completion) /\ Len(queue) \in Nat /\ Len(queue) <= MaxQueued
        /\ cq \in Seq(Completion) /\ Len(cq) \in Nat /\ Len(cq) <= CqEntries
        /\ lost \subseteq Completion
    BY Types
  <2>2. CASE cq' = Append(cq, c) /\ Len(cq) < CqEntries /\ UNCHANGED <<queue, lost>>
    BY <1>1, <2>1, <2>2
  <2>3. CASE queue' = Append(queue, c) /\ Len(queue) < MaxQueued
             /\ UNCHANGED <<cq, lost>>
    BY <1>1, <2>1, <2>3
  <2>4. CASE UNCHANGED <<queue, cq>> /\ lost' = lost \cup {c}
    BY <2>1, <2>4
  <2> QED
    BY <2>2, <2>3, <2>4 DEF Post, PostCqe, PushBack
<1> QED
  BY <1>1, <1>2, <1>3 DEF Post

(***************************************************************************)
(* The loop of sys_io_wait keeps the types.                                *)
(***************************************************************************)
LEMMA IoWaitLoopTypes ==
    ASSUME TypeOK, NEW t \in Threads, NEW c \in CallRecord,
           NEW ts \in [Tasks -> [phase : {"free", "delay", "cancelled", "firing",
                                         "future", "stored"},
                                thread : Threads \cup {None}]],
           IoWaitLoop(t, c, ts), workload' = workload
    PROVE  TypeOK'
<1> USE CompletionPortAssumption
<1>1. InUser \in CallRecord
  BY DEF InUser, CallRecord, Fns
<1>2. CASE IoWaitReady(c)
  <2> DEFINE n == IF c.max < Len(queue) THEN c.max ELSE Len(queue)
  <2>1. n \in 0 .. Len(queue)
    BY Types DEF CallRecord
  <2> HIDE DEF n
  <2>2. /\ SubSeq(queue, 1, n) \in Seq(Completion)
        /\ SubSeq(queue, n + 1, Len(queue)) \in Seq(Completion)
        /\ Len(SubSeq(queue, n + 1, Len(queue))) = Len(queue) - n
    BY <2>1, Types, SplitTypes
  <2>3. received \o SubSeq(queue, 1, n) \in Seq(Completion)
    BY <2>2, Types, ConcatProperties
  <2>4. /\ queue' \in Seq(Completion) /\ Len(queue') <= MaxQueued
        /\ received' \in Seq(Completion)
    <3>1. /\ received' = received \o SubSeq(queue, 1, n)
          /\ queue' = SubSeq(queue, n + 1, Len(queue))
      BY <1>2 DEF IoWaitLoop, Drain, n
    <3>2. Len(queue) \in Nat /\ Len(queue) <= MaxQueued
      BY Types
    <3> QED
      BY <3>1, <3>2, <2>1, <2>2, <2>3
  <2>5. tasks' \in [Tasks -> [phase : {"free", "delay", "cancelled", "firing",
                                      "future", "stored"},
                             thread : Threads \cup {None}]]
    BY <1>2 DEF IoWaitLoop, Cancelled
  <2>6. call' \in [Threads -> CallRecord]
    BY <1>1, <1>2, Types DEF IoWaitLoop
  <2>7. UNCHANGED <<waiter, sched, ring, sq, cq, todo, inflight, nsub, posted, lost,
                    late, workload>> /\ cpu' = None
    BY <1>2 DEF IoWaitLoop
  <2> QED
    BY <2>4, <2>5, <2>6, <2>7, Types DEF TypeOK, CallRecord
<1>3. CASE ~IoWaitReady(c)
  <2>1. UNCHANGED <<queue, received, ring, sq, cq, todo, inflight, nsub, posted, lost,
                    late, workload>> /\ cpu' = None /\ tasks' = ts
    BY <1>3 DEF IoWaitLoop
  <2>2. /\ waiter' = t
        /\ sched' \in [Threads -> {"Runnable", "Blocked"}]
        /\ call' \in [Threads -> CallRecord]
    <3>1. /\ waiter' = t /\ sched' = [sched EXCEPT ![t] = "Blocked"]
          /\ call' = [call EXCEPT ![t] = c]
      BY <1>3 DEF IoWaitLoop, WaitOnPort
    <3>2. /\ sched \in [Threads -> {"Runnable", "Blocked"}]
          /\ call \in [Threads -> CallRecord]
      BY Types
    <3> QED
      BY <3>1, <3>2
  <2> QED
    BY <2>1, <2>2, Types DEF TypeOK, CallRecord
<1> QED
  BY <1>2, <1>3

(***************************************************************************)
(* What sys_io_wait has noted when it first comes to its loop, without a   *)
(* timeout.                                                                *)
(***************************************************************************)
LEMMA IoWaitCall ==
    ASSUME NEW t \in Threads, NEW max \in Sizes \ {0}, NEW min \in Sizes,
           IoWait(t, max, min)
    PROVE  \E c \in CallRecord :
              c.fn = "io_wait" /\ c.task = None /\ IoWaitLoop(t, c, tasks)
<1> DEFINE c == [InUser EXCEPT !.fn = "io_wait", !.max = max,
                    !.min = IF min < max THEN min ELSE max]
<1>1. max \in Nat /\ (IF min < max THEN min ELSE max) \in Nat
  BY DEF Sizes
<1>2. c \in CallRecord /\ c.fn = "io_wait" /\ c.task = None
  BY <1>1 DEF CallRecord, InUser, Fns
<1>3. IoWaitLoop(t, c, tasks)
  BY DEF IoWait
<1> HIDE DEF c
<1> QED
  BY <1>2, <1>3

(***************************************************************************)
(* The same with a timeout: its task is under way.                         *)
(***************************************************************************)
LEMMA IoWaitTimedCall ==
    ASSUME NEW t \in Threads, NEW max \in Sizes \ {0}, NEW min \in Sizes,
           NEW k \in Tasks, IoWaitTimed(t, max, min, k)
    PROVE  \E c \in CallRecord :
              /\ c.fn = "io_wait" /\ c.task = k /\ ~c.done
              /\ IoWaitLoop(t, c, [tasks EXCEPT ![k] = [phase |-> "delay", thread |-> t]])
<1> DEFINE c == [InUser EXCEPT !.fn = "io_wait", !.max = max,
                    !.min = IF min < max THEN min ELSE max, !.task = k]
<1>1. max \in Nat /\ (IF min < max THEN min ELSE max) \in Nat
  BY DEF Sizes
<1>2. c \in CallRecord /\ c.fn = "io_wait" /\ c.task = k /\ ~c.done
  BY <1>1 DEF CallRecord, InUser, Fns
<1>3. IoWaitLoop(t, c, [tasks EXCEPT ![k] = [phase |-> "delay", thread |-> t]])
  BY DEF IoWaitTimed
<1> HIDE DEF c
<1> QED
  BY <1>2, <1>3

(***************************************************************************)
(* Flushing the kernel queue fills the ring up to its capacity, no further.*)
(***************************************************************************)
LEMMA FlushTypes ==
    ASSUME TypeOK, Flush
    PROVE  /\ cq' \in Seq(Completion) /\ Len(cq') <= CqEntries /\ Len(cq') \in Nat
           /\ queue' = <<>> /\ lost' \subseteq Completion
<1> DEFINE room == CqEntries - Len(cq)
           n == IF room < Len(queue) THEN room ELSE Len(queue)
<1>1. /\ queue \in Seq(Completion) /\ Len(queue) \in Nat
      /\ cq \in Seq(Completion) /\ Len(cq) \in Nat /\ Len(cq) <= CqEntries
      /\ CqEntries \in Nat /\ lost \subseteq Completion
  BY Types, CompletionPortAssumption
<1>2. room \in Nat /\ n \in 0 .. Len(queue) /\ n <= CqEntries - Len(cq)
  BY <1>1
<1>3. /\ cq' = cq \o SubSeq(queue, 1, n) /\ queue' = <<>>
      /\ lost' = lost \cup Range(SubSeq(queue, n + 1, Len(queue)))
  BY DEF Flush
<1> HIDE DEF n, room
<1>4. /\ SubSeq(queue, 1, n) \in Seq(Completion) /\ Len(SubSeq(queue, 1, n)) = n
      /\ SubSeq(queue, n + 1, Len(queue)) \in Seq(Completion)
  BY <1>1, <1>2, SplitTypes
<1>5. cq' \in Seq(Completion) /\ Len(cq') = Len(cq) + n
  BY <1>1, <1>3, <1>4, ConcatProperties
<1>6. Range(SubSeq(queue, n + 1, Len(queue))) \subseteq Completion
  BY <1>4, RangeOfSeq
<1> QED
  BY <1>1, <1>2, <1>3, <1>5, <1>6

(***************************************************************************)
(* The batch of entries a system call starts with.                         *)
(***************************************************************************)
LEMMA BatchTypes ==
    ASSUME NEW kinds \in Batches, nsub \in 0 .. MaxOps, nsub + Len(kinds) <= MaxOps
    PROVE  /\ Len(kinds) \in 1 .. 2
           /\ Batch(kinds) \in Seq(Entry) /\ Len(Batch(kinds)) = Len(kinds)
           /\ \A i \in 1 .. Len(kinds) : Batch(kinds)[i].id = nsub + i
<1>1. kinds \in Seq(Kinds) /\ Len(kinds) \in 1 .. 2
  <2>1. ASSUME NEW k \in Kinds, kinds = <<k>>
        PROVE  kinds \in Seq(Kinds) /\ Len(kinds) \in 1 .. 2
    BY <2>1
  <2>2. ASSUME NEW k \in Kinds, kinds = <<"ready", k>>
        PROVE  kinds \in Seq(Kinds) /\ Len(kinds) \in 1 .. 2
    <3>1. "ready" \in Kinds
      BY DEF Kinds
    <3> QED
      BY <2>2, <3>1
  <2> QED
    <3>1. "simple" \in Kinds
      BY DEF Kinds
    <3> QED
      BY <2>1, <2>2, <3>1 DEF Batches
<1>2. \A i \in 1 .. Len(kinds) : /\ kinds[i] \in Kinds
                                 /\ nsub + i \in 1 .. MaxOps
  BY <1>1, ElementOfSeq, CompletionPortAssumption
<1>3. Batch(kinds) \in [1 .. Len(kinds) -> Entry]
  BY <1>2 DEF Batch, Entry
<1>4. Batch(kinds) \in Seq(Entry)
  BY <1>1, <1>3, SeqDef
<1>5. Len(Batch(kinds)) = Len(kinds)
  BY <1>1, <1>3, <1>4, LenProperties
<1> QED
  BY <1>1, <1>4, <1>5 DEF Batch

(***************************************************************************)
(* Every step of the port and its users keeps the types.                   *)
(***************************************************************************)
LEMMA TypesKept == TypeOK /\ [Next]_vars => TypeOK'
<1> SUFFICES ASSUME TypeOK, [Next]_vars PROVE TypeOK'
  OBVIOUS
<1> USE CompletionPortAssumption
<1>a. /\ InUser \in CallRecord /\ \A f \in Fns : [InUser EXCEPT !.fn = f] \in CallRecord
      /\ \A c \in CallRecord, f \in Fns : [c EXCEPT !.fn = f] \in CallRecord
      /\ \A c \in CallRecord : [c EXCEPT !.done = TRUE] \in CallRecord
  BY DEF InUser, CallRecord, Fns
<1>b. \A e \in Entry : CompletionOf(e) \in Completion
  BY DEF CompletionOf, Entry, Completion
<1>1. CASE UNCHANGED vars
  BY <1>1, Types DEF vars, port, threads, history, TypeOK, CallRecord
<1>2. ASSUME NEW e \in inflight, Complete(e), workload' = workload PROVE TypeOK'
  <2>1. e \in Entry
    BY Types
  <2>2. Post(CompletionOf(e)) /\ CompletionOf(e) \in Completion
    BY <1>2, <1>b, <2>1 DEF Complete
  <2> QED
    BY <1>2, <2>2, Types, PostTypes DEF Complete, TypeOK, CallRecord
<1>3. ASSUME NEW t \in Threads, Returns(t), workload' = workload PROVE TypeOK'
  <2>1. CASE ProcessSubmission(t)
    <3> DEFINE e == Head(todo[t])
    <3>1. e \in Entry /\ Tail(todo[t]) \in Seq(Entry)
      BY <2>1, Types, HeadTailProperties DEF ProcessSubmission
    <3>2. todo' \in [Threads -> Seq(Entry)] /\ cpu' \in Threads \cup {None}
      BY <2>1, <3>1, Types DEF ProcessSubmission
    <3>3. UNCHANGED <<ring, sq, call, tasks, nsub, received>>
      BY <2>1 DEF ProcessSubmission
    <3>4. CASE e.kind \in {"ready", "ready_data", "error"}
      <4>1. /\ Post(CompletionOf(e)) /\ CompletionOf(e) \in Completion
            /\ UNCHANGED inflight
        BY <1>b, <2>1, <3>1, <3>4 DEF ProcessSubmission
      <4> HIDE DEF e
      <4> QED
        BY <1>3, <3>2, <3>3, <4>1, Types, PostTypes DEF TypeOK, CallRecord
    <3>5. CASE e.kind \notin {"ready", "ready_data", "error"}
      <4>1. /\ inflight' = inflight \cup {e}
            /\ UNCHANGED <<queue, waiter, cq, sched, posted, lost, late>>
        BY <2>1, <3>5 DEF ProcessSubmission
      <4> HIDE DEF e
      <4> QED
        BY <1>3, <3>1, <3>2, <3>3, <4>1, Types DEF TypeOK, CallRecord
    <3> QED
      BY <3>4, <3>5
  <2>2. CASE SubmitReturns(t)
    BY <1>a, <1>3, <2>2, Types
       DEF SubmitReturns, port, history, TypeOK, CallRecord
  <2>3. CASE IoWaitResumes(t)
    BY <1>3, <2>3, Types, IoWaitLoopTypes DEF IoWaitResumes
  <2>4. CASE BlockingResumes(t)
    <3>1. call' \in [Threads -> CallRecord]
      BY <1>a, <2>4, Types DEF BlockingResumes, Fns
    <3> QED
      BY <1>3, <2>4, <3>1, Types DEF BlockingResumes, port, history, TypeOK, CallRecord
  <2>5. CASE RingSubmitted(t) \/ RingResumes(t)
    <3>1. RingLoop(t) /\ Flush
      BY <2>5 DEF RingSubmitted, RingResumes, RingLoop
    <3>2. sq' \in Seq(Entry)
      <4>1. CASE RingSubmitted(t)
        <5> DEFINE m == call[t].max
        <5>1. m \in Nat /\ sq \in Seq(Entry) /\ Len(sq) \in Nat
          BY Types DEF CallRecord
        <5>2. \A i \in (m + 1) .. Len(sq) : sq[i] \in Entry
          BY <5>1, ElementOfSeq
        <5> HIDE DEF m
        <5>3. SubSeq(sq, m + 1, Len(sq)) \in Seq(Entry)
          BY <5>1, <5>2, SubSeqProperties
        <5> QED
          BY <4>1, <5>3 DEF RingSubmitted, m
      <4>2. CASE RingResumes(t)
        BY <4>2, Types DEF RingResumes
      <4> QED
        BY <2>5, <4>1, <4>2
    <3>3. /\ waiter' \in Threads \cup {None}
          /\ sched' \in [Threads -> {"Runnable", "Blocked"}]
          /\ call' \in [Threads -> CallRecord]
      <4>1. /\ waiter \in Threads \cup {None}
            /\ sched \in [Threads -> {"Runnable", "Blocked"}]
            /\ call \in [Threads -> CallRecord]
        BY Types
      <4>2. CASE Len(cq') >= call[t].min
        BY <3>1, <4>1, <4>2, <1>a DEF RingLoop
      <4>3. CASE ~(Len(cq') >= call[t].min)
        <5>1. "ring_wait" \in Fns
          BY DEF Fns
        <5> QED
          BY <3>1, <4>1, <4>3, <5>1, <1>a DEF RingLoop, WaitOnPort
      <4> QED
        BY <4>2, <4>3
    <3>4. /\ UNCHANGED <<ring, todo, inflight, tasks, nsub, posted, received, late>>
          /\ cpu' = None
      BY <3>1 DEF RingLoop
    <3>5. queue' \in Seq(Completion) /\ Len(queue') <= MaxQueued
      BY <3>1, FlushTypes, EmptySeq
    <3> QED
      BY <1>3, <3>1, <3>2, <3>3, <3>4, <3>5, Types, FlushTypes DEF TypeOK, CallRecord
  <2> QED
    BY <1>3, <2>1, <2>2, <2>3, <2>4, <2>5 DEF Returns
<1>4. ASSUME NEW t \in Threads, UserStep(t), workload' = workload PROVE TypeOK'
  <2>1. ASSUME NEW kinds \in Batches, IoSubmit(t, kinds) PROVE TypeOK'
    <3>1. nsub \in 0 .. MaxOps /\ nsub + Len(kinds) <= MaxOps
      BY <2>1, Types DEF IoSubmit
    <3>2. nsub' \in 0 .. MaxOps /\ todo' \in [Threads -> Seq(Entry)]
      BY SMTT(30), <2>1, <3>1, Types, BatchTypes DEF IoSubmit
    <3>3. call' \in [Threads -> CallRecord]
      BY <2>1, <1>a, Types DEF IoSubmit, Fns
    <3> QED
      BY <1>4, <2>1, <3>2, <3>3, Types DEF IoSubmit, port, history, TypeOK, CallRecord
  <2>2. ASSUME NEW max \in Sizes \ {0}, NEW min \in Sizes, IoWait(t, max, min)
        PROVE  TypeOK'
    <3>1. PICK c \in CallRecord : IoWaitLoop(t, c, tasks)
      BY <2>2, IoWaitCall
    <3> QED
      BY <1>4, <3>1, Types, IoWaitLoopTypes
  <2>3. ASSUME NEW max \in Sizes \ {0}, NEW min \in Sizes, NEW k \in Tasks,
               IoWaitTimed(t, max, min, k)
        PROVE  TypeOK'
    <3> DEFINE ts == [tasks EXCEPT ![k] = [phase |-> "delay", thread |-> t]]
    <3>1. PICK c \in CallRecord : IoWaitLoop(t, c, ts)
      BY <2>3, IoWaitTimedCall
    <3>2. ts \in [Tasks -> [phase : {"free", "delay", "cancelled", "firing",
                                    "future", "stored"},
                           thread : Threads \cup {None}]]
      BY Types
    <3> HIDE DEF ts
    <3> QED
      BY <1>4, <3>1, <3>2, IoWaitLoopTypes
  <2>4. ASSUME NEW k \in Tasks, BlockingCall(t, k) PROVE TypeOK'
    <3>1. [InUser EXCEPT !.fn = "blocking", !.task = k] \in CallRecord
      BY DEF CallRecord, InUser, Fns
    <3>2. /\ call' \in [Threads -> CallRecord]
          /\ sched' \in [Threads -> {"Runnable", "Blocked"}]
      BY <2>4, <3>1, Types DEF BlockingCall
    <3>3. tasks' \in [Tasks -> [phase : {"free", "delay", "cancelled", "firing",
                                        "future", "stored"},
                               thread : Threads \cup {None}]]
      BY <2>4, Types DEF BlockingCall
    <3> QED
      BY <1>4, <2>4, <3>2, <3>3, Types
         DEF BlockingCall, port, history, TypeOK, CallRecord
  <2>5. CASE SetupRings(t)
    BY <1>4, <2>5, Types DEF SetupRings, threads, history, TypeOK, CallRecord
  <2>6. ASSUME NEW kind \in Kinds, SqPush(t, kind) PROVE TypeOK'
    <3>1. nsub' \in 0 .. MaxOps /\ [id |-> nsub + 1, kind |-> kind] \in Entry
      BY SMTT(30), <2>6, Types DEF SqPush, Entry
    <3>2. sq' \in Seq(Entry)
      BY <2>6, <3>1, Types, AppendProperties DEF SqPush
    <3> QED
      BY <1>4, <2>6, <3>1, <3>2, Types DEF SqPush, threads, history, TypeOK, CallRecord
  <2>7. CASE CqPop(t)
    <3>1. /\ Head(cq) \in Completion /\ Tail(cq) \in Seq(Completion)
          /\ Len(Tail(cq)) <= CqEntries
      BY <2>7, Types, HeadTailProperties DEF CqPop
    <3>2. Append(received, Head(cq)) \in Seq(Completion)
      BY <3>1, Types, AppendProperties
    <3> QED
      BY <1>4, <2>7, <3>1, <3>2, Types DEF CqPop, threads, TypeOK, CallRecord
  <2>8. ASSUME NEW n \in Sizes, NEW min \in Sizes, RingEnter(t, n, min)
        PROVE  TypeOK'
    <3> DEFINE count == IF n < Len(sq) THEN n ELSE Len(sq)
    <3>1. count \in 0 .. Len(sq)
      BY Types DEF Sizes
    <3>2. [InUser EXCEPT !.fn = "ring_submit", !.min = min, !.max = count]
             \in CallRecord
      <4>1. count \in Nat /\ min \in Nat
        BY <3>1, Types DEF Sizes
      <4> QED
        BY <4>1 DEF CallRecord, InUser, Fns
    <3>3. SubSeq(sq, 1, count) \in Seq(Entry)
      <4> HIDE DEF count
      <4> QED
        BY <3>1, Types, SplitTypes
    <3>4. call' \in [Threads -> CallRecord] /\ todo' \in [Threads -> Seq(Entry)]
      BY <2>8, <3>2, <3>3, Types DEF RingEnter
    <3> QED
      BY <1>4, <2>8, <3>4, Types DEF RingEnter, port, history, TypeOK, CallRecord
  <2> QED
    BY <1>4, <2>1, <2>2, <2>3, <2>4, <2>5, <2>6, <2>7, <2>8 DEF UserStep
<1>5. ASSUME NEW t \in Threads, DeadlinePasses(t), workload' = workload PROVE TypeOK'
  <2>1. call' \in [Threads -> CallRecord]
    BY <1>5, <1>a, Types DEF DeadlinePasses
  <2> QED
    BY <1>5, <2>1, Types DEF DeadlinePasses, port, history, TypeOK, CallRecord
<1>6. ASSUME NEW k \in Tasks, TaskStep(k), workload' = workload PROVE TypeOK'
  <2> DEFINE TaskRecord == [phase : {"free", "delay", "cancelled", "firing", "future",
                                    "stored"},
                           thread : Threads \cup {None}]
  <2>0. /\ tasks \in [Tasks -> TaskRecord] /\ FreeTask \in TaskRecord
        /\ [tasks[k] EXCEPT !.phase = "firing"] \in TaskRecord
        /\ [tasks[k] EXCEPT !.phase = "stored"] \in TaskRecord
    BY Types DEF FreeTask
  <2>1. CASE DelayExpires(k) \/ DelayCancelled(k)
    <3>1. tasks' \in [Tasks -> TaskRecord]
      BY <2>0, <2>1 DEF DelayExpires, DelayCancelled
    <3> QED
      BY <1>6, <2>1, <3>1, Types DEF DelayExpires, DelayCancelled, port, threads,
         history, TypeOK, CallRecord
  <2>2. CASE FutureStoresResult(k)
    <3>1. call' \in [Threads -> CallRecord]
      BY <2>2, <1>a, Types DEF FutureStoresResult
    <3>2. tasks' \in [Tasks -> TaskRecord]
      BY <2>0, <2>2 DEF FutureStoresResult
    <3> QED
      BY <1>6, <2>2, <3>1, <3>2, Types
         DEF FutureStoresResult, port, history, TypeOK, CallRecord
  <2>3. CASE TaskUnblocks(k)
    <3>1. late' \subseteq Threads /\ tasks' \in [Tasks -> TaskRecord]
      BY <2>0, <2>3, Types DEF TaskUnblocks, LateWake
    <3> QED
      BY <1>6, <2>3, <3>1, Types DEF TaskUnblocks, Unblocked, port, TypeOK, CallRecord
  <2> QED
    BY <1>6, <2>1, <2>2, <2>3 DEF TaskStep
<1> QED
  BY <1>1, <1>2, <1>3, <1>4, <1>5, <1>6 DEF Next

-----------------------------------------------------------------------------
(***************************************************************************)
(* scheduler::unblock makes its thread runnable and touches no other.      *)
(***************************************************************************)
LEMMA UnblockedThread ==
    ASSUME TypeOK, NEW t, NEW s \in Threads
    PROVE  Unblocked(t)[s] = IF s = t THEN "Runnable" ELSE sched[s]
BY Types DEF Unblocked

(***************************************************************************)
(* post takes the waiter, whatever becomes of the completion.              *)
(***************************************************************************)
LEMMA PostWakes ==
    ASSUME TypeOK, NEW c, Post(c), NEW s \in Threads
    PROVE  waiter' = None /\ sched'[s] = IF s = waiter THEN "Runnable" ELSE sched[s]
<1>1. waiter' = None /\ sched' = IF waiter = None THEN sched ELSE Unblocked(waiter)
  BY DEF Post, WakeWaiter
<1>2. None \notin Threads
  BY CompletionPortAssumption
<1> QED
  BY <1>1, <1>2, UnblockedThread

(***************************************************************************)
(* Nobody but a consumer enters io_wait or io_ring_enter.                  *)
(***************************************************************************)
LEMMA CallsKept == TypeOK /\ CallsInv /\ [Next]_vars => CallsInv'
<1> SUFFICES ASSUME TypeOK, CallsInv, [Next]_vars PROVE CallsInv'
  OBVIOUS
<1>0. call \in [Threads -> CallRecord]
  BY Types
<1>1. CASE UNCHANGED call
  BY <1>1 DEF CallsInv
<1>2. ASSUME NEW t \in Threads, NEW c, call' = [call EXCEPT ![t] = c],
             c.fn \in {"io_wait", "ring_submit", "ring_wait"} => t \in Consumers
      PROVE  CallsInv'
  BY <1>0, <1>2 DEF CallsInv
<1>3. ASSUME NEW t \in Threads, Returns(t) PROVE CallsInv'
  <2>1. CASE ProcessSubmission(t)
    BY <2>1, <1>1 DEF ProcessSubmission
  <2>2. CASE SubmitReturns(t)
    BY <2>2, <1>2 DEF SubmitReturns, InUser
  <2>3. CASE IoWaitResumes(t)
    <3>1. t \in Consumers
      BY <2>3 DEF IoWaitResumes, Resumes, CallsInv
    <3> QED
      BY <2>3, <3>1, <1>2 DEF IoWaitResumes, IoWaitLoop
  <2>4. CASE BlockingResumes(t)
    <3>1. [call[t] EXCEPT !.fn = "panicked"].fn = "panicked"
      BY <1>0 DEF CallRecord
    <3>2. call' = [call EXCEPT ![t] = IF call[t].done THEN InUser
                                      ELSE [call[t] EXCEPT !.fn = "panicked"]]
      BY <2>4, <1>0 DEF BlockingResumes
    <3>3. InUser.fn = "user"
      BY DEF InUser
    <3> QED
      BY <3>1, <3>2, <3>3, <1>2
  <2>5. CASE RingSubmitted(t) \/ RingResumes(t)
    <3>1. t \in Consumers /\ RingLoop(t)
      BY <2>5 DEF RingSubmitted, RingResumes, Resumes, CallsInv
    <3>2. \E c : call' = [call EXCEPT ![t] = c]
      BY <3>1 DEF RingLoop
    <3> QED
      BY <3>1, <3>2, <1>2
  <2> QED
    BY <1>3, <2>1, <2>2, <2>3, <2>4, <2>5 DEF Returns
<1>4. ASSUME NEW t \in Threads, UserStep(t) PROVE CallsInv'
  <2>1. CASE \E kinds \in Batches : IoSubmit(t, kinds)
    <3>1. call' = [call EXCEPT ![t] = [call[t] EXCEPT !.fn = "submit"]]
      BY <2>1, <1>0 DEF IoSubmit
    <3>2. [call[t] EXCEPT !.fn = "submit"].fn = "submit"
      BY <1>0 DEF CallRecord
    <3> QED
      BY <3>1, <3>2, <1>2
  <2>2. CASE t \in Consumers /\ \E c : call' = [call EXCEPT ![t] = c]
    BY <2>2, <1>2
  <2>3. ASSUME NEW k \in Tasks, BlockingCall(t, k) PROVE CallsInv'
    BY <2>3, <1>2 DEF BlockingCall, InUser
  <2>4. CASE UNCHANGED call
    BY <2>4, <1>1
  <2> QED
    BY ZenonT(40), <1>4, <2>1, <2>2, <2>3, <2>4 DEF UserStep, IoWait, IoWaitTimed, IoWaitLoop,
       SetupRings, SqPush, CqPop, RingEnter, threads
<1>5. ASSUME NEW t \in Threads, DeadlinePasses(t) PROVE CallsInv'
  BY <1>0, <1>5 DEF DeadlinePasses, CallsInv, CallRecord
<1>6. ASSUME NEW k \in Tasks, TaskStep(k) PROVE CallsInv'
  BY <1>0, <1>6, <1>1 DEF TaskStep, DelayExpires, DelayCancelled, TaskUnblocks,
     FutureStoresResult, threads, CallsInv, CallRecord
<1>7. ASSUME NEW e \in inflight, Complete(e) PROVE CallsInv'
  BY <1>7, <1>1 DEF Complete
<1> QED
  BY <1>1, <1>3, <1>4, <1>5, <1>6, <1>7 DEF Next, vars, threads

(***************************************************************************)
(* No step loses a wake-up: a post unblocks whoever waits, a wait begins   *)
(* with the condition false, and nobody else can touch the waiter slot.    *)
(***************************************************************************)
LEMMA WakeupKept ==
    ASSUME OneConsumer, TypeOK, CallsInv, NoLostWakeup, [Next]_vars
    PROVE  NoLostWakeup'
<1>0. /\ call \in [Threads -> CallRecord] /\ sched \in [Threads -> {"Runnable", "Blocked"}]
      /\ Len(queue) \in Nat /\ Len(cq) \in Nat /\ cq \in Seq(Completion)
      /\ None \notin Threads /\ Consumers \subseteq Threads
  BY Types, CompletionPortAssumption
<1>a. \A t \in Threads : call[t].min \in Nat
  BY <1>0 DEF CallRecord
<1>b. \A t \in Consumers, s \in Threads :
         call[s].fn \in {"io_wait", "ring_wait"} => s = t
  BY DEF OneConsumer, CallsInv
<1>1. ASSUME UNCHANGED <<queue, waiter, cq, sched>>,
             \A s \in Threads : call'[s].fn \in {"io_wait", "ring_wait"} =>
                 call'[s].fn = call[s].fn /\ call'[s].min = call[s].min
      PROVE  NoLostWakeup'
  BY <1>1 DEF NoLostWakeup, Blocked
<1>2. ASSUME NEW c, Post(c), UNCHANGED call PROVE NoLostWakeup'
  BY <1>2, PostWakes DEF NoLostWakeup, Blocked
<1>3. ASSUME NEW t \in Consumers, NEW c \in CallRecord, NEW ts, c.fn = "io_wait",
             IoWaitLoop(t, c, ts)
      PROVE  NoLostWakeup'
  <2>1. ASSUME NEW s \in Threads, s # t
        PROVE  call'[s] = call[s] /\ call[s].fn \notin {"io_wait", "ring_wait"}
    BY <1>0, <1>b, <1>3, <2>1 DEF IoWaitLoop
  <2>2. CASE IoWaitReady(c)
    <3>1. call'[t].fn = "user"
      BY <1>0, <1>3, <2>2 DEF IoWaitLoop, InUser
    <3> QED
      BY <2>1, <3>1 DEF NoLostWakeup, Blocked
  <2>3. CASE ~IoWaitReady(c)
    <3>1. call'[t] = c /\ waiter' = t /\ queue' = queue
      BY <1>0, <1>3, <2>3 DEF IoWaitLoop, WaitOnPort
    <3>2. Len(queue) < c.min
      BY <1>0, <2>3 DEF IoWaitReady, CallRecord
    <3> QED
      BY <1>3, <2>1, <3>1, <3>2 DEF NoLostWakeup, Blocked
  <2> QED
    BY <2>2, <2>3
<1>4. ASSUME NEW t \in Consumers, RingLoop(t) PROVE NoLostWakeup'
  <2>1. ASSUME NEW s \in Threads, s # t
        PROVE  call'[s] = call[s] /\ call[s].fn \notin {"io_wait", "ring_wait"}
    BY <1>0, <1>b, <1>4, <2>1 DEF RingLoop
  <2>2. queue' = <<>> /\ Len(cq') \in Nat
    BY <1>4, FlushTypes DEF RingLoop
  <2>3. CASE Len(cq') >= call[t].min
    <3>1. call'[t].fn = "user"
      BY <1>0, <1>4, <2>3 DEF RingLoop, InUser
    <3> QED
      BY <2>1, <3>1 DEF NoLostWakeup, Blocked
  <2>4. CASE ~(Len(cq') >= call[t].min)
    <3>1. waiter' = t /\ call'[t].fn = "ring_wait" /\ call'[t].min = call[t].min
      <4>1. waiter' = t /\ call' = [call EXCEPT ![t] = [call[t] EXCEPT !.fn = "ring_wait"]]
        BY <1>0, <1>4, <2>4 DEF RingLoop, WaitOnPort
      <4>2. t \in Threads /\ call[t] \in CallRecord
        BY <1>0
      <4>3. call'[t] = [call[t] EXCEPT !.fn = "ring_wait"]
        BY <1>0, <4>1, <4>2
      <4> QED
        BY <4>1, <4>2, <4>3 DEF CallRecord
    <3>2. Len(cq') < call[t].min
      BY <1>a, <2>2, <2>4, <1>0
    <3> QED
      BY <2>1, <2>2, <3>1, <3>2 DEF NoLostWakeup, Blocked
  <2> QED
    BY <2>3, <2>4
<1>5. ASSUME NEW t \in Threads, Returns(t) PROVE NoLostWakeup'
  <2>1. CASE ProcessSubmission(t)
    BY <1>1, <1>2, <2>1 DEF ProcessSubmission
  <2>2. CASE SubmitReturns(t)
    BY <1>0, <1>1, <2>2 DEF SubmitReturns, port, InUser
  <2>3. CASE IoWaitResumes(t)
    <3>1. t \in Consumers /\ call[t].fn = "io_wait"
      BY <2>3 DEF IoWaitResumes, Resumes, CallsInv
    <3> QED
      BY <1>0, <1>3, <2>3, <3>1 DEF IoWaitResumes
  <2>4. CASE BlockingResumes(t)
    <3>1. call'[t].fn \in {"user", "panicked"}
      BY <1>0, <2>4 DEF BlockingResumes, InUser, CallRecord
    <3> QED
      BY <1>0, <1>1, <2>4, <3>1 DEF BlockingResumes, port
  <2>5. CASE RingSubmitted(t) \/ RingResumes(t)
    BY <2>5, <1>4 DEF RingSubmitted, RingResumes, Resumes, CallsInv
  <2> QED
    BY <1>5, <2>1, <2>2, <2>3, <2>4, <2>5 DEF Returns
<1>6. ASSUME NEW t \in Threads, UserStep(t) PROVE NoLostWakeup'
  <2>1. ASSUME NEW kinds \in Batches, IoSubmit(t, kinds) PROVE NoLostWakeup'
    <3>1. call'[t].fn = "submit"
      BY <1>0, <2>1 DEF IoSubmit, CallRecord
    <3> QED
      BY <1>0, <1>1, <2>1, <3>1 DEF IoSubmit, port
  <2>2. ASSUME NEW max \in Sizes \ {0}, NEW min \in Sizes, IoWait(t, max, min)
        PROVE  NoLostWakeup'
    <3>1. PICK c \in CallRecord : c.fn = "io_wait" /\ IoWaitLoop(t, c, tasks)
      BY <2>2, IoWaitCall
    <3> QED
      BY <1>3, <2>2, <3>1 DEF IoWait
  <2>3. ASSUME NEW max \in Sizes \ {0}, NEW min \in Sizes, NEW k \in Tasks,
               IoWaitTimed(t, max, min, k)
        PROVE  NoLostWakeup'
    <3> DEFINE ts == [tasks EXCEPT ![k] = [phase |-> "delay", thread |-> t]]
    <3>1. PICK c \in CallRecord : c.fn = "io_wait" /\ IoWaitLoop(t, c, ts)
      BY <2>3, IoWaitTimedCall
    <3> QED
      BY <1>3, <2>3, <3>1 DEF IoWaitTimed
  <2>4. ASSUME NEW k \in Tasks, BlockingCall(t, k) PROVE NoLostWakeup'
    <3>1. call'[t].fn = "blocking"
      BY <1>0, <2>4 DEF BlockingCall, InUser
    <3> QED
      BY <1>0, <2>4, <3>1 DEF BlockingCall, port, NoLostWakeup, Blocked
  <2>5. CASE SetupRings(t)
    BY <1>1, <2>5 DEF SetupRings, threads
  <2>6. ASSUME NEW kind \in Kinds, SqPush(t, kind) PROVE NoLostWakeup'
    BY <1>1, <2>6 DEF SqPush, threads
  <2>7. CASE CqPop(t)
    <3>1. Len(cq') = Len(cq) - 1
      BY <1>0, <2>7, HeadTailProperties DEF CqPop
    <3> QED
      BY <1>0, <1>a, <2>7, <3>1 DEF CqPop, threads, NoLostWakeup, Blocked
  <2>8. ASSUME NEW n \in Sizes, NEW min \in Sizes, RingEnter(t, n, min)
        PROVE  NoLostWakeup'
    <3>1. call'[t].fn = "ring_submit"
      BY <1>0, <2>8 DEF RingEnter, InUser
    <3> QED
      BY <1>0, <1>1, <2>8, <3>1 DEF RingEnter, port
  <2> QED
    BY <1>6, <2>1, <2>2, <2>3, <2>4, <2>5, <2>6, <2>7, <2>8 DEF UserStep
<1>7. ASSUME NEW t \in Threads, DeadlinePasses(t) PROVE NoLostWakeup'
  BY <1>0, <1>1, <1>7 DEF DeadlinePasses, port, CallRecord
<1>8. ASSUME NEW k \in Tasks, TaskStep(k) PROVE NoLostWakeup'
  <2>1. CASE DelayExpires(k) \/ DelayCancelled(k)
    BY <1>1, <2>1 DEF DelayExpires, DelayCancelled, port, threads
  <2>2. CASE FutureStoresResult(k)
    BY <1>0, <1>1, <2>2 DEF FutureStoresResult, port, CallRecord
  <2>3. CASE TaskUnblocks(k)
    BY <1>0, <2>3, UnblockedThread DEF TaskUnblocks, port, NoLostWakeup, Blocked
  <2> QED
    BY <1>8, <2>1, <2>2, <2>3 DEF TaskStep
<1>9. ASSUME NEW e \in inflight, Complete(e) PROVE NoLostWakeup'
  BY <1>2, <1>9 DEF Complete
<1>10. CASE UNCHANGED vars
  BY <1>1, <1>10 DEF vars, port, threads
<1> QED
  BY <1>5, <1>6, <1>7, <1>8, <1>9, <1>10 DEF Next

(***************************************************************************)
(* For one consumer per port, a thread blocked in sys_io_wait or in        *)
(* sys_io_ring_enter is the registered waiter and what it waits for has    *)
(* not been posted, whatever the order of posts, timeouts and calls.       *)
(***************************************************************************)
THEOREM WakeupNotLost ==
    ASSUME OneConsumer
    PROVE  Spec => []NoLostWakeup
<1> DEFINE Inv == TypeOK /\ CallsInv /\ NoLostWakeup
<1>1. Init => Inv
  <2> SUFFICES ASSUME Init PROVE Inv
    OBVIOUS
  <2>1. TypeOK
    BY TypesInit
  <2>2. \A t \in Threads : call[t].fn = "user" /\ sched[t] = "Runnable"
    BY DEF Init, InUser
  <2> QED
    BY <2>1, <2>2 DEF CallsInv, NoLostWakeup, Blocked
<1>2. Inv /\ [Next]_vars => Inv'
  BY TypesKept, CallsKept, WakeupKept
<1> QED
  BY <1>1, <1>2, PTL DEF Spec

-----------------------------------------------------------------------------
(***************************************************************************)
(* The task of a timed wait stays on its way until it has unblocked its    *)
(* thread after the deadline, or the thread has returned.                  *)
(***************************************************************************)
LEMMA TimeoutKept ==
    ASSUME TypeOK, TimeoutInv, [Next]_vars
    PROVE  TimeoutInv'
<1> DEFINE TaskRecord == [phase : {"free", "delay", "cancelled", "firing", "future",
                                   "stored"},
                          thread : Threads \cup {None}]
<1>0. /\ call \in [Threads -> CallRecord] /\ sched \in [Threads -> {"Runnable", "Blocked"}]
      /\ tasks \in [Tasks -> TaskRecord]
      /\ None \notin Threads /\ None \notin Tasks
  BY Types, CompletionPortAssumption
<1> HIDE DEF TaskRecord
<1>1. ASSUME tasks' = tasks,
             \A s \in Threads : sched'[s] = "Blocked" => sched[s] = "Blocked",
             \A s \in Threads : call'[s].fn = "io_wait" => call'[s] = call[s]
      PROVE  TimeoutInv'
  BY <1>1 DEF TimeoutInv
<1>2. ASSUME NEW t \in Threads, NEW c \in CallRecord, NEW ts \in [Tasks -> TaskRecord],
             IoWaitLoop(t, c, ts),
             \A s \in Threads \ {t}, k \in Tasks :
                 call[s].fn = "io_wait" /\ call[s].task = k =>
                     /\ sched[s] = "Blocked" \/ ~call[s].done =>
                           ts[k].thread = s /\ ts[k].phase \in {"delay", "firing"}
                     /\ ts[k].thread = s /\ ts[k].phase = "firing" => call[s].done,
             c.task # None /\ ~c.done =>
                 /\ ts[c.task].thread = t /\ ts[c.task].phase \in {"delay", "firing"}
                 /\ ts[c.task].phase # "firing"
      PROVE  TimeoutInv'
  <2>1. \A s \in Threads \ {t} : call'[s] = call[s] /\ sched'[s] = sched[s]
    BY <1>0, <1>2 DEF IoWaitLoop, WaitOnPort
  <2>2. CASE IoWaitReady(c)
    <3>1. tasks' = Cancelled(ts, t) /\ call'[t].fn = "user"
      BY <1>0, <1>2, <2>2 DEF IoWaitLoop, InUser
    <3>2. \A k \in Tasks, s \in Threads \ {t} :
             tasks'[k].thread = s \/ ts[k].thread = s => tasks'[k] = ts[k]
      BY <1>2, <3>1 DEF Cancelled, TaskRecord
    <3> QED
      BY <1>2, <2>1, <3>1, <3>2 DEF TimeoutInv
  <2>3. CASE ~IoWaitReady(c)
    <3>1. tasks' = ts /\ call'[t] = c /\ ~c.done
      BY <1>0, <1>2, <2>3 DEF IoWaitLoop, IoWaitReady
    <3> QED
      BY <1>0, <1>2, <2>1, <3>1 DEF TimeoutInv
  <2> QED
    BY <2>2, <2>3
<1>3. ASSUME NEW t \in Threads, Returns(t) PROVE TimeoutInv'
  <2>1. CASE ProcessSubmission(t)
    <3>1. tasks' = tasks /\ call' = call
      BY <2>1 DEF ProcessSubmission
    <3>2. \A s \in Threads : sched'[s] = "Blocked" => sched[s] = "Blocked"
      BY <2>1, PostWakes DEF ProcessSubmission
    <3> QED
      BY <1>1, <3>1, <3>2
  <2>2. CASE SubmitReturns(t)
    BY <1>0, <1>1, <2>2 DEF SubmitReturns, InUser
  <2>3. CASE IoWaitResumes(t)
    <3>1. call[t] \in CallRecord /\ call[t].fn = "io_wait" /\ IoWaitLoop(t, call[t], tasks)
      BY <1>0, <2>3 DEF IoWaitResumes, Resumes
    <3>2. call[t].task # None => call[t].task \in Tasks
      BY <3>1 DEF CallRecord
    <3> QED
      BY <1>0, <1>2, <3>1, <3>2 DEF TimeoutInv
  <2>4. CASE BlockingResumes(t)
    <3>1. call'[t].fn \in {"user", "panicked"}
      BY <1>0, <2>4 DEF BlockingResumes, InUser, CallRecord
    <3> QED
      BY <1>0, <1>1, <2>4, <3>1 DEF BlockingResumes
  <2>5. CASE RingSubmitted(t) \/ RingResumes(t)
    <3>1. RingLoop(t)
      BY <2>5 DEF RingSubmitted, RingResumes
    <3>2. CASE Len(cq') >= call[t].min
      <4>1. call'[t].fn = "user" /\ tasks' = tasks /\ sched' = sched
        BY <1>0, <3>1, <3>2 DEF RingLoop, InUser
      <4> QED
        BY <1>0, <1>1, <3>1, <4>1 DEF RingLoop
    <3>3. CASE ~(Len(cq') >= call[t].min)
      <4>1. /\ call' = [call EXCEPT ![t] = [call[t] EXCEPT !.fn = "ring_wait"]]
            /\ tasks' = tasks /\ sched' = [sched EXCEPT ![t] = "Blocked"]
        BY <1>0, <3>1, <3>3 DEF RingLoop, WaitOnPort
      <4>2. [call[t] EXCEPT !.fn = "ring_wait"].fn = "ring_wait"
        BY <1>0 DEF CallRecord
      <4> QED
        BY <1>0, <4>1, <4>2 DEF TimeoutInv
    <3> QED
      BY <3>2, <3>3
  <2> QED
    BY <1>3, <2>1, <2>2, <2>3, <2>4, <2>5 DEF Returns
<1>4. ASSUME NEW t \in Threads, UserStep(t) PROVE TimeoutInv'
  <2>1. ASSUME NEW kinds \in Batches, IoSubmit(t, kinds) PROVE TimeoutInv'
    <3>1. call'[t].fn = "submit"
      BY <1>0, <2>1 DEF IoSubmit, CallRecord
    <3> QED
      BY <1>0, <1>1, <2>1, <3>1 DEF IoSubmit
  <2>2. ASSUME NEW max \in Sizes \ {0}, NEW min \in Sizes, IoWait(t, max, min)
        PROVE  TimeoutInv'
    <3>1. PICK c \in CallRecord : c.task = None /\ IoWaitLoop(t, c, tasks)
      BY <2>2, IoWaitCall
    <3> QED
      BY <1>0, <1>2, <3>1 DEF TimeoutInv
  <2>3. ASSUME NEW max \in Sizes \ {0}, NEW min \in Sizes, NEW k \in Tasks,
               IoWaitTimed(t, max, min, k)
        PROVE  TimeoutInv'
    <3> DEFINE ts == [tasks EXCEPT ![k] = [phase |-> "delay", thread |-> t]]
    <3>1. PICK c \in CallRecord : c.task = k /\ IoWaitLoop(t, c, ts)
      BY <2>3, IoWaitTimedCall
    <3>2. /\ ts \in [Tasks -> TaskRecord] /\ ts[k].thread = t /\ ts[k].phase = "delay"
          /\ \A j \in Tasks \ {k} : ts[j] = tasks[j]
      BY <1>0 DEF TaskRecord
    <3>3. tasks[k].thread = None
      BY <2>3 DEF IoWaitTimed, FreeTask
    <3> HIDE DEF ts
    <3>4. ASSUME NEW s \in Threads \ {t}, NEW j \in Tasks,
                 call[s].fn = "io_wait", call[s].task = j
          PROVE  /\ sched[s] = "Blocked" \/ ~call[s].done =>
                       ts[j].thread = s /\ ts[j].phase \in {"delay", "firing"}
                 /\ ts[j].thread = s /\ ts[j].phase = "firing" => call[s].done
      BY <1>0, <3>2, <3>3, <3>4 DEF TimeoutInv
    <3> QED
      BY <1>2, <3>1, <3>2, <3>4
  <2>4. ASSUME NEW k \in Tasks, BlockingCall(t, k) PROVE TimeoutInv'
    <3>1. /\ call'[t].fn = "blocking" /\ tasks[k].thread = None
          /\ tasks'[k].thread = t
          /\ \A j \in Tasks \ {k} : tasks'[j] = tasks[j]
          /\ \A s \in Threads \ {t} : call'[s] = call[s] /\ sched'[s] = sched[s]
      BY <1>0, <2>4 DEF BlockingCall, InUser, FreeTask
    <3> QED
      BY <1>0, <3>1 DEF TimeoutInv
  <2>5. CASE SetupRings(t)
    BY <1>1, <2>5 DEF SetupRings, threads
  <2>6. ASSUME NEW kind \in Kinds, SqPush(t, kind) PROVE TimeoutInv'
    BY <1>1, <2>6 DEF SqPush, threads
  <2>7. CASE CqPop(t)
    BY <1>1, <2>7 DEF CqPop, threads
  <2>8. ASSUME NEW n \in Sizes, NEW min \in Sizes, RingEnter(t, n, min)
        PROVE  TimeoutInv'
    <3>1. call'[t].fn = "ring_submit"
      BY <1>0, <2>8 DEF RingEnter, InUser
    <3> QED
      BY <1>0, <1>1, <2>8, <3>1 DEF RingEnter
  <2> QED
    BY <1>4, <2>1, <2>2, <2>3, <2>4, <2>5, <2>6, <2>7, <2>8 DEF UserStep
<1>5. ASSUME NEW t \in Threads, DeadlinePasses(t) PROVE TimeoutInv'
  <2>1. /\ ~call[t].done /\ tasks' = tasks /\ sched' = sched
        /\ call' = [call EXCEPT ![t] = [call[t] EXCEPT !.done = TRUE]]
    BY <1>0, <1>5 DEF DeadlinePasses
  <2>2. LET c == [call[t] EXCEPT !.done = TRUE]
        IN  c.fn = call[t].fn /\ c.task = call[t].task /\ c.done
    BY <1>0 DEF CallRecord
  <2> QED
    BY <1>0, <2>1, <2>2 DEF TimeoutInv
<1>6. ASSUME NEW k \in Tasks, TaskStep(k) PROVE TimeoutInv'
  <2>1. CASE DelayExpires(k)
    <3>1. tasks' = [tasks EXCEPT ![k] = [tasks[k] EXCEPT !.phase = "firing"]]
      BY <1>0, <2>1 DEF DelayExpires
    <3>2. LET r == [tasks[k] EXCEPT !.phase = "firing"]
          IN  r.thread = tasks[k].thread /\ r.phase = "firing"
      BY <1>0 DEF TaskRecord
    <3>3. call' = call /\ sched' = sched /\ call[tasks[k].thread].done
          /\ tasks[k].phase = "delay"
      BY <2>1 DEF DelayExpires, DelayElapsed, threads
    <3> QED
      BY <1>0, <3>1, <3>2, <3>3 DEF TimeoutInv
  <2>2. CASE DelayCancelled(k)
    <3>1. /\ tasks' = [tasks EXCEPT ![k] = FreeTask] /\ tasks[k].phase = "cancelled"
          /\ call' = call /\ sched' = sched
      BY <2>2 DEF DelayCancelled, threads
    <3> QED
      BY <1>0, <3>1 DEF TimeoutInv, FreeTask
  <2>3. CASE FutureStoresResult(k)
    <3> DEFINE t == tasks[k].thread
    <3>1. /\ tasks' = [tasks EXCEPT ![k] = [tasks[k] EXCEPT !.phase = "stored"]]
          /\ tasks[k].phase = "future" /\ sched' = sched
          /\ call' = [call EXCEPT ![t] = [call[t] EXCEPT !.done = TRUE]]
      BY <1>0, <2>3 DEF FutureStoresResult
    <3>2. LET r == [tasks[k] EXCEPT !.phase = "stored"]
          IN  r.thread = tasks[k].thread /\ r.phase = "stored"
      BY <1>0 DEF TaskRecord
    <3>3. \A s \in Threads : LET c == [call[s] EXCEPT !.done = TRUE]
                              IN  c.fn = call[s].fn /\ c.task = call[s].task /\ c.done
      BY <1>0 DEF CallRecord
    <3>4. \A s \in Threads : /\ call'[s].fn = call[s].fn /\ call'[s].task = call[s].task
                             /\ call[s].done => call'[s].done
      BY <1>0, <3>1, <3>3
    <3> QED
      BY <1>0, <3>1, <3>2, <3>4 DEF TimeoutInv
  <2>4. CASE TaskUnblocks(k)
    <3>1. /\ tasks' = [tasks EXCEPT ![k] = FreeTask] /\ call' = call
          /\ tasks[k].phase \in {"firing", "stored"}
      BY <2>4 DEF TaskUnblocks
    <3>2. \A s \in Threads : sched'[s] = IF s = tasks[k].thread THEN "Runnable" ELSE sched[s]
      BY <2>4, UnblockedThread DEF TaskUnblocks
    <3> QED
      BY <1>0, <3>1, <3>2 DEF TimeoutInv, FreeTask
  <2> QED
    BY <1>6, <2>1, <2>2, <2>3, <2>4 DEF TaskStep
<1>7. ASSUME NEW e \in inflight, Complete(e) PROVE TimeoutInv'
  BY <1>1, <1>7, PostWakes DEF Complete
<1>8. CASE UNCHANGED vars
  BY <1>1, <1>8 DEF vars, threads
<1> QED
  BY <1>3, <1>4, <1>5, <1>6, <1>7, <1>8 DEF Next

(***************************************************************************)
(* A thread blocked in sys_io_wait with a timeout always has a task that   *)
(* has yet to unblock it, for any number of waiting threads and tasks.     *)
(***************************************************************************)
THEOREM TimeoutComes == Spec => []TimeoutStillComing
<1> DEFINE Inv == TypeOK /\ TimeoutInv
<1>1. Init => Inv
  <2>1. Init => \A t \in Threads : call[t].fn = "user"
    BY DEF Init, InUser
  <2> QED
    BY <2>1, TypesInit DEF TimeoutInv
<1>2. Inv /\ [Next]_vars => Inv'
  BY TypesKept, TimeoutKept
<1>3. Inv => TimeoutStillComing
  <2> SUFFICES ASSUME Inv, NEW t \in Threads, Blocked(t, "io_wait"), call[t].task # None
               PROVE  \E k \in Tasks : /\ tasks[k].thread = t
                                       /\ tasks[k].phase \in {"delay", "firing"}
    BY DEF TimeoutStillComing
  <2>1. call[t].task \in Tasks
    BY Types DEF CallRecord
  <2> QED
    BY <2>1 DEF TimeoutInv, Blocked
<1> QED
  BY <1>1, <1>2, <1>3, PTL DEF Spec

-----------------------------------------------------------------------------
(***************************************************************************)
(* A thread in blocking() sleeps until its own task has stored the result, *)
(* unless somebody else unblocks it: every step of the port, of the timers *)
(* and of the tasks keeps that, and the panic only follows such a wake-up. *)
(***************************************************************************)
LEMMA BlockingKept ==
    ASSUME TypeOK, ResultInv, [Next]_vars
    PROVE  OwnInv' /\ ResultThere'
<1> DEFINE TaskRecord == [phase : {"free", "delay", "cancelled", "firing", "future",
                                   "stored"},
                          thread : Threads \cup {None}]
           Outside(f) == f \notin {"blocking", "panicked"}
<1>0. /\ call \in [Threads -> CallRecord] /\ sched \in [Threads -> {"Runnable", "Blocked"}]
      /\ tasks \in [Tasks -> TaskRecord] /\ waiter \in Threads \cup {None}
      /\ None \notin Threads \cup Tasks /\ OwnInv /\ ResultThere /\ workload' = workload
      /\ late \subseteq Threads
  BY Types, CompletionPortAssumption DEF ResultInv, Next, vars
<1> HIDE DEF TaskRecord
<1>1. ASSUME UNCHANGED <<call, tasks, sched, late>> PROVE OwnInv' /\ ResultThere'
  BY <1>0, <1>1 DEF OwnInv, ResultThere
<1>2. ASSUME NEW t \in Threads, Outside(call[t].fn), Outside(call'[t].fn), late' = late,
             \A s \in Threads \ {t} : call'[s] = call[s] /\ sched'[s] = sched[s],
             \A k \in Tasks : \/ tasks'[k] = tasks[k]
                              \/ tasks'[k].thread = t /\ tasks'[k].phase # "future"
      PROVE  OwnInv' /\ ResultThere'
  BY <1>0, <1>2 DEF OwnInv, ResultThere
<1>3. ASSUME NEW c, Post(c), UNCHANGED <<call, tasks>> PROVE OwnInv' /\ ResultThere'
  <2>1. \A s \in Threads : sched'[s] = IF s = waiter THEN "Runnable" ELSE sched[s]
    BY <1>3, PostWakes
  <2>2. late' = LateWake(waiter, None)
    BY <1>3 DEF Post, WakeWaiter
  <2>3. /\ late \subseteq late'
        /\ \A s \in Threads : call[s].fn = "blocking" /\ sched[s] = "Blocked"
              /\ s = waiter => s \in late'
    BY <1>0, <2>2 DEF LateWake, OwnInv, Blocked
  <2> QED
    BY <1>0, <1>3, <2>1, <2>3 DEF OwnInv, ResultThere
<1>4. ASSUME NEW t \in Threads, NEW c \in CallRecord, NEW ts, c.fn = "io_wait",
             IoWaitLoop(t, c, ts), Outside(call[t].fn),
             \A k \in Tasks : \/ ts[k] = tasks[k]
                              \/ ts[k].thread = t /\ ts[k].phase # "future",
             ts \in [Tasks -> TaskRecord]
      PROVE  OwnInv' /\ ResultThere'
  <2>1. call'[t].fn \in {"user", "io_wait"} /\ late' = late
    BY <1>0, <1>4 DEF IoWaitLoop, InUser
  <2>2. \A s \in Threads \ {t} : call'[s] = call[s] /\ sched'[s] = sched[s]
    BY <1>0, <1>4 DEF IoWaitLoop, WaitOnPort
  <2>3. \A k \in Tasks : \/ tasks'[k] = ts[k]
                         \/ tasks'[k].thread = t /\ tasks'[k].phase # "future"
    BY <1>4 DEF IoWaitLoop, Cancelled, TaskRecord
  <2> QED
    BY <1>2, <1>4, <2>1, <2>2, <2>3
<1>5. ASSUME NEW t \in Threads, Returns(t) PROVE OwnInv' /\ ResultThere'
  <2>1. CASE ProcessSubmission(t)
    BY <1>1, <1>3, <2>1 DEF ProcessSubmission
  <2>2. CASE SubmitReturns(t)
    BY <1>0, <1>2, <2>2 DEF SubmitReturns, Resumes, InUser, history
  <2>3. CASE IoWaitResumes(t)
    BY <1>0, <1>4, <2>3 DEF IoWaitResumes, Resumes
  <2>4. CASE BlockingResumes(t)
    <3>1. /\ call[t].fn = "blocking" /\ sched[t] = "Runnable" /\ late' = late
          /\ tasks' = tasks /\ sched' = sched
          /\ \A s \in Threads \ {t} : call'[s] = call[s]
      BY <1>0, <2>4 DEF BlockingResumes, Resumes, history
    <3>2. CASE call[t].done
      <4>1. call'[t].fn = "user"
        BY <1>0, <2>4, <3>2 DEF BlockingResumes, InUser
      <4> QED
        BY <1>0, <3>1, <3>2, <4>1 DEF OwnInv, ResultThere
    <3>3. CASE ~call[t].done
      <4> DEFINE w == [call[t] EXCEPT !.fn = "panicked"]
      <4>1. w.fn = "panicked" /\ w.task = call[t].task /\ w.done = call[t].done
        BY <1>0 DEF CallRecord
      <4>2. call'[t] = w
        BY <1>0, <2>4, <3>3 DEF BlockingResumes
      <4>3. t \in late
        BY <1>0, <3>1, <3>3 DEF OwnInv
      <4>4. "timed_wait" \in workload
        BY <3>1, <3>3 DEF ResultInv, NoTimeouts
      <4> HIDE DEF w
      <4> QED
        BY <1>0, <3>1, <3>3, <4>1, <4>2, <4>3, <4>4 DEF OwnInv, ResultThere
    <3> QED
      BY <3>2, <3>3
  <2>5. CASE RingSubmitted(t) \/ RingResumes(t)
    <3>1. RingLoop(t) /\ call[t].fn \in {"ring_submit", "ring_wait"}
      BY <2>5 DEF RingSubmitted, RingResumes, Resumes
    <3> DEFINE w == [call[t] EXCEPT !.fn = "ring_wait"]
    <3>2. w.fn = "ring_wait" /\ InUser.fn = "user"
      BY <1>0 DEF CallRecord, InUser
    <3>3. /\ call'[t] = InUser \/ call'[t] = w
          /\ \A s \in Threads \ {t} : call'[s] = call[s] /\ sched'[s] = sched[s]
          /\ tasks' = tasks /\ late' = late
      BY <1>0, <3>1 DEF RingLoop, WaitOnPort
    <3> HIDE DEF w
    <3>4. call'[t].fn \in {"user", "ring_wait"}
      BY <3>2, <3>3
    <3> QED
      BY <1>2, <3>1, <3>3, <3>4
  <2> QED
    BY <1>5, <2>1, <2>2, <2>3, <2>4, <2>5 DEF Returns
<1>6. ASSUME NEW t \in Threads, UserStep(t) PROVE OwnInv' /\ ResultThere'
  <2>1. ASSUME NEW kinds \in Batches, IoSubmit(t, kinds)
        PROVE  OwnInv' /\ ResultThere'
    <3>1. call'[t].fn = "submit"
      BY <1>0, <2>1 DEF IoSubmit, CallRecord
    <3> QED
      BY <1>0, <1>2, <2>1, <3>1 DEF IoSubmit, MaySyscall, history
  <2>2. ASSUME NEW max \in Sizes \ {0}, NEW min \in Sizes, IoWait(t, max, min)
        PROVE  OwnInv' /\ ResultThere'
    <3>1. PICK c \in CallRecord : c.fn = "io_wait" /\ IoWaitLoop(t, c, tasks)
      BY <2>2, IoWaitCall
    <3> QED
      BY <1>0, <1>4, <2>2, <3>1 DEF IoWait, MaySyscall
  <2>3. ASSUME NEW max \in Sizes \ {0}, NEW min \in Sizes, NEW k \in Tasks,
               IoWaitTimed(t, max, min, k)
        PROVE  OwnInv' /\ ResultThere'
    <3> DEFINE ts == [tasks EXCEPT ![k] = [phase |-> "delay", thread |-> t]]
    <3>1. PICK c \in CallRecord : c.fn = "io_wait" /\ IoWaitLoop(t, c, ts)
      BY <2>3, IoWaitTimedCall
    <3>2. \A j \in Tasks : \/ ts[j] = tasks[j]
                           \/ ts[j].thread = t /\ ts[j].phase # "future"
      BY <1>0
    <3>3. ts \in [Tasks -> TaskRecord]
      BY <1>0 DEF TaskRecord
    <3>4. call[t].fn = "user"
      BY <2>3 DEF IoWaitTimed, MaySyscall
    <3> HIDE DEF ts
    <3> QED
      BY <1>4, <3>1, <3>2, <3>3, <3>4
  <2>4. ASSUME NEW k \in Tasks, BlockingCall(t, k) PROVE OwnInv' /\ ResultThere'
    <3>1. /\ call'[t].fn = "blocking" /\ call'[t].task = k /\ ~call'[t].done
          /\ sched'[t] = "Blocked" /\ call[t].fn = "user" /\ tasks[k] = FreeTask
          /\ tasks'[k].thread = t /\ tasks'[k].phase = "future"
          /\ \A j \in Tasks \ {k} : tasks'[j] = tasks[j]
          /\ \A s \in Threads \ {t} : call'[s] = call[s] /\ sched'[s] = sched[s]
          /\ late' = late \ {t}
      BY <1>0, <2>4 DEF BlockingCall, MaySyscall, InUser
    <3> QED
      BY <1>0, <3>1 DEF OwnInv, ResultThere
  <2>5. CASE UNCHANGED <<threads, tasks, late>>
    BY <2>5, <1>1 DEF threads
  <2>6. ASSUME NEW n \in Sizes, NEW min \in Sizes, RingEnter(t, n, min)
        PROVE  OwnInv' /\ ResultThere'
    <3>1. call'[t].fn = "ring_submit"
      BY <1>0, <2>6 DEF RingEnter, InUser
    <3> QED
      BY <1>0, <1>2, <2>6, <3>1 DEF RingEnter, MaySyscall, history
  <2> QED
    BY <1>6, <2>1, <2>2, <2>3, <2>4, <2>5, <2>6
       DEF UserStep, SetupRings, SqPush, CqPop, history
<1>7. ASSUME NEW t \in Threads, DeadlinePasses(t) PROVE OwnInv' /\ ResultThere'
  <2>1. \A s \in Threads : call'[s].fn = call[s].fn
    BY <1>0, <1>7 DEF DeadlinePasses, CallRecord
  <2> QED
    BY <1>0, <1>2, <1>7, <2>1 DEF DeadlinePasses, history
<1>8. ASSUME NEW k \in Tasks, TaskStep(k) PROVE OwnInv' /\ ResultThere'
  <2>1. CASE DelayExpires(k) \/ DelayCancelled(k)
    <3>1. /\ UNCHANGED <<call, sched, late>> /\ tasks[k].phase \in {"delay", "cancelled"}
          /\ \A j \in Tasks \ {k} : tasks'[j] = tasks[j]
      BY <1>0, <2>1 DEF DelayExpires, DelayCancelled, DelayElapsed, threads, history
    <3>2. \/ tasks'[k].thread = tasks[k].thread /\ tasks'[k].phase = "firing"
          \/ tasks'[k] = FreeTask
      BY <1>0, <2>1 DEF DelayExpires, DelayCancelled, TaskRecord
    <3> QED
      BY <1>0, <3>1, <3>2 DEF OwnInv, ResultThere, FreeTask
  <2>2. CASE FutureStoresResult(k)
    <3> DEFINE t == tasks[k].thread
    <3>1. /\ tasks' = [tasks EXCEPT ![k] = [tasks[k] EXCEPT !.phase = "stored"]]
          /\ tasks[k].phase = "future" /\ sched' = sched /\ late' = late
          /\ call' = [call EXCEPT ![t] = [call[t] EXCEPT !.done = TRUE]]
      BY <1>0, <2>2 DEF FutureStoresResult, history
    <3>2. /\ tasks'[k].thread = t /\ tasks'[k].phase = "stored"
          /\ \A j \in Tasks \ {k} : tasks'[j] = tasks[j]
      BY <1>0, <3>1 DEF TaskRecord
    <3>3. \A s \in Threads : /\ call'[s].fn = call[s].fn /\ call'[s].task = call[s].task
                             /\ s # t => call'[s] = call[s]
                             /\ s = t => call'[s].done
      BY <1>0, <3>1 DEF CallRecord
    <3> HIDE DEF t
    <3> QED
      BY <1>0, <3>1, <3>2, <3>3 DEF OwnInv, ResultThere, t
  <2>3. CASE TaskUnblocks(k)
    <3> DEFINE t == tasks[k].thread
    <3>1. /\ tasks'[k] = FreeTask /\ call' = call
          /\ \A j \in Tasks \ {k} : tasks'[j] = tasks[j]
          /\ tasks[k].phase \in {"firing", "stored"} /\ late' = LateWake(t, k)
      BY <1>0, <2>3 DEF TaskUnblocks
    <3>2. \A s \in Threads : sched'[s] = IF s = t THEN "Runnable" ELSE sched[s]
      BY <2>3, UnblockedThread DEF TaskUnblocks
    <3>3. /\ late \subseteq late'
          /\ \A s \in Threads : call[s].fn = "blocking" /\ sched[s] = "Blocked"
                /\ s = t /\ call[s].task # k => s \in late'
      BY <1>0, <3>1 DEF LateWake, Blocked
    <3> HIDE DEF t
    <3> QED
      BY <1>0, <3>1, <3>2, <3>3 DEF OwnInv, ResultThere, FreeTask, t
  <2> QED
    BY <1>8, <2>1, <2>2, <2>3 DEF TaskStep
<1>9. ASSUME NEW e \in inflight, Complete(e) PROVE OwnInv' /\ ResultThere'
  BY <1>9, <1>3 DEF Complete
<1>10. CASE UNCHANGED vars
  BY <1>10, <1>1 DEF vars, threads, history
<1> QED
  BY <1>5, <1>6, <1>7, <1>8, <1>9, <1>10 DEF Next

(***************************************************************************)
(* Without timeouts nobody unblocks a thread that is not waiting for it.   *)
(***************************************************************************)
LEMMA NoTimeoutsKept ==
    ASSUME TypeOK, ResultInv, "timed_wait" \notin workload, [Next]_vars
    PROVE  NoTimeouts'
<1> DEFINE TaskRecord == [phase : {"free", "delay", "cancelled", "firing", "future",
                                   "stored"},
                          thread : Threads \cup {None}]
<1>0. /\ call \in [Threads -> CallRecord] /\ sched \in [Threads -> {"Runnable", "Blocked"}]
      /\ tasks \in [Tasks -> TaskRecord] /\ waiter \in Threads \cup {None}
      /\ None \notin Threads /\ NoTimeouts
  BY Types, CompletionPortAssumption DEF ResultInv
<1> HIDE DEF TaskRecord
<1>1. ASSUME UNCHANGED <<waiter, sched, call, tasks>> PROVE NoTimeouts'
  BY <1>0, <1>1 DEF NoTimeouts, Blocked
<1>2. ASSUME NEW t \in Threads, t # waiter, ~Blocked(t, "blocking"),
             \A s \in Threads \ {t} : call'[s] = call[s] /\ sched'[s] = sched[s],
             \A k \in Tasks : tasks'[k] = tasks[k],
             waiter' = waiter, call'[t].fn # "blocking"
      PROVE  NoTimeouts'
  BY <1>0, <1>2 DEF NoTimeouts, Blocked
<1>3. ASSUME NEW t \in Threads, ~Blocked(t, "blocking"),
             \A s \in Threads \ {t} : call'[s] = call[s] /\ sched'[s] = sched[s],
             \A k \in Tasks : tasks'[k] = tasks[k],
             waiter' = t, sched'[t] = "Blocked", call'[t].fn \in {"io_wait", "ring_wait"}
      PROVE  NoTimeouts'
  BY <1>0, <1>3 DEF NoTimeouts, Blocked
<1>4. ASSUME NEW c, Post(c), UNCHANGED <<call, tasks>> PROVE NoTimeouts'
  <2>1. /\ waiter' = None /\ call' = call /\ tasks' = tasks
        /\ \A s \in Threads : sched'[s] = IF s = waiter THEN "Runnable" ELSE sched[s]
    <3>1. waiter' = None
      BY <1>4 DEF Post, WakeWaiter
    <3> QED
      BY <3>1, <1>4, PostWakes
  <2>2. \A s \in Threads : call[s].fn = "blocking" => sched'[s] = sched[s]
    BY <1>0, <2>1 DEF NoTimeouts
  <2> QED
    BY <1>0, <2>1, <2>2 DEF NoTimeouts, Blocked
<1>5. ASSUME NEW t \in Threads, NEW c \in CallRecord, c.fn = "io_wait",
             IoWaitLoop(t, c, tasks), t # waiter, ~Blocked(t, "blocking")
      PROVE  NoTimeouts'
  <2>1. \A s \in Threads \ {t} : call'[s] = call[s] /\ sched'[s] = sched[s]
    BY <1>0, <1>5 DEF IoWaitLoop, WaitOnPort
  <2>2. CASE IoWaitReady(c)
    <3>1. tasks' = Cancelled(tasks, t) /\ call'[t].fn = "user" /\ waiter' = waiter
      BY <1>0, <1>5, <2>2 DEF IoWaitLoop, InUser
    <3>2. \A k \in Tasks : tasks'[k] = tasks[k]
      BY <1>0, <3>1 DEF Cancelled, NoTimeouts
    <3> QED
      BY <1>2, <1>5, <2>1, <3>1, <3>2
  <2>3. CASE ~IoWaitReady(c)
    <3>1. tasks' = tasks /\ call'[t] = c /\ waiter' = t /\ sched'[t] = "Blocked"
      BY <1>0, <1>5, <2>3 DEF IoWaitLoop, WaitOnPort
    <3> QED
      BY <1>3, <1>5, <2>1, <3>1
  <2> QED
    BY <2>2, <2>3
<1>6. ASSUME NEW t \in Threads, Returns(t) PROVE NoTimeouts'
  <2>1. CASE ProcessSubmission(t)
    BY <1>1, <1>4, <2>1 DEF ProcessSubmission
  <2>0. ASSUME sched[t] = "Runnable" PROVE t # waiter /\ ~Blocked(t, "blocking")
    BY <1>0, <2>0 DEF NoTimeouts, Blocked
  <2>2. CASE SubmitReturns(t)
    BY <1>0, <1>2, <2>0, <2>2 DEF SubmitReturns, Resumes, InUser, port
  <2>3. CASE IoWaitResumes(t)
    BY <1>0, <1>5, <2>0, <2>3 DEF IoWaitResumes, Resumes
  <2>4. CASE BlockingResumes(t)
    <3>1. call'[t].fn \in {"user", "panicked"}
      BY <1>0, <2>4 DEF BlockingResumes, InUser, CallRecord
    <3> QED
      BY <1>0, <1>2, <2>0, <2>4, <3>1 DEF BlockingResumes, Resumes, port
  <2>5. CASE RingSubmitted(t) \/ RingResumes(t)
    <3>1. RingLoop(t) /\ t # waiter /\ ~Blocked(t, "blocking")
      BY <2>0, <2>5 DEF RingSubmitted, RingResumes, Resumes
    <3>2. CASE Len(cq') >= call[t].min
      BY <1>0, <1>2, <3>1, <3>2 DEF RingLoop, InUser
    <3>3. CASE ~(Len(cq') >= call[t].min)
      <4>1. /\ call' = [call EXCEPT ![t] = [call[t] EXCEPT !.fn = "ring_wait"]]
            /\ tasks' = tasks /\ sched' = [sched EXCEPT ![t] = "Blocked"]
            /\ waiter' = t
        BY <1>0, <3>1, <3>3 DEF RingLoop, WaitOnPort
      <4>2. [call[t] EXCEPT !.fn = "ring_wait"].fn = "ring_wait"
        BY <1>0 DEF CallRecord
      <4> QED
        BY <1>0, <1>3, <3>1, <4>1, <4>2
    <3> QED
      BY <3>2, <3>3
  <2> QED
    BY <1>6, <2>1, <2>2, <2>3, <2>4, <2>5 DEF Returns
<1>7. ASSUME NEW t \in Threads, UserStep(t) PROVE NoTimeouts'
  <2>0. ASSUME call[t].fn = "user" PROVE t # waiter /\ ~Blocked(t, "blocking")
    BY <1>0, <2>0 DEF NoTimeouts, Blocked
  <2>1. ASSUME NEW kinds \in Batches, IoSubmit(t, kinds) PROVE NoTimeouts'
    <3>1. call'[t].fn = "submit"
      BY <1>0, <2>1 DEF IoSubmit, CallRecord
    <3> QED
      BY <1>0, <1>2, <2>0, <2>1, <3>1 DEF IoSubmit, MaySyscall, port
  <2>2. ASSUME NEW max \in Sizes \ {0}, NEW min \in Sizes, IoWait(t, max, min)
        PROVE  NoTimeouts'
    BY <1>5, <2>0, <2>2, IoWaitCall DEF IoWait, MaySyscall
  <2>3. ASSUME NEW max \in Sizes \ {0}, NEW min \in Sizes, NEW k \in Tasks,
               IoWaitTimed(t, max, min, k)
        PROVE  NoTimeouts'
    BY <2>3 DEF IoWaitTimed, MaySyscall
  <2>4. ASSUME NEW k \in Tasks, BlockingCall(t, k) PROVE NoTimeouts'
    <3>1. /\ call'[t].fn = "blocking" /\ call'[t].task = k /\ sched'[t] = "Blocked"
          /\ tasks'[k].thread = t /\ tasks'[k].phase = "future"
          /\ waiter' = waiter /\ t # waiter /\ ~Blocked(t, "blocking")
          /\ \A j \in Tasks \ {k} : tasks'[j] = tasks[j]
          /\ \A s \in Threads \ {t} : call'[s] = call[s] /\ sched'[s] = sched[s]
      BY <1>0, <2>0, <2>4 DEF BlockingCall, MaySyscall, InUser, port
    <3> QED
      BY <1>0, <3>1 DEF NoTimeouts, Blocked
  <2>5. CASE SetupRings(t)
    BY <1>1, <2>5 DEF SetupRings, threads
  <2>6. ASSUME NEW kind \in Kinds, SqPush(t, kind) PROVE NoTimeouts'
    BY <1>1, <2>6 DEF SqPush, threads
  <2>7. CASE CqPop(t)
    BY <1>1, <2>7 DEF CqPop, threads
  <2>8. ASSUME NEW n \in Sizes, NEW min \in Sizes, RingEnter(t, n, min)
        PROVE  NoTimeouts'
    <3>1. call'[t].fn = "ring_submit"
      BY <1>0, <2>8 DEF RingEnter, InUser
    <3> QED
      BY <1>0, <1>2, <2>0, <2>8, <3>1 DEF RingEnter, MaySyscall, port
  <2> QED
    BY <1>7, <2>1, <2>2, <2>3, <2>4, <2>5, <2>6, <2>7, <2>8 DEF UserStep
<1>8. ASSUME NEW t \in Threads, DeadlinePasses(t) PROVE NoTimeouts'
  <2>1. /\ UNCHANGED <<waiter, sched, tasks>>
        /\ call' = [call EXCEPT ![t] = [call[t] EXCEPT !.done = TRUE]]
    BY <1>0, <1>8 DEF DeadlinePasses, port
  <2>2. LET c == [call[t] EXCEPT !.done = TRUE]
        IN  c.fn = call[t].fn /\ c.task = call[t].task /\ c.done
    BY <1>0 DEF CallRecord
  <2> QED
    BY <1>0, <2>1, <2>2 DEF NoTimeouts, Blocked
<1>9. ASSUME NEW k \in Tasks, TaskStep(k) PROVE NoTimeouts'
  <2>1. CASE DelayExpires(k) \/ DelayCancelled(k)
    BY <1>0, <2>1 DEF DelayExpires, DelayCancelled, DelayElapsed, NoTimeouts
  <2>2. CASE FutureStoresResult(k)
    <3> DEFINE t == tasks[k].thread
    <3>1. /\ tasks' = [tasks EXCEPT ![k] = [tasks[k] EXCEPT !.phase = "stored"]]
          /\ tasks[k].phase = "future" /\ sched' = sched /\ waiter' = waiter
          /\ call' = [call EXCEPT ![t] = [call[t] EXCEPT !.done = TRUE]]
      BY <1>0, <2>2 DEF FutureStoresResult, port
    <3>2. LET r == [tasks[k] EXCEPT !.phase = "stored"]
          IN  r.thread = tasks[k].thread /\ r.phase = "stored"
      BY <1>0 DEF TaskRecord
    <3>3. t \in Threads
      BY <1>0, <3>1 DEF NoTimeouts
    <3>4. LET c == [call[t] EXCEPT !.done = TRUE]
          IN  c.fn = call[t].fn /\ c.task = call[t].task /\ c.done
      BY <1>0, <3>3 DEF CallRecord
    <3>5. /\ \A s \in Threads : /\ call'[s].fn = call[s].fn /\ call'[s].task = call[s].task
                                /\ call[s].done => call'[s].done
          /\ call'[t].done
      BY <1>0, <3>1, <3>3, <3>4
    <3>6. \A j \in Tasks : /\ tasks'[j].thread = tasks[j].thread
                           /\ j # k => tasks'[j] = tasks[j]
                           /\ j = k => tasks'[j].phase = "stored"
      BY <1>0, <3>1, <3>2
    <3> HIDE DEF t
    <3> QED
      BY <1>0, <3>1, <3>3, <3>5, <3>6 DEF NoTimeouts, Blocked, t
  <2>3. CASE TaskUnblocks(k)
    <3>1. /\ tasks' = [tasks EXCEPT ![k] = FreeTask] /\ call' = call
          /\ tasks[k].phase = "stored" /\ waiter' = waiter
      BY <1>0, <2>3 DEF TaskUnblocks, NoTimeouts, port
    <3>2. \A s \in Threads : sched'[s] = IF s = tasks[k].thread THEN "Runnable" ELSE sched[s]
      BY <2>3, UnblockedThread DEF TaskUnblocks
    <3> QED
      BY <1>0, <3>1, <3>2 DEF NoTimeouts, Blocked, FreeTask
  <2> QED
    BY <1>9, <2>1, <2>2, <2>3 DEF TaskStep
<1>10. ASSUME NEW e \in inflight, Complete(e) PROVE NoTimeouts'
  BY <1>4, <1>10 DEF Complete
<1>11. CASE UNCHANGED vars
  BY <1>1, <1>11 DEF vars, port, threads
<1> QED
  BY <1>6, <1>7, <1>8, <1>9, <1>10, <1>11 DEF Next

(***************************************************************************)
(* blocking() finds its result when the thread resumes: for any number of  *)
(* threads and tasks its expect "blocking: result missing after unblock"   *)
(* fails only for a thread that the timer task of an earlier timed io_wait *)
(* woke, or a post through the waiter slot such a wait left behind, and    *)
(* never where no thread makes timed waits.                                *)
(***************************************************************************)
THEOREM BlockingHasResult == Spec => []ResultThere
<1> DEFINE Inv == TypeOK /\ ResultInv
<1>1. Init => Inv
  <2> SUFFICES ASSUME Init PROVE Inv
    OBVIOUS
  <2>1. \A t \in Threads : call[t].fn = "user"
    BY DEF Init, InUser
  <2>2. waiter = None /\ \A k \in Tasks : tasks[k].phase = "free"
    BY DEF Init, FreeTask
  <2> QED
    BY <2>1, <2>2, TypesInit DEF ResultInv, NoTimeouts, OwnInv, ResultThere
<1>2. Inv /\ [Next]_vars => Inv'
  <2> SUFFICES ASSUME Inv, [Next]_vars PROVE Inv'
    OBVIOUS
  <2>1. workload' = workload
    BY DEF Next, vars
  <2>2. "timed_wait" \notin workload => NoTimeouts'
    BY NoTimeoutsKept
  <2> QED
    BY <2>1, <2>2, TypesKept, BlockingKept DEF ResultInv
<1>3. Inv => ResultThere
  BY DEF ResultInv
<1> QED
  BY <1>1, <1>2, <1>3, PTL DEF Spec

-----------------------------------------------------------------------------
(***************************************************************************)
(* A new completion is stored in one place or dropped (post).              *)
(***************************************************************************)
LEMMA PostOnce ==
    ASSUME TypeOK, OnceInv, NEW c \in Completion, Post(c), received' = received,
           c.id \notin PostedIds
    PROVE  OnceInv' /\ PostedIds' = PostedIds \cup {c.id}
<1>1. /\ queue \in Seq(Completion) /\ cq \in Seq(Completion) /\ posted \in Seq(Completion)
  BY Types
<1>2. c \notin Range(posted)
  BY DEF PostedIds
<1>3. posted' = Append(posted, c)
  BY DEF Post
<1>4. IsInjective(posted') /\ Range(posted') = Range(posted) \cup {c}
  BY <1>1, <1>2, <1>3, PushesBack DEF OnceInv
<1>5. PostedIds' = PostedIds \cup {c.id}
  BY <1>4 DEF PostedIds
<1>6. /\ c \notin Range(received) /\ c \notin Range(cq) /\ c \notin Range(queue)
      /\ c \notin lost
  BY <1>2 DEF OnceInv
<1>7. OnceInv'
  <2>1. CASE cq' = Append(cq, c) /\ UNCHANGED <<queue, lost>>
    <3>1. Range(cq') = Range(cq) \cup {c} /\ IsInjective(cq')
      BY <1>1, <1>6, <2>1, PushesBack DEF OnceInv
    <3> QED
      BY <1>4, <1>6, <2>1, <3>1 DEF OnceInv
  <2>2. CASE queue' = Append(queue, c) /\ UNCHANGED <<cq, lost>>
    <3>1. Range(queue') = Range(queue) \cup {c} /\ IsInjective(queue')
      BY <1>1, <1>6, <2>2, PushesBack DEF OnceInv
    <3> QED
      BY <1>4, <1>6, <2>2, <3>1 DEF OnceInv
  <2>3. CASE UNCHANGED <<queue, cq>> /\ lost' = lost \cup {c}
    BY <1>4, <1>6, <2>3 DEF OnceInv
  <2> QED
    BY <2>1, <2>2, <2>3 DEF Post, PostCqe, PushBack
<1> QED
  BY <1>5, <1>7

(***************************************************************************)
(* sys_io_wait takes the completions it copies out of the queue (drain).   *)
(***************************************************************************)
LEMMA DrainOnce ==
    ASSUME TypeOK, OnceInv, NEW max \in Nat, Drain(max), UNCHANGED <<cq, posted, lost>>
    PROVE  OnceInv'
<1> DEFINE n == IF max < Len(queue) THEN max ELSE Len(queue)
           a == SubSeq(queue, 1, n)
           b == SubSeq(queue, n + 1, Len(queue))
<1>1. queue \in Seq(Completion) /\ Len(queue) \in Nat /\ received \in Seq(Completion)
  BY Types
<1>2. n \in 0 .. Len(queue)
  BY <1>1
<1>3. received' = received \o a /\ queue' = b
  BY DEF Drain
<1> HIDE DEF n
<1>4. /\ Range(a) \cup Range(b) = Range(queue) /\ IsInjective(a) /\ IsInjective(b)
      /\ Range(a) \cap Range(b) = {} /\ a \in Seq(Completion)
  BY <1>1, <1>2, Splits, SplitTypes DEF OnceInv
<1> HIDE DEF a, b
<1>5. Range(received') = Range(received) \cup Range(a) /\ IsInjective(received')
  <2>1. IsInjective(received) /\ Range(received) \cap Range(a) = {}
    BY <1>4 DEF OnceInv
  <2> QED
    BY <1>1, <1>3, <1>4, <2>1, Concatenates
<1> QED
  BY <1>3, <1>4, <1>5 DEF OnceInv

(***************************************************************************)
(* Flushing moves what fits to the ring and drops the rest of the queue.   *)
(***************************************************************************)
LEMMA FlushOnce ==
    ASSUME TypeOK, OnceInv, Flush, UNCHANGED <<received, posted>>
    PROVE  OnceInv'
<1> DEFINE room == CqEntries - Len(cq)
           n == IF room < Len(queue) THEN room ELSE Len(queue)
           a == SubSeq(queue, 1, n)
           b == SubSeq(queue, n + 1, Len(queue))
<1>1. /\ queue \in Seq(Completion) /\ Len(queue) \in Nat
      /\ cq \in Seq(Completion) /\ Len(cq) \in Nat /\ Len(cq) <= CqEntries
      /\ CqEntries \in Nat
  BY Types, CompletionPortAssumption
<1>2. n \in 0 .. Len(queue)
  BY <1>1
<1>3. cq' = cq \o a /\ queue' = <<>> /\ lost' = lost \cup Range(b)
  BY DEF Flush
<1> HIDE DEF n
<1>4. /\ Range(a) \cup Range(b) = Range(queue) /\ IsInjective(a)
      /\ Range(a) \cap Range(b) = {} /\ a \in Seq(Completion)
  BY <1>1, <1>2, Splits, SplitTypes DEF OnceInv
<1> HIDE DEF a, b
<1>5. Range(cq') = Range(cq) \cup Range(a) /\ IsInjective(cq')
  <2>1. IsInjective(cq) /\ Range(cq) \cap Range(a) = {}
    BY <1>4 DEF OnceInv
  <2> QED
    BY <1>1, <1>3, <1>4, <2>1, Concatenates
<1>6. Range(queue') = {} /\ IsInjective(queue')
  BY <1>3 DEF Range, IsInjective
<1> QED
  BY <1>3, <1>4, <1>5, <1>6 DEF OnceInv

(***************************************************************************)
(* The call of a thread is at most at one batch of the submission ring.    *)
(***************************************************************************)
LEMMA OneBegun ==
    ASSUME OneConsumer, CallsInv, NEW t \in Consumers, NEW s \in Threads, s # t
    PROVE  Begun(s) = 0
BY DEF OneConsumer, CallsInv, Begun

(***************************************************************************)
(* A step that touches no submission leaves each where it is.              *)
(***************************************************************************)
LEMMA PendingSame ==
    ASSUME PendingInv, UNCHANGED <<sq, todo, inflight, nsub, posted>>,
           \A t \in Threads : Begun(t)' = Begun(t)
    PROVE  PendingInv'
<1>1. SqIds' = SqIds
  BY DEF SqIds
<1>2. InflightIds' = InflightIds /\ PostedIds' = PostedIds
      /\ \A t \in Threads : TodoIds(t)' = TodoIds(t)
  BY DEF InflightIds, PostedIds, TodoIds
<1> QED
  BY <1>1, <1>2 DEF PendingInv

(***************************************************************************)
(* A submission that completes was in flight (Complete).                   *)
(***************************************************************************)
LEMMA CompleteKept ==
    ASSUME TypeOK, PendingInv, OnceInv, NEW e \in inflight, Complete(e)
    PROVE  PendingInv' /\ OnceInv'
<1>1. /\ e \in Entry /\ e.id \in InflightIds
  BY Types DEF InflightIds
<1>2. CompletionOf(e) \in Completion /\ CompletionOf(e).id = e.id
  BY <1>1 DEF CompletionOf, Entry, Completion
<1>3. e.id \notin PostedIds /\ e.id \notin SqIds
      /\ \A t \in Threads : e.id \notin TodoIds(t)
  BY <1>1 DEF PendingInv
<1>4. OnceInv' /\ PostedIds' = PostedIds \cup {e.id}
  BY <1>2, <1>3, PostOnce DEF Complete
<1>5. InflightIds' = InflightIds \ {e.id}
  BY DEF Complete, InflightIds, PendingInv
<1>6. UNCHANGED <<sq, todo, call, nsub>>
  BY DEF Complete
<1>7. SqIds' = SqIds /\ \A t \in Threads : TodoIds(t)' = TodoIds(t)
  BY <1>6 DEF SqIds, Begun, TodoIds
<1>8. \A f, g \in inflight' : f.id = g.id => f = g
  BY DEF PendingInv, Complete
<1>9. PendingInv'
  BY <1>1, <1>3, <1>4, <1>5, <1>6, <1>7, <1>8 DEF PendingInv
<1> QED
  BY <1>4, <1>9

(***************************************************************************)
(* process_submission takes the entry out of the batch and posts its       *)
(* completion or leaves it in flight.                                      *)
(***************************************************************************)
LEMMA SubmissionKept ==
    ASSUME TypeOK, PendingInv, OnceInv, NEW t \in Threads, ProcessSubmission(t)
    PROVE  PendingInv' /\ OnceInv'
<1> DEFINE e == Head(todo[t])
           q == todo[t]
<1>0. q \in Seq(Entry) /\ q # <<>> /\ todo \in [Threads -> Seq(Entry)]
  BY Types DEF ProcessSubmission
<1>1. /\ e = q[1] /\ Len(q) \in Nat /\ Len(q) > 0 /\ DOMAIN q = 1 .. Len(q)
      /\ DOMAIN Tail(q) = 1 .. (Len(q) - 1)
      /\ \A i \in 1 .. (Len(q) - 1) : Tail(q)[i] = q[i + 1]
      /\ e \in Entry
  BY <1>0, HeadTailProperties, LenProperties, EmptySeq
<1>2. todo'[t] = Tail(q) /\ \A s \in Threads \ {t} : todo'[s] = todo[s]
  BY <1>0 DEF ProcessSubmission
<1>3. UNCHANGED <<sq, call, nsub, received>>
  BY DEF ProcessSubmission
<1>4. SqIds' = SqIds
  BY <1>3 DEF SqIds, Begun
<1>5. e.id \in TodoIds(t)
  BY <1>1 DEF TodoIds
<1>6. /\ e.id \notin SqIds /\ e.id \notin InflightIds /\ e.id \notin PostedIds
      /\ e.id <= nsub /\ \A s \in Threads \ {t} : e.id \notin TodoIds(s)
  BY <1>5 DEF PendingInv
<1> HIDE DEF e, q
<1>7. \A s \in Threads \ {t} : TodoIds(s)' = TodoIds(s)
  BY <1>2 DEF TodoIds
<1>8. TodoIds(t)' \subseteq TodoIds(t) \ {e.id}
      /\ \A i, j \in DOMAIN todo'[t] : todo'[t][i].id = todo'[t][j].id => i = j
  <2>1. \A i \in DOMAIN todo'[t] : i + 1 \in DOMAIN q /\ todo'[t][i] = q[i + 1] /\ i + 1 # 1
    BY <1>1, <1>2
  <2>2. \A i, j \in DOMAIN q : q[i].id = q[j].id => i = j
    BY DEF PendingInv, q
  <2>3. 1 \in DOMAIN q
    BY <1>1
  <2>4. ASSUME NEW i \in DOMAIN todo'[t], NEW j \in DOMAIN todo'[t],
               todo'[t][i].id = todo'[t][j].id
        PROVE  i = j
    <3>1. i + 1 = j + 1
      BY <2>1, <2>2, <2>4
    <3>2. i \in Nat /\ j \in Nat
      BY <1>1, <1>2
    <3> QED
      BY <3>1, <3>2
  <2>5. ASSUME NEW i \in DOMAIN todo'[t]
        PROVE  todo'[t][i].id \in TodoIds(t) /\ todo'[t][i].id # e.id
    BY <1>1, <2>1, <2>2, <2>3 DEF TodoIds, q
  <2> QED
    BY <2>4, <2>5 DEF TodoIds
<1>11. ASSUME InflightIds' \cup PostedIds' \subseteq InflightIds \cup PostedIds \cup {e.id},
              InflightIds' \cap PostedIds' = {},
              \A f, g \in inflight' : f.id = g.id => f = g
       PROVE  PendingInv'
  <2> DEFINE Up == InflightIds \cup PostedIds
             Up1 == InflightIds' \cup PostedIds'
  <2>1. Up1 \subseteq Up \cup {e.id}
    BY <1>11
  <2>2. \A s \in Threads : TodoIds(s)' \subseteq TodoIds(s) /\ e.id \notin TodoIds(s)'
    BY <1>6, <1>7, <1>8
  <2>3. /\ \A r, s \in Threads : r # s => TodoIds(r) \cap TodoIds(s) = {}
        /\ \A s \in Threads : TodoIds(s) \cap (SqIds \cup Up) = {}
        /\ SqIds \cap Up = {}
        /\ \A n \in SqIds \cup Up : n <= nsub
        /\ \A s \in Threads : \A n \in TodoIds(s) : n <= nsub
    BY DEF PendingInv
  <2>4. \A s \in Threads : \A i, j \in DOMAIN todo'[s] : todo'[s][i].id = todo'[s][j].id => i = j
    BY <1>2, <1>8 DEF PendingInv
  <2>5. /\ \A i, j \in DOMAIN sq' : sq'[i].id = sq'[j].id => i = j
        /\ \A i \in DOMAIN sq' : sq'[i].id <= nsub'
    BY <1>3 DEF PendingInv
  <2> HIDE DEF Up, Up1
  <2>6. /\ \A r, s \in Threads : r # s => TodoIds(r)' \cap TodoIds(s)' = {}
        /\ \A s \in Threads : TodoIds(s)' \cap (SqIds' \cup Up1) = {}
    BY <1>4, <2>1, <2>2, <2>3
  <2>7. SqIds' \cap Up1 = {}
    BY <1>4, <1>6, <2>1, <2>3
  <2>8. \A n \in SqIds' \cup Up1 : n <= nsub'
    BY <1>3, <1>4, <1>6, <2>1, <2>3
  <2>9. \A s \in Threads : \A n \in TodoIds(s)' : n <= nsub'
    BY <1>3, <2>2, <2>3
  <2> QED
    BY <1>11, <2>4, <2>5, <2>6, <2>7, <2>8, <2>9 DEF PendingInv, Up1
<1>9. CASE e.kind \in {"ready", "ready_data", "error"}
  <2>1. Post(CompletionOf(e)) /\ inflight' = inflight
    BY <1>9 DEF ProcessSubmission, e
  <2>2. CompletionOf(e) \in Completion /\ CompletionOf(e).id = e.id
    BY <1>1 DEF CompletionOf, Entry, Completion
  <2>3. OnceInv' /\ PostedIds' = PostedIds \cup {e.id}
    BY <1>3, <1>6, <2>1, <2>2, PostOnce
  <2>4. InflightIds' = InflightIds
    BY <2>1 DEF InflightIds
  <2>5. PendingInv'
    BY <1>6, <1>11, <2>1, <2>3, <2>4 DEF PendingInv
  <2> QED
    BY <2>3, <2>5
<1>10. CASE e.kind \notin {"ready", "ready_data", "error"}
  <2>1. inflight' = inflight \cup {e} /\ UNCHANGED <<queue, cq, posted, lost>>
    BY <1>10 DEF ProcessSubmission, e
  <2>2. OnceInv'
    BY <1>3, <2>1 DEF OnceInv
  <2>3. InflightIds' = InflightIds \cup {e.id} /\ PostedIds' = PostedIds
    BY <2>1 DEF InflightIds, PostedIds
  <2>4. \A f, g \in inflight' : f.id = g.id => f = g
    <3>1. \A f \in inflight : f.id # e.id
      BY <1>6 DEF InflightIds
    <3> QED
      BY <2>1, <3>1 DEF PendingInv
  <2>5. PendingInv'
    BY <1>6, <1>11, <2>3, <2>4 DEF PendingInv
  <2> QED
    BY <2>2, <2>5
<1> QED
  BY <1>9, <1>10

(***************************************************************************)
(* Submissions are numbered.                                               *)
(***************************************************************************)
LEMMA IdsAreNumbers ==
    ASSUME TypeOK
    PROVE  /\ SqIds \subseteq Nat /\ InflightIds \subseteq Nat /\ PostedIds \subseteq Nat
           /\ \A t \in Threads : TodoIds(t) \subseteq Nat
           /\ \A i \in DOMAIN sq : sq[i].id \in Nat
<1>1. /\ \A e \in Entry : e.id \in Nat
      /\ \A c \in Completion : c.id \in Nat
  BY CompletionPortAssumption DEF Entry, Completion
<1>2. \A i \in DOMAIN sq : sq[i] \in Entry
  BY Types, ElementOfSeq, LenProperties
<1>3. \A t \in Threads : \A i \in DOMAIN todo[t] : todo[t][i] \in Entry
  <2> TAKE t \in Threads
  <2>1. todo[t] \in Seq(Entry)
    BY Types
  <2> QED
    BY <2>1, ElementOfSeq, LenProperties
<1>4. Range(posted) \subseteq Completion
  BY Types, RangeOfSeq
<1>5. inflight \subseteq Entry
  BY Types
<1> QED
  BY <1>1, <1>2, <1>3, <1>4, <1>5 DEF SqIds, InflightIds, PostedIds, TodoIds

(***************************************************************************)
(* sys_io_submit starts with new submissions.                              *)
(***************************************************************************)
LEMMA IoSubmitKept ==
    ASSUME TypeOK, PendingInv, NEW t \in Threads, NEW kinds \in Batches, IoSubmit(t, kinds)
    PROVE  PendingInv'
<1>0. /\ call \in [Threads -> CallRecord] /\ todo \in [Threads -> Seq(Entry)]
      /\ nsub \in Nat
  BY Types
<1>1. nsub \in 0 .. MaxOps /\ nsub + Len(kinds) <= MaxOps
  BY Types DEF IoSubmit
<1>2. /\ Len(kinds) \in 1 .. 2
      /\ Batch(kinds) \in Seq(Entry) /\ Len(Batch(kinds)) = Len(kinds)
      /\ \A i \in 1 .. Len(kinds) : Batch(kinds)[i].id = nsub + i
  BY <1>1, BatchTypes
<1>3. DOMAIN Batch(kinds) = 1 .. Len(kinds)
  BY <1>2, LenProperties
<1>4. /\ todo'[t] = Batch(kinds) /\ \A s \in Threads \ {t} : todo'[s] = todo[s]
      /\ nsub' = nsub + Len(kinds) /\ nsub' >= nsub /\ nsub' \in Nat
      /\ UNCHANGED <<sq, inflight, posted>>
  BY <1>0, <1>2 DEF IoSubmit, port, history
<1>5. \A s \in Threads : Begun(s)' = Begun(s)
  <2>1. call'[t].fn = "submit" /\ call[t].fn = "user"
    BY <1>0 DEF IoSubmit, MaySyscall, CallRecord
  <2>2. \A s \in Threads \ {t} : call'[s] = call[s]
    BY <1>0 DEF IoSubmit
  <2> QED
    BY <2>1, <2>2 DEF Begun
<1>6. SqIds' = SqIds /\ InflightIds' = InflightIds /\ PostedIds' = PostedIds
      /\ \A s \in Threads \ {t} : TodoIds(s)' = TodoIds(s)
  BY <1>4, <1>5 DEF SqIds, InflightIds, PostedIds, TodoIds
<1>7. /\ \A i, j \in DOMAIN todo'[t] : todo'[t][i].id = todo'[t][j].id => i = j
      /\ \A n \in TodoIds(t)' : n \in Nat /\ n > nsub /\ n <= nsub'
  <2>1. \A i \in DOMAIN todo'[t] : i \in Nat /\ i > 0 /\ i <= Len(kinds)
                                  /\ todo'[t][i].id = nsub + i
    BY <1>2, <1>3, <1>4
  <2>2. ASSUME NEW i \in DOMAIN todo'[t], NEW j \in DOMAIN todo'[t],
               todo'[t][i].id = todo'[t][j].id
        PROVE  i = j
    BY <1>0, <2>1, <2>2
  <2>3. ASSUME NEW n \in TodoIds(t)' PROVE n \in Nat /\ n > nsub /\ n <= nsub'
    <3>1. PICK i \in DOMAIN todo'[t] : n = todo'[t][i].id
      BY <2>3 DEF TodoIds
    <3> QED
      BY <1>0, <1>2, <1>4, <2>1, <3>1
  <2> QED
    BY <2>2, <2>3
<1>8. ASSUME NEW n \in Nat, n <= nsub PROVE n <= nsub' /\ n \notin TodoIds(t)'
  BY <1>0, <1>4, <1>7, <1>8
<1>9. \A s \in Threads : \A i, j \in DOMAIN todo'[s] : todo'[s][i].id = todo'[s][j].id => i = j
  BY <1>4, <1>7 DEF PendingInv
<1>10. /\ \A i, j \in DOMAIN sq' : sq'[i].id = sq'[j].id => i = j
       /\ \A i \in DOMAIN sq' : sq'[i].id <= nsub'
       /\ \A f, g \in inflight' : f.id = g.id => f = g
  BY <1>4, <1>8, IdsAreNumbers DEF PendingInv
<1>11. \A r, s \in Threads : r # s => TodoIds(r)' \cap TodoIds(s)' = {}
  BY <1>6, <1>8, IdsAreNumbers DEF PendingInv
<1>12. \A s \in Threads : TodoIds(s)' \cap (SqIds \cup InflightIds \cup PostedIds)' = {}
  BY <1>6, <1>8, IdsAreNumbers DEF PendingInv
<1>13. /\ \A n \in (SqIds \cup InflightIds \cup PostedIds)' : n <= nsub'
       /\ \A s \in Threads : \A n \in TodoIds(s)' : n <= nsub'
  BY <1>6, <1>7, <1>8, IdsAreNumbers DEF PendingInv
<1> QED
  BY <1>6, <1>9, <1>10, <1>11, <1>12, <1>13 DEF PendingInv

(***************************************************************************)
(* User code adds a new submission at the end of the shared ring.          *)
(***************************************************************************)
LEMMA SqPushKept ==
    ASSUME TypeOK, PendingInv, NEW t \in Threads, NEW kind \in Kinds, SqPush(t, kind)
    PROVE  PendingInv'
<1> DEFINE e == [id |-> nsub + 1, kind |-> kind]
<1>0. sq \in Seq(Entry) /\ nsub \in Nat /\ nsub' = nsub + 1 /\ nsub + 1 \in 1 .. MaxOps
  BY SMTT(30), Types, CompletionPortAssumption DEF SqPush
<1>1. e \in Entry /\ sq' = Append(sq, e) /\ e.id = nsub + 1
  BY <1>0 DEF SqPush, Entry
<1> HIDE DEF e
<1>2. /\ Len(sq) \in Nat /\ DOMAIN sq = 1 .. Len(sq) /\ DOMAIN sq' = 1 .. (Len(sq) + 1)
      /\ \A i \in 1 .. Len(sq) : sq'[i] = sq[i]
      /\ sq'[Len(sq) + 1] = e
  BY <1>0, <1>1, AppendProperties, LenProperties
<1>3. \A i \in DOMAIN sq' : \/ i \in DOMAIN sq /\ sq'[i] = sq[i]
                            \/ i = Len(sq) + 1 /\ sq'[i] = e
  BY <1>2
<1>4. UNCHANGED <<todo, inflight, posted, call>>
  BY DEF SqPush, threads, history
<1>5. InflightIds' = InflightIds /\ PostedIds' = PostedIds
      /\ \A s \in Threads : TodoIds(s)' = TodoIds(s) /\ Begun(s)' = Begun(s)
  BY <1>4 DEF InflightIds, PostedIds, TodoIds, Begun
<1>6. SqIds' \subseteq SqIds \cup {nsub + 1}
  BY <1>1, <1>3, <1>5 DEF SqIds
<1>7. ASSUME NEW n \in Nat, n <= nsub PROVE n <= nsub' /\ n # nsub + 1
  BY <1>0, <1>7
<1>8. \A i \in DOMAIN sq : sq[i].id # e.id /\ sq[i].id <= nsub'
  BY <1>1, <1>7, IdsAreNumbers DEF PendingInv
<1>9. /\ \A i, j \in DOMAIN sq' : sq'[i].id = sq'[j].id => i = j
      /\ \A i \in DOMAIN sq' : sq'[i].id <= nsub'
  <2>1. \A i \in DOMAIN sq' : sq'[i].id <= nsub'
    BY <1>0, <1>1, <1>3, <1>8
  <2>2. \A i, j \in DOMAIN sq' : sq'[i].id = sq'[j].id => i = j
    BY <1>3, <1>8 DEF PendingInv
  <2> QED
    BY <2>1, <2>2
<1>10. \A n \in InflightIds \cup PostedIds : n # nsub + 1 /\ n <= nsub'
  BY <1>7, IdsAreNumbers DEF PendingInv
<1>11. \A s \in Threads : \A n \in TodoIds(s) : n # nsub + 1 /\ n <= nsub'
  BY <1>7, IdsAreNumbers DEF PendingInv
<1>12. \A n \in SqIds' : n <= nsub'
  BY <1>0, <1>6, <1>7, IdsAreNumbers DEF PendingInv
<1>13. \A s \in Threads : TodoIds(s) \cap (SqIds' \cup InflightIds \cup PostedIds) = {}
  BY <1>6, <1>11 DEF PendingInv
<1>14. SqIds' \cap (InflightIds \cup PostedIds) = {}
  BY <1>6, <1>10 DEF PendingInv
<1>15. /\ \A s \in Threads : \A i, j \in DOMAIN todo'[s] :
             todo'[s][i].id = todo'[s][j].id => i = j
       /\ \A f, g \in inflight' : f.id = g.id => f = g
       /\ \A r, s \in Threads : r # s => TodoIds(r) \cap TodoIds(s) = {}
       /\ InflightIds \cap PostedIds = {}
  BY <1>4 DEF PendingInv
<1> QED
  BY <1>5, <1>9, <1>10, <1>11, <1>12, <1>13, <1>14, <1>15 DEF PendingInv

(***************************************************************************)
(* sys_io_ring_enter takes the oldest submissions of the shared ring as    *)
(* its batch.                                                              *)
(***************************************************************************)
LEMMA RingEnterKept ==
    ASSUME OneConsumer, TypeOK, CallsInv, PendingInv, NEW t \in Threads,
           NEW n \in Sizes, NEW min \in Sizes, RingEnter(t, n, min)
    PROVE  PendingInv'
<1> DEFINE count == IF n < Len(sq) THEN n ELSE Len(sq)
<1>0. /\ call \in [Threads -> CallRecord] /\ todo \in [Threads -> Seq(Entry)]
      /\ sq \in Seq(Entry) /\ Len(sq) \in Nat /\ DOMAIN sq = 1 .. Len(sq)
  BY Types, LenProperties
<1>1. count \in 0 .. Len(sq)
  BY <1>0 DEF Sizes
<1>2. /\ todo'[t] = SubSeq(sq, 1, count) /\ \A s \in Threads \ {t} : todo'[s] = todo[s]
      /\ call'[t].fn = "ring_submit" /\ call'[t].max = count
      /\ \A s \in Threads \ {t} : call'[s] = call[s]
      /\ UNCHANGED <<sq, inflight, nsub, posted>> /\ t \in Consumers /\ call[t].fn = "user"
  BY <1>0 DEF RingEnter, MaySyscall, InUser, port, history
<1> HIDE DEF count
<1>3. /\ DOMAIN todo'[t] = 1 .. count
      /\ \A i \in 1 .. count : todo'[t][i] = sq[i]
  <2>1. /\ SubSeq(sq, 1, count) \in Seq(Entry) /\ Len(SubSeq(sq, 1, count)) = count
        /\ \A i \in 1 .. count : SubSeq(sq, 1, count)[i] = sq[i]
    BY <1>0, <1>1, SplitTypes
  <2> QED
    BY <1>2, <2>1, LenProperties
<1>4. /\ \A s \in Threads : Begun(s) = 0
      /\ Begun(t)' = count /\ \A s \in Threads \ {t} : Begun(s)' = 0
  <2>1. \A s \in Threads \ {t} : Begun(s) = 0
    BY <1>2, OneBegun
  <2>2. \A s \in Threads \ {t} : Begun(s)' = Begun(s)
    BY <1>2 DEF Begun
  <2>3. Begun(t)' = count /\ Begun(t) = 0
    BY <1>2 DEF Begun
  <2> QED
    BY <2>1, <2>2, <2>3
<1>5. SqIds = {sq[i].id : i \in DOMAIN sq}
  <2>1. \A i \in DOMAIN sq : \A s \in Threads : i > Begun(s)
    BY <1>0, <1>4
  <2> QED
    BY <2>1 DEF SqIds
<1>6. \A i \in DOMAIN sq : (\A s \in Threads : i > Begun(s)') => i > count
  BY <1>4
<1>7. SqIds' \subseteq {sq[i].id : i \in {j \in DOMAIN sq : j > count}}
  BY <1>2, <1>6 DEF SqIds
<1>8. TodoIds(t)' \subseteq {sq[i].id : i \in {j \in DOMAIN sq : j <= count}}
  BY <1>0, <1>1, <1>3 DEF TodoIds
<1>9. /\ SqIds' \subseteq SqIds /\ TodoIds(t)' \subseteq SqIds
      /\ TodoIds(t)' \cap SqIds' = {}
  <2>1. SqIds' \subseteq SqIds /\ TodoIds(t)' \subseteq SqIds
    BY <1>5, <1>7, <1>8
  <2>2. ASSUME NEW x \in TodoIds(t)', x \in SqIds' PROVE FALSE
    <3>1. PICK i \in DOMAIN sq : i > count /\ sq[i].id = x
      BY <1>7, <2>2
    <3>2. PICK j \in DOMAIN sq : j <= count /\ sq[j].id = x
      BY <1>8, <2>2
    <3>3. i = j
      BY <3>1, <3>2 DEF PendingInv
    <3> QED
      BY <1>0, <1>1, <3>1, <3>2, <3>3
  <2> QED
    BY <2>1, <2>2
<1>10. InflightIds' = InflightIds /\ PostedIds' = PostedIds
       /\ \A s \in Threads \ {t} : TodoIds(s)' = TodoIds(s)
  BY <1>2 DEF InflightIds, PostedIds, TodoIds
<1>11. /\ \A i, j \in DOMAIN todo'[t] : todo'[t][i].id = todo'[t][j].id => i = j
  BY <1>0, <1>1, <1>3 DEF PendingInv
<1>12. \A s \in Threads : \A i, j \in DOMAIN todo'[s] :
             todo'[s][i].id = todo'[s][j].id => i = j
  BY <1>2, <1>11 DEF PendingInv
<1>13. \A r, s \in Threads : r # s => TodoIds(r)' \cap TodoIds(s)' = {}
  BY <1>9, <1>10 DEF PendingInv
<1>14. \A s \in Threads : TodoIds(s)' \cap (SqIds \cup InflightIds \cup PostedIds)' = {}
  BY <1>9, <1>10 DEF PendingInv
<1>15. /\ \A m \in (SqIds \cup InflightIds \cup PostedIds)' : m <= nsub'
       /\ \A s \in Threads : \A m \in TodoIds(s)' : m <= nsub'
       /\ SqIds' \cap (InflightIds \cup PostedIds)' = {}
  BY <1>2, <1>9, <1>10 DEF PendingInv
<1>16. /\ \A i, j \in DOMAIN sq' : sq'[i].id = sq'[j].id => i = j
       /\ \A i \in DOMAIN sq' : sq'[i].id <= nsub'
       /\ \A f, g \in inflight' : f.id = g.id => f = g
       /\ InflightIds' \cap PostedIds' = {}
  BY <1>2, <1>10 DEF PendingInv
<1> QED
  BY <1>12, <1>13, <1>14, <1>15, <1>16 DEF PendingInv

(***************************************************************************)
(* When it is done with its batch the head of the shared ring moves past   *)
(* it.                                                                     *)
(***************************************************************************)
LEMMA RingSubmittedKept ==
    ASSUME OneConsumer, TypeOK, CallsInv, PendingInv, NEW t \in Threads, RingSubmitted(t)
    PROVE  PendingInv'
<1> DEFINE m == call[t].max
<1>0. /\ call \in [Threads -> CallRecord] /\ m \in Nat
      /\ sq \in Seq(Entry) /\ Len(sq) \in Nat /\ DOMAIN sq = 1 .. Len(sq)
  BY Types, LenProperties DEF CallRecord
<1>1. /\ sq' = SubSeq(sq, m + 1, Len(sq)) /\ call[t].fn = "ring_submit"
      /\ UNCHANGED <<todo, inflight, nsub, posted>>
  BY DEF RingSubmitted, RingLoop, Resumes
<1>2. t \in Consumers
  BY <1>1 DEF CallsInv
<1>3. /\ Begun(t) = m /\ \A s \in Threads \ {t} : Begun(s) = 0
  BY <1>1, <1>2, OneBegun DEF Begun
<1> HIDE DEF m
<1>4. \A i \in DOMAIN sq' : m + i \in DOMAIN sq /\ sq'[i] = sq[m + i] /\ i \in Nat /\ i > 0
  <2>1. \A i \in (m + 1) .. Len(sq) : sq[i] \in Entry
    BY <1>0, ElementOfSeq
  <2> DEFINE r == SubSeq(sq, m + 1, Len(sq))
  <2>2. /\ r \in Seq(Entry)
        /\ Len(r) = IF m + 1 <= Len(sq) THEN Len(sq) - (m + 1) + 1 ELSE 0
        /\ \A i \in 1 .. (Len(sq) - (m + 1) + 1) : r[i] = sq[(m + 1) + i - 1]
    <3> HIDE DEF r
    <3> QED
      BY <1>0, <2>1, SubSeqProperties DEF r
  <2>3. DOMAIN r = 1 .. Len(r) /\ Len(r) \in Nat
    BY <2>2, LenProperties
  <2> HIDE DEF r
  <2>4. ASSUME NEW i \in DOMAIN r
        PROVE  m + i \in DOMAIN sq /\ r[i] = sq[m + i] /\ i \in Nat /\ i > 0
    <3>a. i \in Nat /\ i > 0 /\ i <= Len(r)
      BY <2>3
    <3>1. i \in 1 .. (Len(sq) - (m + 1) + 1) /\ (m + 1) + i - 1 = m + i
      <4>1. CASE m + 1 <= Len(sq)
        BY <1>0, <2>2, <3>a, <4>1
      <4>2. CASE ~(m + 1 <= Len(sq))
        BY <1>0, <2>2, <3>a, <4>2
      <4> QED
        BY <4>1, <4>2
    <3>2. r[i] = sq[m + i]
      BY <2>2, <3>1
    <3> QED
      BY <1>0, <3>1, <3>2
  <2> QED
    BY <1>1, <2>4 DEF r
<1>5. SqIds' \subseteq SqIds
  <2>1. ASSUME NEW i \in DOMAIN sq' PROVE sq'[i].id \in SqIds
    <3>1. m + i \in DOMAIN sq /\ sq'[i] = sq[m + i] /\ \A s \in Threads : m + i > Begun(s)
      BY <1>0, <1>3, <1>4
    <3> QED
      BY <3>1 DEF SqIds
  <2> QED
    BY <2>1 DEF SqIds
<1>6. /\ \A i, j \in DOMAIN sq' : sq'[i].id = sq'[j].id => i = j
      /\ \A i \in DOMAIN sq' : sq'[i].id <= nsub'
  <2>1. ASSUME NEW i \in DOMAIN sq', NEW j \in DOMAIN sq', sq'[i].id = sq'[j].id
        PROVE  i = j
    <3>1. m + i = m + j
      BY <1>4, <2>1 DEF PendingInv
    <3> QED
      BY <1>0, <1>4, <3>1
  <2> QED
    BY <1>1, <1>4, <2>1 DEF PendingInv
<1>7. InflightIds' = InflightIds /\ PostedIds' = PostedIds
      /\ \A s \in Threads : TodoIds(s)' = TodoIds(s)
  BY <1>1 DEF InflightIds, PostedIds, TodoIds
<1>8. /\ \A s \in Threads : \A i, j \in DOMAIN todo'[s] :
            todo'[s][i].id = todo'[s][j].id => i = j
      /\ \A f, g \in inflight' : f.id = g.id => f = g
  BY <1>1 DEF PendingInv
<1>9. /\ \A r, s \in Threads : r # s => TodoIds(r)' \cap TodoIds(s)' = {}
      /\ \A s \in Threads : TodoIds(s)' \cap (SqIds \cup InflightIds \cup PostedIds)' = {}
  BY <1>5, <1>7 DEF PendingInv
<1>10. /\ \A n \in (SqIds \cup InflightIds \cup PostedIds)' : n <= nsub'
       /\ \A s \in Threads : \A n \in TodoIds(s)' : n <= nsub'
       /\ SqIds' \cap (InflightIds \cup PostedIds)' = {} /\ InflightIds' \cap PostedIds' = {}
  BY <1>1, <1>5, <1>7 DEF PendingInv
<1> QED
  BY <1>6, <1>8, <1>9, <1>10 DEF PendingInv

(***************************************************************************)
(* Every step keeps each submission and each completion in one place.      *)
(***************************************************************************)
LEMMA OnceKept ==
    ASSUME OneConsumer, TypeOK, CallsInv, PendingInv, OnceInv, [Next]_vars
    PROVE  PendingInv' /\ OnceInv'
<1>0. call \in [Threads -> CallRecord]
  BY Types
<1>1. ASSUME UNCHANGED <<queue, cq, posted, received, lost>> PROVE OnceInv'
  BY <1>1 DEF OnceInv
<1>2. ASSUME UNCHANGED <<sq, todo, inflight, nsub, posted>>, UNCHANGED call
      PROVE  PendingInv'
  BY <1>2, PendingSame DEF Begun
<1>3. ASSUME UNCHANGED <<sq, todo, inflight, nsub, posted>>, NEW t \in Threads,
             call[t].fn # "ring_submit", call'[t].fn # "ring_submit",
             \A s \in Threads \ {t} : call'[s] = call[s]
      PROVE  PendingInv'
  BY <1>3, PendingSame DEF Begun
<1>4. ASSUME NEW t \in Threads, NEW c \in CallRecord, NEW ts, c.fn = "io_wait",
             call[t].fn # "ring_submit", IoWaitLoop(t, c, ts)
      PROVE  PendingInv' /\ OnceInv'
  <2>1. call'[t].fn \in {"user", "io_wait"} /\ \A s \in Threads \ {t} : call'[s] = call[s]
    BY <1>0, <1>4 DEF IoWaitLoop, InUser
  <2>2. UNCHANGED <<sq, todo, inflight, nsub, posted>>
    BY <1>4 DEF IoWaitLoop
  <2>3. PendingInv'
    BY <1>3, <1>4, <2>1, <2>2
  <2>4. CASE IoWaitReady(c)
    <3>1. Drain(c.max) /\ UNCHANGED <<cq, posted, lost>> /\ c.max \in Nat
      BY <1>4, <2>4 DEF IoWaitLoop, CallRecord
    <3> QED
      BY <2>3, <3>1, DrainOnce
  <2>5. CASE ~IoWaitReady(c)
    BY <1>1, <1>4, <2>3, <2>5 DEF IoWaitLoop
  <2> QED
    BY <2>4, <2>5
<1>5. ASSUME NEW t \in Threads, Returns(t) PROVE PendingInv' /\ OnceInv'
  <2>1. CASE ProcessSubmission(t)
    BY <2>1, SubmissionKept
  <2>2. CASE SubmitReturns(t)
    <3>1. call[t].fn = "submit" /\ call'[t].fn = "user"
          /\ \A s \in Threads \ {t} : call'[s] = call[s]
      BY <1>0, <2>2 DEF SubmitReturns, Resumes, InUser
    <3> QED
      BY <1>1, <1>3, <2>2, <3>1 DEF SubmitReturns, port, history
  <2>3. CASE IoWaitResumes(t)
    BY <1>0, <1>4, <2>3 DEF IoWaitResumes, Resumes
  <2>4. CASE BlockingResumes(t)
    <3>1. call'[t].fn \in {"user", "panicked"} /\ call[t].fn = "blocking"
      BY <1>0, <2>4 DEF BlockingResumes, InUser, CallRecord, Resumes
    <3>2. \A s \in Threads \ {t} : call'[s] = call[s]
      BY <1>0, <2>4 DEF BlockingResumes
    <3> QED
      BY <1>1, <1>3, <2>4, <3>1, <3>2 DEF BlockingResumes, port, history
  <2>5. CASE RingSubmitted(t)
    <3>1. Flush /\ UNCHANGED <<received, posted>>
      BY <2>5 DEF RingSubmitted, RingLoop
    <3> QED
      BY <2>5, <3>1, FlushOnce, RingSubmittedKept
  <2>6. CASE RingResumes(t)
    <3>1. Flush /\ UNCHANGED <<received, posted, sq, todo, inflight, nsub>>
          /\ call[t].fn = "ring_wait" /\ RingLoop(t)
      BY <2>6 DEF RingResumes, RingLoop, Resumes
    <3> DEFINE w == [call[t] EXCEPT !.fn = "ring_wait"]
    <3>2. w.fn = "ring_wait" /\ InUser.fn = "user"
      BY <1>0 DEF CallRecord, InUser
    <3>3. (call'[t] = InUser \/ call'[t] = w) /\ \A s \in Threads \ {t} : call'[s] = call[s]
      BY <1>0, <3>1 DEF RingLoop
    <3> HIDE DEF w
    <3>4. call'[t].fn # "ring_submit"
      BY <3>2, <3>3
    <3> QED
      BY <1>3, <3>1, <3>3, <3>4, FlushOnce
  <2> QED
    BY <1>5, <2>1, <2>2, <2>3, <2>4, <2>5, <2>6 DEF Returns
<1>6. ASSUME NEW t \in Threads, UserStep(t) PROVE PendingInv' /\ OnceInv'
  <2>1. ASSUME NEW kinds \in Batches, IoSubmit(t, kinds) PROVE PendingInv' /\ OnceInv'
    BY <1>1, <2>1, IoSubmitKept DEF IoSubmit, port, history
  <2>2. ASSUME NEW max \in Sizes \ {0}, NEW min \in Sizes, IoWait(t, max, min)
        PROVE  PendingInv' /\ OnceInv'
    <3>1. call[t].fn # "ring_submit"
      BY <2>2 DEF IoWait, MaySyscall
    <3> QED
      BY <1>4, <2>2, <3>1, IoWaitCall
  <2>3. ASSUME NEW max \in Sizes \ {0}, NEW min \in Sizes, NEW k \in Tasks,
               IoWaitTimed(t, max, min, k)
        PROVE  PendingInv' /\ OnceInv'
    <3>1. call[t].fn # "ring_submit"
      BY <2>3 DEF IoWaitTimed, MaySyscall
    <3> DEFINE ts == [tasks EXCEPT ![k] = [phase |-> "delay", thread |-> t]]
    <3>2. PICK c \in CallRecord : c.fn = "io_wait" /\ IoWaitLoop(t, c, ts)
      BY <2>3, IoWaitTimedCall
    <3> QED
      BY <1>4, <3>1, <3>2
  <2>4. ASSUME NEW k \in Tasks, BlockingCall(t, k) PROVE PendingInv' /\ OnceInv'
    <3>1. call'[t].fn = "blocking" /\ call[t].fn = "user"
          /\ \A s \in Threads \ {t} : call'[s] = call[s]
      BY <1>0, <2>4 DEF BlockingCall, MaySyscall, InUser
    <3> QED
      BY <1>1, <1>3, <2>4, <3>1 DEF BlockingCall, port, history
  <2>5. CASE SetupRings(t)
    BY <1>1, <1>2, <2>5 DEF SetupRings, threads, history
  <2>6. ASSUME NEW kind \in Kinds, SqPush(t, kind) PROVE PendingInv' /\ OnceInv'
    BY <1>1, <2>6, SqPushKept DEF SqPush, history
  <2>7. CASE CqPop(t)
    <3>1. PendingInv'
      BY <1>2, <2>7 DEF CqPop, threads
    <3>2. /\ cq \in Seq(Completion) /\ received \in Seq(Completion) /\ cq # <<>>
          /\ received' = Append(received, Head(cq)) /\ cq' = Tail(cq)
          /\ UNCHANGED <<queue, posted, lost>>
      BY <2>7, Types DEF CqPop
    <3>3. /\ Head(cq) \in Range(cq) /\ Range(cq') = Range(cq) \ {Head(cq)}
          /\ IsInjective(cq') /\ Head(cq) \in Completion
      BY <3>2, PopFront, HeadTailProperties DEF OnceInv
    <3>4. Range(received') = Range(received) \cup {Head(cq)} /\ IsInjective(received')
      <4>1. Head(cq) \notin Range(received) /\ IsInjective(received)
        BY <3>3 DEF OnceInv
      <4> QED
        BY <3>2, <3>3, <4>1, PushesBack
    <3> QED
      BY <3>1, <3>2, <3>3, <3>4 DEF OnceInv
  <2>8. ASSUME NEW n \in Sizes, NEW min \in Sizes, RingEnter(t, n, min)
        PROVE  PendingInv' /\ OnceInv'
    BY <1>1, <2>8, RingEnterKept DEF RingEnter, port, history
  <2> QED
    BY <1>6, <2>1, <2>2, <2>3, <2>4, <2>5, <2>6, <2>7, <2>8 DEF UserStep
<1>7. ASSUME NEW t \in Threads, DeadlinePasses(t) PROVE PendingInv' /\ OnceInv'
  <2>1. \A s \in Threads : Begun(s)' = Begun(s)
    BY <1>0, <1>7 DEF DeadlinePasses, CallRecord, Begun
  <2> QED
    BY <1>1, <1>7, <2>1, PendingSame DEF DeadlinePasses, port, history
<1>8. ASSUME NEW k \in Tasks, TaskStep(k) PROVE PendingInv' /\ OnceInv'
  <2>1. \A s \in Threads : Begun(s)' = Begun(s)
    BY <1>0, <1>8 DEF TaskStep, DelayExpires, DelayCancelled, TaskUnblocks,
       FutureStoresResult, threads, CallRecord, Begun
  <2>2. UNCHANGED <<sq, todo, inflight, nsub, posted, queue, cq, received, lost>>
    BY <1>8 DEF TaskStep, DelayExpires, DelayCancelled, TaskUnblocks,
       FutureStoresResult, threads, port, history
  <2> QED
    BY <1>1, <2>1, <2>2, PendingSame
<1>9. ASSUME NEW e \in inflight, Complete(e) PROVE PendingInv' /\ OnceInv'
  BY <1>9, CompleteKept
<1>10. CASE UNCHANGED vars
  BY <1>1, <1>2, <1>10 DEF vars, port, threads, history
<1> QED
  BY <1>5, <1>6, <1>7, <1>8, <1>9, <1>10 DEF Next

(***************************************************************************)
(* Submissions and completions are in one place each, in every behaviour   *)
(* of a port with one consumer.                                            *)
(***************************************************************************)
LEMMA OncePlaced ==
    ASSUME OneConsumer
    PROVE  Spec => [](TypeOK /\ CallsInv /\ PendingInv /\ OnceInv)
<1> DEFINE Inv == TypeOK /\ CallsInv /\ PendingInv /\ OnceInv
<1>1. Init => Inv
  <2> SUFFICES ASSUME Init PROVE Inv
    OBVIOUS
  <2>1. \A t \in Threads : call[t].fn = "user" /\ todo[t] = <<>>
    BY DEF Init, InUser
  <2>2. /\ queue = <<>> /\ cq = <<>> /\ sq = <<>> /\ posted = <<>> /\ received = <<>>
        /\ lost = {} /\ inflight = {}
    BY DEF Init
  <2>3. Range(<<>>) = {} /\ IsInjective(<<>>) /\ DOMAIN <<>> = {}
    BY DEF Range, IsInjective
  <2>4. CallsInv
    BY <2>1 DEF CallsInv
  <2>5. OnceInv
    BY <2>2, <2>3 DEF OnceInv
  <2>6. /\ SqIds = {} /\ InflightIds = {} /\ PostedIds = {}
        /\ \A t \in Threads : TodoIds(t) = {}
    BY <2>1, <2>2, <2>3 DEF SqIds, InflightIds, PostedIds, TodoIds
  <2>7. PendingInv
    BY <2>1, <2>2, <2>3, <2>6 DEF PendingInv
  <2> QED
    BY <2>4, <2>5, <2>7, TypesInit
<1>2. Inv /\ [Next]_vars => Inv'
  BY TypesKept, CallsKept, OnceKept
<1> QED
  BY <1>1, <1>2, PTL DEF Spec

(***************************************************************************)
(* For one consumer per port, every completion is in exactly one place:    *)
(* with user code, in the shared ring, in the kernel queue, or dropped     *)
(* because one of these was full; and each submission completes once.      *)
(***************************************************************************)
THEOREM CompletedOnce ==
    ASSUME OneConsumer
    PROVE  Spec => []ExactlyOnce
<1>1. TypeOK /\ OnceInv => ExactlyOnce
  <2> SUFFICES ASSUME TypeOK, OnceInv PROVE ExactlyOnce
    OBVIOUS
  <2>1. received \in Seq(Completion) /\ cq \in Seq(Completion) /\ queue \in Seq(Completion)
    BY Types
  <2> DEFINE rc == received \o cq
  <2>2. /\ rc \in Seq(Completion) /\ IsInjective(rc)
        /\ Range(rc) = Range(received) \cup Range(cq)
    BY <2>1, Concatenates DEF OnceInv
  <2> HIDE DEF rc
  <2>3. Range(rc) \cap Range(queue) = {} /\ IsInjective(queue)
    BY <2>2 DEF OnceInv
  <2>4. IsInjective(rc \o queue) /\ Range(rc \o queue) = Range(rc) \cup Range(queue)
    BY <2>1, <2>2, <2>3, Concatenates
  <2> QED
    BY <2>2, <2>4 DEF OnceInv, ExactlyOnce, rc
<1>2. Spec => [](TypeOK /\ CallsInv /\ PendingInv /\ OnceInv)
  BY OncePlaced
<1> QED
  BY <1>1, <1>2, PTL

-----------------------------------------------------------------------------
(***************************************************************************)
(* What comes before what, in one sequence after another.                  *)
(***************************************************************************)
LEMMA ConcatPrecedes ==
    ASSUME NEW S, NEW q \in Seq(S), NEW r \in Seq(S), NEW c, NEW d
    PROVE  Precedes(q \o r, c, d) <=> \/ Precedes(q, c, d) \/ Precedes(r, c, d)
                                      \/ c \in Range(q) /\ d \in Range(r)
<1> DEFINE s == q \o r
<1>1. /\ s \in Seq(S) /\ Len(q) \in Nat /\ Len(r) \in Nat
      /\ DOMAIN s = 1 .. (Len(q) + Len(r))
      /\ DOMAIN q = 1 .. Len(q) /\ DOMAIN r = 1 .. Len(r)
      /\ \A i \in 1 .. (Len(q) + Len(r)) :
             s[i] = IF i <= Len(q) THEN q[i] ELSE r[i - Len(q)]
  BY ConcatProperties, LenProperties
<1> HIDE DEF s
<1>2. \A i \in DOMAIN q : i \in DOMAIN s /\ s[i] = q[i]
  BY <1>1
<1>3. \A i \in DOMAIN r : Len(q) + i \in DOMAIN s /\ s[Len(q) + i] = r[i]
  BY <1>1
<1>4. \A i \in DOMAIN s : \/ i \in DOMAIN q /\ s[i] = q[i]
                          \/ /\ i - Len(q) \in DOMAIN r /\ s[i] = r[i - Len(q)]
                             /\ i > Len(q)
  BY <1>1
<1>5. ASSUME NEW i \in DOMAIN s, NEW j \in DOMAIN s, i < j, s[i] = c, s[j] = d
      PROVE  \/ Precedes(q, c, d) \/ Precedes(r, c, d)
             \/ c \in Range(q) /\ d \in Range(r)
  <2>1. CASE i \in DOMAIN q /\ s[i] = q[i] /\ j \in DOMAIN q /\ s[j] = q[j]
    BY <1>5, <2>1 DEF Precedes
  <2>2. CASE /\ i - Len(q) \in DOMAIN r /\ s[i] = r[i - Len(q)]
             /\ j - Len(q) \in DOMAIN r /\ s[j] = r[j - Len(q)]
    <3>1. i - Len(q) < j - Len(q)
      BY <1>1, <1>5
    <3> QED
      BY <1>5, <2>2, <3>1 DEF Precedes
  <2>3. CASE i \in DOMAIN q /\ s[i] = q[i] /\ j - Len(q) \in DOMAIN r /\ s[j] = r[j - Len(q)]
    BY <1>5, <2>3 DEF Range
  <2>4. CASE j \in DOMAIN q /\ i > Len(q)
    BY <1>1, <1>5, <2>4
  <2> QED
    BY <1>4, <2>1, <2>2, <2>3, <2>4
<1>6. ASSUME Precedes(q, c, d) PROVE Precedes(s, c, d)
  BY <1>2, <1>6 DEF Precedes
<1>7. ASSUME Precedes(r, c, d) PROVE Precedes(s, c, d)
  <2>1. PICK i \in DOMAIN r, j \in DOMAIN r : i < j /\ r[i] = c /\ r[j] = d
    BY <1>7 DEF Precedes
  <2>2. Len(q) + i < Len(q) + j
    BY <1>1, <2>1
  <2> QED
    BY <1>3, <2>1, <2>2 DEF Precedes
<1>8. ASSUME c \in Range(q), d \in Range(r) PROVE Precedes(s, c, d)
  <2>1. PICK i \in DOMAIN q, j \in DOMAIN r : q[i] = c /\ r[j] = d
    BY <1>8 DEF Range
  <2>2. i < Len(q) + j
    BY <1>1, <2>1
  <2> QED
    BY <1>2, <1>3, <2>1, <2>2 DEF Precedes
<1>9. Precedes(s, c, d) => \/ Precedes(q, c, d) \/ Precedes(r, c, d)
                           \/ c \in Range(q) /\ d \in Range(r)
  <2>1. SUFFICES ASSUME Precedes(s, c, d)
                 PROVE  \/ Precedes(q, c, d) \/ Precedes(r, c, d)
                        \/ c \in Range(q) /\ d \in Range(r)
    OBVIOUS
  <2>2. PICK i \in DOMAIN s, j \in DOMAIN s : i < j /\ s[i] = c /\ s[j] = d
    BY <2>1 DEF Precedes
  <2> QED
    BY <1>5, <2>2
<1> QED
  BY <1>6, <1>7, <1>8, <1>9 DEF s

(***************************************************************************)
(* An element appended comes after all the others.                         *)
(***************************************************************************)
LEMMA AppendPrecedes ==
    ASSUME NEW S, NEW q \in Seq(S), NEW x \in S, NEW c, NEW d
    PROVE  Precedes(Append(q, x), c, d) <=> \/ Precedes(q, c, d)
                                            \/ c \in Range(q) /\ d = x
<1> DEFINE s == Append(q, x)
<1>1. /\ Len(q) \in Nat /\ DOMAIN q = 1 .. Len(q)
      /\ DOMAIN s = 1 .. (Len(q) + 1) /\ s[Len(q) + 1] = x
      /\ \A i \in 1 .. Len(q) : s[i] = q[i]
  BY AppendProperties, LenProperties
<1> HIDE DEF s
<1>2. ASSUME Precedes(s, c, d)
      PROVE  Precedes(q, c, d) \/ (c \in Range(q) /\ d = x)
  <2>1. PICK i \in DOMAIN s, j \in DOMAIN s : i < j /\ s[i] = c /\ s[j] = d
    BY <1>2 DEF Precedes
  <2>2. i \in DOMAIN q /\ s[i] = q[i]
    BY <1>1, <2>1
  <2>3. CASE j \in DOMAIN q
    BY <1>1, <2>1, <2>2, <2>3 DEF Precedes
  <2>4. CASE j = Len(q) + 1
    BY <1>1, <2>1, <2>2, <2>4 DEF Range
  <2> QED
    BY <1>1, <2>3, <2>4
<1>3. ASSUME Precedes(q, c, d) PROVE Precedes(s, c, d)
  <2>1. \A i \in DOMAIN q : i \in DOMAIN s /\ s[i] = q[i]
    BY <1>1
  <2> QED
    BY <1>3, <2>1 DEF Precedes
<1>4. ASSUME c \in Range(q), d = x PROVE Precedes(s, c, d)
  <2>1. PICK i \in DOMAIN q : q[i] = c
    BY <1>4 DEF Range
  <2>2. i \in DOMAIN s /\ s[i] = c /\ Len(q) + 1 \in DOMAIN s /\ i < Len(q) + 1
    BY <1>1, <2>1
  <2> QED
    BY <1>1, <1>4, <2>2 DEF Precedes
<1> QED
  BY <1>2, <1>3, <1>4 DEF s

(***************************************************************************)
(* Cutting a sequence in two (Drain, Flush), or its first element off      *)
(* (CqPop), keeps what is left in order, the first part before the second. *)
(***************************************************************************)
LEMMA SplitPrecedes ==
    ASSUME NEW S, NEW q \in Seq(S), NEW n \in 0 .. Len(q), NEW c, NEW d,
           LET a == SubSeq(q, 1, n)
               b == SubSeq(q, n + 1, Len(q))
           IN  \/ Precedes(a, c, d) \/ Precedes(b, c, d)
               \/ c \in Range(a) /\ d \in Range(b)
    PROVE  Precedes(q, c, d)
<1> DEFINE a == SubSeq(q, 1, n)
           b == SubSeq(q, n + 1, Len(q))
<1>1. /\ Len(q) \in Nat /\ DOMAIN q = 1 .. Len(q) /\ n \in Nat /\ n <= Len(q)
      /\ DOMAIN a = 1 .. n /\ DOMAIN b = 1 .. (Len(q) - n)
      /\ \A i \in 1 .. n : a[i] = q[i]
      /\ \A i \in 1 .. (Len(q) - n) : b[i] = q[n + i]
  <2>1. /\ a \in Seq(S) /\ Len(a) = n /\ b \in Seq(S) /\ Len(b) = Len(q) - n
        /\ \A i \in 1 .. n : a[i] = q[i]
        /\ \A i \in 1 .. (Len(q) - n) : b[i] = q[n + i]
    BY SplitTypes
  <2> HIDE DEF a, b
  <2> QED
    BY <2>1, LenProperties
<1>2. Precedes(a, c, d) \/ Precedes(b, c, d) \/ (c \in Range(a) /\ d \in Range(b))
  OBVIOUS
<1> HIDE DEF a, b
<1>3. \A i \in DOMAIN a : i \in DOMAIN q /\ a[i] = q[i]
  BY <1>1
<1>4. \A i \in DOMAIN b : n + i \in DOMAIN q /\ b[i] = q[n + i]
  BY <1>1
<1>5. CASE Precedes(a, c, d)
  BY <1>3, <1>5 DEF Precedes
<1>6. CASE Precedes(b, c, d)
  <2>1. PICK i \in DOMAIN b, j \in DOMAIN b : i < j /\ b[i] = c /\ b[j] = d
    BY <1>6 DEF Precedes
  <2>2. n + i < n + j
    BY <1>1, <2>1
  <2> QED
    BY <1>4, <2>1, <2>2 DEF Precedes
<1>7. CASE c \in Range(a) /\ d \in Range(b)
  <2>1. PICK i \in DOMAIN a, j \in DOMAIN b : a[i] = c /\ b[j] = d
    BY <1>7 DEF Range
  <2>2. i < n + j
    BY <1>1, <2>1
  <2> QED
    BY <1>3, <1>4, <2>1, <2>2 DEF Precedes
<1> QED
  BY <1>2, <1>5, <1>6, <1>7

(***************************************************************************)
(* The same for the first element and the rest.                            *)
(***************************************************************************)
LEMMA TailPrecedes ==
    ASSUME NEW S, NEW q \in Seq(S), q # <<>>, NEW c, NEW d,
           Precedes(Tail(q), c, d) \/ (c = Head(q) /\ d \in Range(Tail(q)))
    PROVE  Precedes(q, c, d)
<1> DEFINE r == Tail(q)
<1>1. /\ Len(q) \in Nat /\ Len(q) > 0 /\ DOMAIN q = 1 .. Len(q) /\ Head(q) = q[1]
      /\ DOMAIN r = 1 .. (Len(q) - 1) /\ \A i \in 1 .. (Len(q) - 1) : r[i] = q[i + 1]
  BY HeadTailProperties, LenProperties, EmptySeq
<1>2. Precedes(r, c, d) \/ (c = Head(q) /\ d \in Range(r))
  OBVIOUS
<1> HIDE DEF r
<1>3. \A i \in DOMAIN r : i + 1 \in DOMAIN q /\ r[i] = q[i + 1] /\ i + 1 > 1 /\ i \in Nat
  BY <1>1
<1>4. CASE Precedes(r, c, d)
  <2>1. PICK i \in DOMAIN r, j \in DOMAIN r : i < j /\ r[i] = c /\ r[j] = d
    BY <1>4 DEF Precedes
  <2>2. i + 1 < j + 1
    BY <1>3, <2>1
  <2> QED
    BY <1>3, <2>1, <2>2 DEF Precedes
<1>5. CASE c = Head(q) /\ d \in Range(r)
  <2>1. PICK j \in DOMAIN r : r[j] = d
    BY <1>5 DEF Range
  <2>2. 1 \in DOMAIN q /\ q[1] = c /\ 1 < j + 1 /\ j + 1 \in DOMAIN q /\ q[j + 1] = d
    BY <1>1, <1>3, <1>5, <2>1
  <2> QED
    BY <2>2 DEF Precedes
<1> QED
  BY <1>2, <1>4, <1>5


(***************************************************************************)
(* With one consumer the port is in ring mode or not while that thread is  *)
(* in a call that depends on it, and the ring is used only in ring mode.   *)
(***************************************************************************)
ModeInv ==
    /\ ~ring => cq = <<>>
    /\ \A t \in Threads : /\ call[t].fn = "io_wait" => ~ring
                          /\ call[t].fn \in {"ring_submit", "ring_wait"} => ring

(***************************************************************************)
(* On its way to user code, c is ahead of d.                               *)
(***************************************************************************)
Ahead(c, d) ==
    \/ Precedes(received, c, d) \/ Precedes(cq, c, d) \/ Precedes(queue, c, d)
    \/ c \in Range(received) /\ d \in Range(cq) \cup Range(queue)
    \/ c \in Range(cq) /\ d \in Range(queue)

OrderInv ==
    \A c, d \in Completion :
        Ordered(c) /\ Ordered(d) /\ Ahead(c, d) => Precedes(posted, c, d)

(***************************************************************************)
(* The ring goes with its mode.                                            *)
(***************************************************************************)
LEMMA ModeKept ==
    ASSUME OneConsumer, TypeOK, CallsInv, ModeInv, [Next]_vars
    PROVE  ModeInv'
<1>0. call \in [Threads -> CallRecord] /\ ring \in BOOLEAN
  BY Types
<1>1. ASSUME UNCHANGED <<ring, cq, call>> PROVE ModeInv'
  BY <1>1 DEF ModeInv
<1>2. ASSUME UNCHANGED <<ring, cq>>, NEW t \in Threads,
             \A s \in Threads \ {t} : call'[s] = call[s],
             \/ call'[t].fn \in {"user", "submit", "blocking", "panicked", call[t].fn}
             \/ call'[t].fn = "io_wait" /\ ~ring
             \/ call'[t].fn \in {"ring_submit", "ring_wait"} /\ ring
      PROVE  ModeInv'
  BY <1>2 DEF ModeInv
<1>3. ASSUME NEW c, Post(c), UNCHANGED <<ring, call>> PROVE ModeInv'
  <2>1. ~ring => UNCHANGED cq
    BY <1>3 DEF Post, PushBack
  <2> QED
    BY <1>3, <2>1 DEF ModeInv
<1>4. ASSUME NEW t \in Threads, NEW c \in CallRecord, NEW ts, c.fn = "io_wait", ~ring,
             IoWaitLoop(t, c, ts)
      PROVE  ModeInv'
  <2>1. call'[t].fn \in {"user", "io_wait"} /\ \A s \in Threads \ {t} : call'[s] = call[s]
    BY <1>0, <1>4 DEF IoWaitLoop, InUser
  <2>2. UNCHANGED <<ring, cq>>
    BY <1>4 DEF IoWaitLoop
  <2> QED
    BY <1>2, <1>4, <2>1, <2>2
<1>5. ASSUME NEW t \in Threads, RingLoop(t), ring PROVE ModeInv'
  <2> DEFINE w == [call[t] EXCEPT !.fn = "ring_wait"]
  <2>1. w.fn = "ring_wait" /\ InUser.fn = "user"
    BY <1>0 DEF CallRecord, InUser
  <2>2. /\ call'[t] = InUser \/ call'[t] = w
        /\ \A s \in Threads \ {t} : call'[s] = call[s] /\ UNCHANGED ring
    BY <1>0, <1>5 DEF RingLoop
  <2> HIDE DEF w
  <2> QED
    BY <1>5, <2>1, <2>2 DEF ModeInv, RingLoop
<1>6. ASSUME NEW t \in Threads, Returns(t) PROVE ModeInv'
  <2>1. CASE ProcessSubmission(t)
    <3>1. UNCHANGED <<ring, call>>
      BY <2>1 DEF ProcessSubmission
    <3>2. CASE \E c : Post(c)
      BY <1>3, <3>1, <3>2
    <3>3. CASE UNCHANGED cq
      BY <1>1, <3>1, <3>3
    <3> QED
      BY <2>1, <3>2, <3>3 DEF ProcessSubmission
  <2>2. CASE SubmitReturns(t)
    <3>1. call'[t].fn = "user" /\ \A s \in Threads \ {t} : call'[s] = call[s]
      BY <1>0, <2>2 DEF SubmitReturns, InUser
    <3> QED
      BY <1>2, <2>2, <3>1 DEF SubmitReturns, port
  <2>3. CASE IoWaitResumes(t)
    <3>1. call[t] \in CallRecord /\ call[t].fn = "io_wait" /\ ~ring
          /\ IoWaitLoop(t, call[t], tasks)
      BY <1>0, <2>3 DEF IoWaitResumes, Resumes, ModeInv
    <3> QED
      BY <1>4, <3>1
  <2>4. CASE BlockingResumes(t)
    <3>1. call'[t].fn \in {"user", "panicked"} /\ \A s \in Threads \ {t} : call'[s] = call[s]
      BY <1>0, <2>4 DEF BlockingResumes, InUser, CallRecord
    <3> QED
      BY <1>2, <2>4, <3>1 DEF BlockingResumes, port
  <2>5. CASE RingSubmitted(t)
    BY <1>5, <2>5 DEF RingSubmitted, Resumes, ModeInv
  <2>6. CASE RingResumes(t)
    BY <1>5, <2>6 DEF RingResumes, Resumes, ModeInv
  <2> QED
    BY <1>6, <2>1, <2>2, <2>3, <2>4, <2>5, <2>6 DEF Returns
<1>7. ASSUME NEW t \in Threads, UserStep(t) PROVE ModeInv'
  <2>1. ASSUME NEW kinds \in Batches, IoSubmit(t, kinds) PROVE ModeInv'
    <3>1. call'[t].fn = "submit" /\ \A s \in Threads \ {t} : call'[s] = call[s]
      BY <1>0, <2>1 DEF IoSubmit, CallRecord
    <3> QED
      BY <1>2, <2>1, <3>1 DEF IoSubmit, port
  <2>2. ASSUME NEW max \in Sizes \ {0}, NEW min \in Sizes, IoWait(t, max, min)
        PROVE  ModeInv'
    <3>1. ~ring
      BY <2>2 DEF IoWait
    <3> QED
      BY <1>4, <2>2, <3>1, IoWaitCall
  <2>3. ASSUME NEW max \in Sizes \ {0}, NEW min \in Sizes, NEW k \in Tasks,
               IoWaitTimed(t, max, min, k)
        PROVE  ModeInv'
    <3>1. ~ring
      BY <2>3 DEF IoWaitTimed
    <3> DEFINE ts == [tasks EXCEPT ![k] = [phase |-> "delay", thread |-> t]]
    <3>2. PICK c \in CallRecord : c.fn = "io_wait" /\ IoWaitLoop(t, c, ts)
      BY <2>3, IoWaitTimedCall
    <3> QED
      BY <1>4, <3>1, <3>2
  <2>4. ASSUME NEW k \in Tasks, BlockingCall(t, k) PROVE ModeInv'
    <3>1. call'[t].fn = "blocking" /\ \A s \in Threads \ {t} : call'[s] = call[s]
      BY <1>0, <2>4 DEF BlockingCall, InUser
    <3> QED
      BY <1>2, <2>4, <3>1 DEF BlockingCall, port
  <2>5. CASE SetupRings(t)
    <3>1. t \in Consumers /\ call[t].fn = "user" /\ UNCHANGED <<cq, call>> /\ ring' = TRUE
      BY <2>5 DEF SetupRings, MaySyscall, threads
    <3>2. \A s \in Threads : call[s].fn # "io_wait"
      BY <3>1 DEF OneConsumer, CallsInv
    <3> QED
      BY <3>1, <3>2 DEF ModeInv
  <2>6. ASSUME NEW kind \in Kinds, SqPush(t, kind) PROVE ModeInv'
    BY <1>1, <2>6 DEF SqPush, threads
  <2>7. CASE CqPop(t)
    <3>1. UNCHANGED <<ring, call>> /\ cq # <<>>
      BY <2>7 DEF CqPop, threads
    <3> QED
      BY <3>1 DEF ModeInv
  <2>8. ASSUME NEW n \in Sizes, NEW min \in Sizes, RingEnter(t, n, min) PROVE ModeInv'
    <3> DEFINE count == IF n < Len(sq) THEN n ELSE Len(sq)
               w == [InUser EXCEPT !.fn = "ring_submit", !.min = min, !.max = count]
    <3>1. call' = [call EXCEPT ![t] = w] /\ UNCHANGED <<ring, cq>> /\ ring
      BY <2>8 DEF RingEnter, port
    <3>2. w.fn = "ring_submit"
      BY DEF InUser
    <3> HIDE DEF w
    <3>3. call'[t].fn = "ring_submit" /\ \A s \in Threads \ {t} : call'[s] = call[s]
      BY <1>0, <3>1, <3>2
    <3> QED
      BY <1>2, <3>1, <3>3
  <2> QED
    BY <1>7, <2>1, <2>2, <2>3, <2>4, <2>5, <2>6, <2>7, <2>8 DEF UserStep
<1>8. ASSUME NEW t \in Threads, DeadlinePasses(t) PROVE ModeInv'
  <2>1. call'[t].fn = call[t].fn /\ \A s \in Threads \ {t} : call'[s] = call[s]
    BY <1>0, <1>8 DEF DeadlinePasses, CallRecord
  <2> QED
    BY <1>2, <1>8, <2>1 DEF DeadlinePasses, port
<1>9. ASSUME NEW k \in Tasks, TaskStep(k) PROVE ModeInv'
  <2>1. UNCHANGED <<ring, cq>> /\ \A s \in Threads : call'[s].fn = call[s].fn
    BY <1>0, <1>9 DEF TaskStep, DelayExpires, DelayCancelled, TaskUnblocks,
       FutureStoresResult, threads, port, CallRecord
  <2> QED
    BY <2>1 DEF ModeInv
<1>10. ASSUME NEW e \in inflight, Complete(e) PROVE ModeInv'
  BY <1>3, <1>10 DEF Complete
<1>11. CASE UNCHANGED vars
  BY <1>1, <1>11 DEF vars, port, threads
<1> QED
  BY <1>6, <1>7, <1>8, <1>9, <1>10, <1>11 DEF Next
(***************************************************************************)
(* A completion is posted behind all that user code has yet to get, except *)
(* one without data in ring mode, of which nothing is promised.            *)
(***************************************************************************)
LEMMA PostOrder ==
    ASSUME TypeOK, OnceInv, OrderInv, NEW x \in Completion, Post(x),
           UNCHANGED <<received, ring>>
    PROVE  OrderInv'
<1>0. /\ queue \in Seq(Completion) /\ cq \in Seq(Completion)
      /\ posted \in Seq(Completion) /\ received \in Seq(Completion)
  BY Types
<1>1. posted' = Append(posted, x)
  BY DEF Post
<1> SUFFICES ASSUME NEW c \in Completion, NEW d \in Completion,
                    Ordered(c)', Ordered(d)', Ahead(c, d)'
             PROVE  Precedes(posted', c, d)
  BY DEF OrderInv
<1>2. Ordered(c) /\ Ordered(d)
  BY DEF Ordered
<1>3. Precedes(posted', c, d) <=> Precedes(posted, c, d) \/ (c \in Range(posted) /\ d = x)
  BY <1>0, <1>1, AppendPrecedes
<1>4. ASSUME Ahead(c, d) PROVE Precedes(posted', c, d)
  BY <1>2, <1>3, <1>4 DEF OrderInv
<1>5. CASE UNCHANGED <<queue, cq>>
  BY <1>4, <1>5 DEF Ahead
<1>6. CASE cq' = Append(cq, x) /\ UNCHANGED queue /\ ring /\ ~x.deferred
  <2>1. c # x /\ d # x
    BY <1>2, <1>6 DEF Ordered
  <2>2. Precedes(cq', c, d) <=> Precedes(cq, c, d) \/ (c \in Range(cq) /\ d = x)
    BY <1>0, <1>6, AppendPrecedes
  <2>3. Range(cq') = Range(cq) \cup {x}
    BY <1>0, <1>6, PushesBack
  <2>4. Ahead(c, d)
    BY <1>6, <2>1, <2>2, <2>3 DEF Ahead
  <2> QED
    BY <1>4, <2>4
<1>7. CASE queue' = Append(queue, x) /\ UNCHANGED cq
  <2>1. Precedes(queue', c, d) <=> Precedes(queue, c, d) \/ (c \in Range(queue) /\ d = x)
    BY <1>0, <1>7, AppendPrecedes
  <2>2. Range(queue') = Range(queue) \cup {x}
    BY <1>0, <1>7, PushesBack
  <2>3. \/ Ahead(c, d)
        \/ d = x /\ c \in Range(received) \cup Range(cq) \cup Range(queue)
    BY <1>7, <2>1, <2>2 DEF Ahead
  <2>4. c \in Range(received) \cup Range(cq) \cup Range(queue) => c \in Range(posted)
    BY DEF OnceInv
  <2> QED
    BY <1>3, <1>4, <2>3, <2>4
<1> QED
  BY <1>5, <1>6, <1>7 DEF Post, PostCqe, PushBack

(***************************************************************************)
(* io_wait takes the front of the queue, and nothing is in the ring then.  *)
(***************************************************************************)
LEMMA DrainOrder ==
    ASSUME TypeOK, OrderInv, NEW max \in Nat, Drain(max), cq = <<>>,
           UNCHANGED <<cq, posted, ring>>
    PROVE  OrderInv'
<1> DEFINE n == IF max < Len(queue) THEN max ELSE Len(queue)
           a == SubSeq(queue, 1, n)
           b == SubSeq(queue, n + 1, Len(queue))
<1>1. queue \in Seq(Completion) /\ Len(queue) \in Nat /\ received \in Seq(Completion)
  BY Types
<1>2. n \in 0 .. Len(queue)
  BY <1>1
<1>3. received' = received \o a /\ queue' = b
  BY DEF Drain
<1> HIDE DEF n
<1>4. Range(a) \cup Range(b) = Range(queue) /\ a \in Seq(Completion) /\ b \in Seq(Completion)
  BY <1>1, <1>2, Splits, SplitTypes
<1> SUFFICES ASSUME NEW c \in Completion, NEW d \in Completion,
                    Ordered(c)', Ordered(d)', Ahead(c, d)'
             PROVE  Precedes(posted', c, d)
  BY DEF OrderInv
<1>5. Precedes(a, c, d) \/ Precedes(b, c, d) \/ (c \in Range(a) /\ d \in Range(b))
         => Precedes(queue, c, d)
  BY <1>1, <1>2, SplitPrecedes
<1> HIDE DEF a, b
<1>6. Precedes(received', c, d) <=> \/ Precedes(received, c, d) \/ Precedes(a, c, d)
                                    \/ c \in Range(received) /\ d \in Range(a)
  BY <1>1, <1>3, <1>4, ConcatPrecedes
<1>7. Range(received') = Range(received) \cup Range(a)
  BY <1>1, <1>3, <1>4, Concatenates
<1>8. Range(cq) = {} /\ ~Precedes(cq, c, d)
  BY DEF Range, Precedes
<1>9. Ahead(c, d)
  BY <1>3, <1>4, <1>5, <1>6, <1>7, <1>8 DEF Ahead
<1> QED
  BY <1>9 DEF OrderInv, Ordered

(***************************************************************************)
(* io_ring_enter moves the front of the queue behind what is in the ring.  *)
(***************************************************************************)
LEMMA FlushOrder ==
    ASSUME TypeOK, OrderInv, Flush, UNCHANGED <<received, posted, ring>>
    PROVE  OrderInv'
<1> DEFINE room == CqEntries - Len(cq)
           n == IF room < Len(queue) THEN room ELSE Len(queue)
           a == SubSeq(queue, 1, n)
           b == SubSeq(queue, n + 1, Len(queue))
<1>1. /\ queue \in Seq(Completion) /\ Len(queue) \in Nat
      /\ cq \in Seq(Completion) /\ Len(cq) \in Nat /\ Len(cq) <= CqEntries
      /\ CqEntries \in Nat
  BY Types, CompletionPortAssumption
<1>2. n \in 0 .. Len(queue)
  BY <1>1
<1>3. cq' = cq \o a /\ queue' = <<>>
  BY DEF Flush
<1> HIDE DEF n
<1>4. Range(a) \cup Range(b) = Range(queue) /\ a \in Seq(Completion)
  BY <1>1, <1>2, Splits, SplitTypes
<1> SUFFICES ASSUME NEW c \in Completion, NEW d \in Completion,
                    Ordered(c)', Ordered(d)', Ahead(c, d)'
             PROVE  Precedes(posted', c, d)
  BY DEF OrderInv
<1>5. Precedes(a, c, d) => Precedes(queue, c, d)
  BY <1>1, <1>2, SplitPrecedes
<1> HIDE DEF a, b
<1>6. Precedes(cq', c, d) <=> \/ Precedes(cq, c, d) \/ Precedes(a, c, d)
                              \/ c \in Range(cq) /\ d \in Range(a)
  BY <1>1, <1>3, <1>4, ConcatPrecedes
<1>7. Range(cq') = Range(cq) \cup Range(a)
  BY <1>1, <1>3, <1>4, Concatenates
<1>8. Range(queue') = {} /\ ~Precedes(queue', c, d)
  BY <1>3 DEF Range, Precedes
<1>9. Ahead(c, d)
  BY <1>4, <1>5, <1>6, <1>7, <1>8 DEF Ahead
<1> QED
  BY <1>9 DEF OrderInv, Ordered

(***************************************************************************)
(* User code takes the front of the ring.                                  *)
(***************************************************************************)
LEMMA CqPopOrder ==
    ASSUME TypeOK, OnceInv, OrderInv, NEW t \in Threads, CqPop(t)
    PROVE  OrderInv'
<1>1. /\ cq \in Seq(Completion) /\ received \in Seq(Completion) /\ cq # <<>>
      /\ received' = Append(received, Head(cq)) /\ cq' = Tail(cq)
      /\ UNCHANGED <<queue, posted, ring>>
  BY Types DEF CqPop
<1>2. /\ Head(cq) \in Range(cq) /\ Range(cq') = Range(cq) \ {Head(cq)}
      /\ Head(cq) \in Completion
  BY <1>1, PopFront, HeadTailProperties DEF OnceInv
<1> SUFFICES ASSUME NEW c \in Completion, NEW d \in Completion,
                    Ordered(c)', Ordered(d)', Ahead(c, d)'
             PROVE  Precedes(posted', c, d)
  BY DEF OrderInv
<1>3. Range(received') = Range(received) \cup {Head(cq)}
  BY <1>1, <1>2, PushesBack
<1>4. Precedes(received', c, d) <=> \/ Precedes(received, c, d)
                                    \/ c \in Range(received) /\ d = Head(cq)
  BY <1>1, <1>2, AppendPrecedes
<1>5. Precedes(cq', c, d) \/ (c = Head(cq) /\ d \in Range(cq')) => Precedes(cq, c, d)
  BY <1>1, TailPrecedes
<1>6. Ahead(c, d)
  BY <1>1, <1>2, <1>3, <1>4, <1>5 DEF Ahead
<1> QED
  BY <1>1, <1>6 DEF OrderInv, Ordered

(***************************************************************************)
(* No step lets one completion overtake another that was posted before it. *)
(***************************************************************************)
LEMMA OrderKept ==
    ASSUME TypeOK, OnceInv, ModeInv, OrderInv, [Next]_vars
    PROVE  OrderInv'
<1>0. call \in [Threads -> CallRecord] /\ ring \in BOOLEAN
  BY Types
<1>1. ASSUME UNCHANGED <<queue, cq, received, posted>>, ring => ring' PROVE OrderInv'
  BY <1>1 DEF OrderInv, Ahead, Ordered
<1>2. ASSUME NEW t \in Threads, NEW c \in CallRecord, NEW ts, ~ring, IoWaitLoop(t, c, ts)
      PROVE  OrderInv'
  <2>1. CASE IoWaitReady(c)
    <3>1. Drain(c.max) /\ UNCHANGED <<cq, posted, ring>> /\ c.max \in Nat /\ cq = <<>>
      BY <1>2, <2>1 DEF IoWaitLoop, CallRecord, ModeInv
    <3> QED
      BY <3>1, DrainOrder
  <2>2. CASE ~IoWaitReady(c)
    BY <1>1, <1>2, <2>2 DEF IoWaitLoop
  <2> QED
    BY <2>1, <2>2
<1>3. ASSUME NEW t \in Threads, Returns(t) PROVE OrderInv'
  <2>1. CASE ProcessSubmission(t)
    <3> DEFINE e == Head(todo[t])
    <3>1. todo[t] \in Seq(Entry) /\ todo[t] # <<>> /\ UNCHANGED <<ring, received>>
      BY <2>1, Types DEF ProcessSubmission
    <3>2. e \in Entry
      BY <3>1, HeadTailProperties
    <3>3. \/ Post(CompletionOf(e))
          \/ UNCHANGED <<queue, cq, posted>>
      BY <2>1 DEF ProcessSubmission
    <3> HIDE DEF e
    <3>4. CompletionOf(e) \in Completion
      BY <3>2 DEF CompletionOf, Entry, Completion
    <3> QED
      BY <1>1, <3>1, <3>3, <3>4, PostOrder
  <2>2. CASE SubmitReturns(t)
    BY <1>1, <2>2 DEF SubmitReturns, port, history
  <2>3. CASE IoWaitResumes(t)
    BY <1>0, <1>2, <2>3 DEF IoWaitResumes, Resumes, ModeInv
  <2>4. CASE BlockingResumes(t)
    BY <1>1, <2>4 DEF BlockingResumes, port, history
  <2>5. CASE RingSubmitted(t)
    BY <2>5, FlushOrder DEF RingSubmitted, RingLoop
  <2>6. CASE RingResumes(t)
    BY <2>6, FlushOrder DEF RingResumes, RingLoop
  <2> QED
    BY <1>3, <2>1, <2>2, <2>3, <2>4, <2>5, <2>6 DEF Returns
<1>4. ASSUME NEW t \in Threads, UserStep(t) PROVE OrderInv'
  <2>1. ASSUME NEW kinds \in Batches, IoSubmit(t, kinds) PROVE OrderInv'
    BY <1>1, <2>1 DEF IoSubmit, port, history
  <2>2. ASSUME NEW max \in Sizes \ {0}, NEW min \in Sizes, IoWait(t, max, min)
        PROVE  OrderInv'
    <3>1. ~ring
      BY <2>2 DEF IoWait
    <3> QED
      BY <1>2, <2>2, <3>1, IoWaitCall
  <2>3. ASSUME NEW max \in Sizes \ {0}, NEW min \in Sizes, NEW k \in Tasks,
               IoWaitTimed(t, max, min, k)
        PROVE  OrderInv'
    <3>1. ~ring
      BY <2>3 DEF IoWaitTimed
    <3> DEFINE ts == [tasks EXCEPT ![k] = [phase |-> "delay", thread |-> t]]
    <3>2. PICK c \in CallRecord : IoWaitLoop(t, c, ts)
      BY <2>3, IoWaitTimedCall
    <3> QED
      BY <1>2, <3>1, <3>2
  <2>4. ASSUME NEW k \in Tasks, BlockingCall(t, k) PROVE OrderInv'
    BY <1>1, <2>4 DEF BlockingCall, port, history
  <2>5. CASE SetupRings(t)
    BY <1>1, <2>5 DEF SetupRings, history
  <2>6. ASSUME NEW kind \in Kinds, SqPush(t, kind) PROVE OrderInv'
    BY <1>1, <2>6 DEF SqPush, history
  <2>7. CASE CqPop(t)
    BY <2>7, CqPopOrder
  <2>8. ASSUME NEW n \in Sizes, NEW min \in Sizes, RingEnter(t, n, min) PROVE OrderInv'
    BY <1>1, <2>8 DEF RingEnter, port, history
  <2> QED
    BY <1>4, <2>1, <2>2, <2>3, <2>4, <2>5, <2>6, <2>7, <2>8 DEF UserStep
<1>5. ASSUME NEW t \in Threads, DeadlinePasses(t) PROVE OrderInv'
  BY <1>1, <1>5 DEF DeadlinePasses, port, history
<1>6. ASSUME NEW k \in Tasks, TaskStep(k) PROVE OrderInv'
  BY <1>1, <1>6 DEF TaskStep, DelayExpires, DelayCancelled, TaskUnblocks,
     FutureStoresResult, port, history
<1>7. ASSUME NEW e \in inflight, Complete(e) PROVE OrderInv'
  <2>1. e \in Entry
    BY Types
  <2>2. CompletionOf(e) \in Completion
    BY <2>1 DEF CompletionOf, Entry, Completion
  <2> QED
    BY <1>7, <2>2, PostOrder DEF Complete
<1>8. CASE UNCHANGED vars
  BY <1>1, <1>8 DEF vars, port, history
<1> QED
  BY <1>3, <1>4, <1>5, <1>6, <1>7, <1>8 DEF Next

(***************************************************************************)
(* For one consumer per port, user code gets the completions in the order  *)
(* in which they were posted; in ring mode, the ones that carry data.      *)
(***************************************************************************)
THEOREM CompletedInOrder ==
    ASSUME OneConsumer
    PROVE  Spec => []InPostOrder
<1> DEFINE Inv == ModeInv /\ OrderInv
<1>1. Init => Inv
  <2> SUFFICES ASSUME Init PROVE Inv
    OBVIOUS
  <2>1. /\ \A t \in Threads : call[t].fn = "user"
        /\ queue = <<>> /\ cq = <<>> /\ received = <<>>
    BY DEF Init, InUser
  <2>2. Range(<<>>) = {} /\ \A c, d : ~Precedes(<<>>, c, d)
    BY DEF Range, Precedes
  <2>3. \A c, d : ~Ahead(c, d)
    BY <2>1, <2>2 DEF Ahead
  <2> QED
    BY <2>1, <2>3 DEF ModeInv, OrderInv
<1>2. TypeOK /\ CallsInv /\ OnceInv /\ Inv /\ [Next]_vars => Inv'
  BY ModeKept, OrderKept
<1>3. TypeOK /\ OrderInv => InPostOrder
  <2> DEFINE rc == received \o cq
  <2> SUFFICES ASSUME TypeOK, OrderInv, NEW c \in Range(rc \o queue),
                      NEW d \in Range(rc \o queue), Ordered(c), Ordered(d),
                      Precedes(rc \o queue, c, d)
               PROVE  Precedes(posted, c, d)
    BY DEF InPostOrder
  <2>1. received \in Seq(Completion) /\ cq \in Seq(Completion) /\ queue \in Seq(Completion)
    BY Types
  <2>2. /\ rc \in Seq(Completion) /\ Range(rc) = Range(received) \cup Range(cq)
        /\ Precedes(rc, c, d) <=> \/ Precedes(received, c, d) \/ Precedes(cq, c, d)
                                  \/ c \in Range(received) /\ d \in Range(cq)
    BY <2>1, Concatenates, ConcatPrecedes
  <2> HIDE DEF rc
  <2>3. \/ Precedes(rc, c, d) \/ Precedes(queue, c, d)
        \/ c \in Range(rc) /\ d \in Range(queue)
    BY <2>1, <2>2, ConcatPrecedes
  <2>4. rc \o queue \in Seq(Completion)
    BY <2>1, <2>2, Concatenates
  <2>5. c \in Completion /\ d \in Completion
    BY <2>4, RangeOfSeq
  <2>6. Ahead(c, d)
    BY <2>2, <2>3 DEF Ahead
  <2> QED
    BY <2>5, <2>6 DEF OrderInv
<1>4. Spec => [](TypeOK /\ CallsInv /\ PendingInv /\ OnceInv)
  BY OncePlaced
<1> QED
  BY <1>1, <1>2, <1>3, <1>4, PTL DEF Spec
=============================================================================
