--------------------------- MODULE ProcessProofs ---------------------------
(***************************************************************************)
(* Processes, for any number of them and any mix of system calls: a parent *)
(* in wait4 is never stranded, one suspended by vfork sleeps as long as    *)
(* its child needs its stack and is owed a wake-up, a signal handler runs  *)
(* in the process that was signalled, the pipe ends with its last writer,  *)
(* and a process that reads the console is served.                         *)
(***************************************************************************)
EXTENDS Process, QueueLemmas, FiniteSetTheorems

(***************************************************************************)
(* The types of what these properties speak of.                            *)
(***************************************************************************)
Shape ==
  /\ status \in [Pids -> {"none", "running", "zombie", "reaped"}]
  /\ parent \in [Pids -> 0 .. MaxPid] /\ vforkParent \in [Pids -> 0 .. MaxPid]
  /\ waitThread \in [Pids -> BOOLEAN] /\ signalThread \in [Pids -> BOOLEAN]
  /\ ready \in [Pids -> BOOLEAN] /\ sig \in [Pids -> SignalState]
  /\ pc \in [Pids -> Places] /\ target \in [Pids -> 0 .. MaxPid]
  /\ masks \in [Pids -> Seq(SUBSET Signals)] /\ depth \in [Pids -> Nat]
  /\ workload \in Workloads

(***************************************************************************)
(* A process whose thread is neither unborn nor dying is running; a child  *)
(* has been created; and wait4 is asked for children of its caller.        *)
(***************************************************************************)
Alive == {"user", "return", "clone", "vfs", "wait4", "read", "console", "yielded", "panic"}

FamilyInv ==
  /\ \A p \in Pids : pc[p] \in Alive => status[p] = "running"
  /\ \A p \in Pids : parent[p] # 0 \/ vforkParent[p] # 0 => status[p] # "none"
  /\ \A p \in Pids : pc[p] = "wait4" /\ target[p] # 0 => parent[target[p]] = p

\* A frame on the user stack for every handler the saved context is in.
FramesInv == \A p \in Pids : depth[p] = Len(masks[p])

ProcessInv == Shape /\ FamilyInv /\ FramesInv /\ WaiterNotStranded /\ VforkParentReleased

-----------------------------------------------------------------------------
(***************************************************************************)
(* scheduler::unblock wakes whom it is asked to and puts no one to sleep.  *)
(***************************************************************************)
LEMMA UnblockedThreads ==
  ASSUME Shape, NEW S
  PROVE  /\ Unblocked(S) \in [Pids -> BOOLEAN]
         /\ \A q \in Pids : ready[q] \/ q \in S => Unblocked(S)[q]
BY DEF Unblocked

(***************************************************************************)
(* queue, dequeue and the masks of libkernel/src/signal.rs give signal     *)
(* states, and queueing makes no other signal deliverable.                 *)
(***************************************************************************)
LEMMA SignalStates ==
  ASSUME NEW st \in SignalState
  PROVE  /\ \A s \in Signals : /\ Queue(st, s) \in SignalState
                               /\ Deliverable(Queue(st, s)) \subseteq Deliverable(st) \cup {s}
                               /\ BlockForHandler(st, s) \in SignalState
                               /\ [st EXCEPT !.pending = @ \ {s}] \in SignalState
         /\ Dequeue(st) \in SignalState /\ st.blocked \in SUBSET Signals
         /\ \A m \in SUBSET Signals : RestoreMask(st, m) \in SignalState
         /\ \A s \in Signals, d \in Dispositions : SetAction(st, s, d) \in SignalState
<1>1. \A s \in Signals : /\ Queue(st, s) \in SignalState
                         /\ Deliverable(Queue(st, s)) \subseteq Deliverable(st) \cup {s}
  BY DEF Queue, SignalState, Deliverable
<1>2. \A s \in Signals : /\ BlockForHandler(st, s) \in SignalState
                         /\ [st EXCEPT !.pending = @ \ {s}] \in SignalState
  BY DEF BlockForHandler, SignalState
<1>3. Dequeue(st) \in SignalState /\ st.blocked \in SUBSET Signals
  BY DEF Dequeue, SignalState
<1>4. \A m \in SUBSET Signals : RestoreMask(st, m) \in SignalState
  BY DEF RestoreMask, SignalState
<1>5. \A s \in Signals, d \in Dispositions : SetAction(st, s, d) \in SignalState
  BY DEF SetAction, SignalState
<1> QED
  BY <1>1, <1>2, <1>3, <1>4, <1>5

(***************************************************************************)
(* sigprocmask gives a signal state, whatever it is asked to do.           *)
(***************************************************************************)
LEMMA MaskStates ==
  ASSUME NEW st \in SignalState, NEW how \in {"SIG_BLOCK", "SIG_UNBLOCK", "SIG_SETMASK"},
         NEW set \in SUBSET Signals
  PROVE  SetMask(st, how, set) \in SignalState
<1> DEFINE b == CASE how = "SIG_BLOCK"   -> st.blocked \cup (set \ Unblockable)
                  [] how = "SIG_UNBLOCK" -> st.blocked \ set
                  [] how = "SIG_SETMASK" -> set \ Unblockable
<1>1. st.blocked \in SUBSET Signals
  BY DEF SignalState
<1>2. b \in SUBSET Signals
  BY <1>1
<1>3. SetMask(st, how, set) = [st EXCEPT !.blocked = b]
  BY DEF SetMask
<1> HIDE DEF b
<1> QED
  BY <1>2, <1>3 DEF SignalState

(***************************************************************************)
(* alloc_pid gives a process that has never been.                          *)
(***************************************************************************)
LEMMA NewPid ==
  ASSUME Shape, MayCreate
  PROVE  NextPid \in Pids /\ status[NextPid] = "none"
<1> DEFINE T == {p \in Pids : status[p] = "none"}
           m == Min(T)
<1>1. T \subseteq Nat /\ T \subseteq Pids /\ Pids = 1 .. MaxPid /\ MaxPid \in Nat
  BY ProcessAssumption DEF Pids
<1>2. T # {}
  <2>1. workload.pids \in 1 .. MaxPid
    BY ProcessAssumption DEF Shape
  <2>2. PICK p \in 1 .. workload.pids : status[p] = "none"
    BY DEF MayCreate
  <2>3. p \in Pids
    BY <1>1, <2>1
  <2> QED
    BY <2>2, <2>3
<1>3. m \in T /\ \A y \in T : m <= y
  <2> HIDE DEF T
  <2> QED
    BY <1>1, <1>2, MinInSet
<1>4. ASSUME NEW q \in 1 .. m - 1 PROVE status[q] # "none"
  <2>1. m \in Nat /\ m <= MaxPid
    BY <1>1, <1>3
  <2>2. q \in Pids /\ ~(m <= q)
    BY <1>1, <2>1
  <2> QED
    BY <1>3, <2>2
<1>5. m \in Pids /\ status[m] = "none"
  BY <1>3
<1> HIDE DEF m
<1> QED
  BY <1>4, <1>5 DEF NextPid

-----------------------------------------------------------------------------
(***************************************************************************)
(* What the end of a process does to the rest of its family.               *)
(***************************************************************************)
LEMMA ToldTypes ==
  ASSUME Shape, NEW p \in Pids, ParentTold(p)
  PROVE  /\ sig' \in [Pids -> SignalState] /\ waitThread' \in [Pids -> BOOLEAN]
         /\ \A q \in Pids : \/ sig'[q] = sig[q]
                            \/ sig'[q] = Queue(sig[q], SIGCHLD)
         /\ \A q \in Pids : waitThread'[q] # waitThread[q] => q \in WaitingParent(p)
<1>1. sig \in [Pids -> SignalState] /\ waitThread \in [Pids -> BOOLEAN] /\ SIGCHLD \in Signals
  BY DEF Shape, Signals
<1>2. CASE InTable(parent[p])
  <2> DEFINE q == parent[p]
  <2>1. q \in Pids /\ Queue(sig[q], SIGCHLD) \in SignalState
    BY <1>1, <1>2, SignalStates DEF InTable
  <2>2. /\ sig' = [sig EXCEPT ![q] = Queue(sig[q], SIGCHLD)]
        /\ waitThread' = [waitThread EXCEPT ![q] = FALSE]
    BY <1>2 DEF ParentTold
  <2>3. q = parent[p] /\ InTable(q)
    BY <1>2
  <2> HIDE DEF q
  <2>4. \A u \in Pids : waitThread'[u] # waitThread[u] => u = q /\ waitThread[u]
    BY <1>1, <2>1, <2>2
  <2> QED
    BY <1>1, <2>1, <2>2, <2>3, <2>4 DEF WaitingParent
<1>3. CASE ~InTable(parent[p])
  BY <1>1, <1>3 DEF ParentTold
<1> QED
  BY <1>2, <1>3

(***************************************************************************)
(* Steps of a wait4 keep the types.                                        *)
(***************************************************************************)
LEMMA Wait4Types ==
  ASSUME Shape, NEW p \in Pids, NEW t \in 0 .. MaxPid, Wait4Turn(p, t), Wait4Unchanged,
         target' \in [Pids -> 0 .. MaxPid], UNCHANGED workload
  PROVE  Shape'
<1>1. status' \in [Pids -> {"none", "running", "zombie", "reaped"}]
  BY DEF Wait4Turn, Shape
<1>2. pc' \in [Pids -> Places]
  BY DEF Wait4Turn, Shape, ToReturn, Blocks, Places
<1>3. /\ waitThread' \in [Pids -> BOOLEAN] /\ signalThread' \in [Pids -> BOOLEAN]
      /\ ready' \in [Pids -> BOOLEAN]
  BY DEF Wait4Turn, Shape
<1> QED
  BY <1>1, <1>2, <1>3 DEF Shape, Wait4Unchanged

(***************************************************************************)
(* So do the end of a process and the return path.                         *)
(***************************************************************************)
LEMMA EndTypes ==
  ASSUME Shape, NEW p \in Pids, UNCHANGED workload,
         Terminate(p) \/ (KillUserProcess(p) /\ UNCHANGED target)
  PROVE  Shape'
<1>1. /\ status' = [status EXCEPT ![p] = "zombie"] /\ ParentTold(p)
      /\ UNCHANGED <<parent, signalThread, target, masks, depth>>
      /\ pc' \in {[pc EXCEPT ![p] = "dying"], [pc EXCEPT ![p] = "dead"]}
      /\ vforkParent' \in {vforkParent, [vforkParent EXCEPT ![p] = 0]}
      /\ \E S : ready' = Unblocked(S)
  BY DEF Terminate, KillUserProcess
<1>2. 0 \in 0 .. MaxPid
  BY ProcessAssumption
<1>3. ready' \in [Pids -> BOOLEAN]
  BY <1>1, UnblockedThreads
<1>4. sig' \in [Pids -> SignalState] /\ waitThread' \in [Pids -> BOOLEAN]
  BY <1>1, ToldTypes
<1>5. status' \in [Pids -> {"none", "running", "zombie", "reaped"}]
  BY <1>1 DEF Shape
<1>6. pc' \in [Pids -> Places]
  BY <1>1 DEF Shape, Places
<1>7. vforkParent' \in [Pids -> 0 .. MaxPid]
  BY <1>1, <1>2 DEF Shape
<1> QED
  BY <1>1, <1>3, <1>4, <1>5, <1>6, <1>7 DEF Shape

(***************************************************************************)
(* check_pending_signals puts a frame on the stack of its process only.    *)
(***************************************************************************)
LEMMA ReturnTypes ==
  ASSUME Shape, NEW p \in Pids, Return(p)
  PROVE  Shape' /\ (FramesInv => FramesInv')
<1>1. sig[p] \in SignalState /\ masks[p] \in Seq(SUBSET Signals) /\ frame' = p
  BY DEF Return, ReturnFrame, Shape
<1>2. /\ pc' = [pc EXCEPT ![p] = "user"] /\ UNCHANGED <<target, workload>>
      /\ UNCHANGED <<status, parent, waitThread, signalThread, vforkParent, ready>>
  BY DEF Return, CheckPendingSignals, procVars
<1>3. pc' \in [Pids -> Places]
  BY <1>2 DEF Shape, Places
<1>4. CASE UNCHANGED <<sig, masks, depth>>
  BY <1>2, <1>3, <1>4 DEF Shape, FramesInv
<1>5. CASE sig' = [sig EXCEPT ![p] = Dequeue(sig[p])] /\ UNCHANGED <<masks, depth>>
  <2>1. sig' \in [Pids -> SignalState]
    BY <1>1, <1>5, SignalStates DEF Shape
  <2> QED
    BY <1>2, <1>3, <1>5, <2>1 DEF Shape, FramesInv
<1>6. CASE /\ Deliverable(sig[p]) # {}
           /\ sig' = [sig EXCEPT ![p] = BlockForHandler(Dequeue(sig[p]), NextSignal(sig[p]))]
           /\ masks' = [masks EXCEPT ![p] = Append(masks[p], sig[p].blocked)]
           /\ depth' = [depth EXCEPT ![p] = Len(masks[p]) + 1]
  <2>1. Dequeue(sig[p]) \in SignalState /\ sig[p].blocked \in SUBSET Signals
    BY <1>1, SignalStates
  <2>2. BlockForHandler(Dequeue(sig[p]), NextSignal(sig[p])) \in SignalState
    <3> DEFINE st == Dequeue(sig[p])
               n == NextSignal(sig[p])
    <3>1. (st.blocked \cup {n}) \ Unblockable \in SUBSET Signals
      <4>1. n \in Signals
        <5>1. Deliverable(sig[p]) \subseteq Signals /\ Signals \subseteq Nat
          BY <1>1 DEF Deliverable, SignalState, Signals, SIGINT, SIGKILL, SIGSEGV, SIGCHLD, SIGSTOP
        <5> DEFINE D == Deliverable(sig[p])
        <5>2. Min(D) \in D /\ \A y \in D : Min(D) <= y
          <6> HIDE DEF D
          <6>1. D # {} /\ D \subseteq Nat
            BY <1>6, <5>1 DEF D
          <6> QED
            BY <6>1, MinInSet
        <5>3. NextSignal(sig[p]) \in D
          BY <5>2 DEF NextSignal
        <5> QED
          BY <5>1, <5>3
      <4> HIDE DEF st, n
      <4>2. st.blocked \in SUBSET Signals
        BY <2>1, SignalStates DEF st
      <4> QED
        BY <4>1, <4>2
    <3>2. BlockForHandler(st, n) = [st EXCEPT !.blocked = (st.blocked \cup {n}) \ Unblockable]
      BY DEF BlockForHandler
    <3>3. st \in SignalState
      BY <2>1
    <3> HIDE DEF st, n
    <3> QED
      BY <3>1, <3>2, <3>3 DEF SignalState, st, n
  <2>3. sig' \in [Pids -> SignalState]
    BY <1>6, <2>2 DEF Shape
  <2>4. /\ Append(masks[p], sig[p].blocked) \in Seq(SUBSET Signals)
        /\ Len(Append(masks[p], sig[p].blocked)) = Len(masks[p]) + 1
        /\ Len(masks[p]) + 1 \in Nat
    BY <1>1, <2>1, AppendProperties, LenProperties
  <2>5. masks' \in [Pids -> Seq(SUBSET Signals)] /\ depth' \in [Pids -> Nat]
    BY <1>6, <2>4 DEF Shape
  <2>6. FramesInv => FramesInv'
    BY <1>6, <2>4 DEF Shape, FramesInv
  <2> QED
    BY <1>2, <1>3, <2>3, <2>5, <2>6 DEF Shape
<1> QED
  BY <1>1, <1>4, <1>5, <1>6 DEF Return, CheckPendingSignals, procVars

(***************************************************************************)
(* Every step keeps the types, and a frame for every handler.              *)
(***************************************************************************)
LEMMA ShapeKept ==
  ASSUME Shape, Next
  PROVE  Shape' /\ (FramesInv => FramesInv')
<1>0. /\ status \in [Pids -> {"none", "running", "zombie", "reaped"}]
      /\ parent \in [Pids -> 0 .. MaxPid] /\ vforkParent \in [Pids -> 0 .. MaxPid]
      /\ waitThread \in [Pids -> BOOLEAN] /\ signalThread \in [Pids -> BOOLEAN]
      /\ ready \in [Pids -> BOOLEAN] /\ sig \in [Pids -> SignalState]
      /\ pc \in [Pids -> Places] /\ target \in [Pids -> 0 .. MaxPid]
      /\ masks \in [Pids -> Seq(SUBSET Signals)] /\ depth \in [Pids -> Nat]
      /\ workload \in Workloads
  BY DEF Shape
<1>1. /\ 0 \in 0 .. MaxPid /\ \A p \in Pids : p \in 0 .. MaxPid
      /\ {"user", "return", "clone", "vfs", "read", "console", "yielded", "dead", "panic"}
            \subseteq Places
      /\ {SIGINT, SIGKILL, SIGSEGV} \subseteq Signals
  BY ProcessAssumption DEF Pids, Places, Signals
<1>2. \A S : Unblocked(S) \in [Pids -> BOOLEAN]
  BY UnblockedThreads
<1>3. ASSUME UNCHANGED <<masks, depth>>, Shape' PROVE Shape' /\ (FramesInv => FramesInv')
  BY <1>3 DEF FramesInv
<1>4. ASSUME NEW p \in Pids, NEW at \in Places, pc' = [pc EXCEPT ![p] = at]
      PROVE  pc' \in [Pids -> Places]
  BY <1>0, <1>4
<1>5. ASSUME MayCreate, SpawnProcess(NextPid) PROVE Shape' /\ (FramesInv => FramesInv')
  <2>1. NextPid \in Pids
    BY <1>5, NewPid
  <2>2. status' \in [Pids -> {"none", "running", "zombie", "reaped"}]
    BY <1>0, <1>5, <2>1 DEF SpawnProcess, ReapZombies
  <2>3. pc' \in [Pids -> Places] /\ ready' \in [Pids -> BOOLEAN]
    BY <1>0, <1>1, <1>5, <2>1 DEF SpawnProcess
  <2>4. UNCHANGED <<parent, waitThread, signalThread, vforkParent, sig, target, masks, depth,
                    workload>>
    BY <1>5 DEF SpawnProcess
  <2>5. Shape'
    BY <1>0, <2>2, <2>3, <2>4 DEF Shape
  <2> QED
    BY <1>3, <2>4, <2>5
<1>6. CASE Spawn \/ LaunchService
  BY <1>5, <1>6 DEF Spawn, LaunchService
<1>7. CASE Key \/ Handled
  <2>1. UNCHANGED <<status, parent, waitThread, signalThread, vforkParent, pc, target, masks,
                    depth, workload>>
    BY <1>7 DEF Key, Handled, PushInput, CtrlC, WakeBlockedReader, ConsoleUnchanged, procVars,
       threadVars
  <2>2. ready' \in [Pids -> BOOLEAN]
    BY <1>0, <1>2, <1>7 DEF Key, Handled, PushInput, CtrlC, WakeBlockedReader, threadVars
  <2>3. sig' \in [Pids -> SignalState]
    <3>1. InTable(kbd.pid) => Queue(sig[kbd.pid], SIGINT) \in SignalState
      BY <1>0, <1>1, SignalStates DEF InTable
    <3>2. SigintQueued(kbd.pid) \in [Pids -> SignalState]
      BY <1>0, <3>1 DEF SigintQueued
    <3> QED
      BY <1>0, <1>7, <3>2 DEF Key, Handled, PushInput, CtrlC, WakeBlockedReader, procVars
  <2>4. Shape'
    BY <1>0, <2>1, <2>2, <2>3 DEF Shape
  <2> QED
    BY <1>3, <2>1, <2>4
<1>8. ASSUME NEW p \in Pids, Clone(p) PROVE Shape' /\ (FramesInv => FramesInv')
  <2> DEFINE c == NextPid
  <2>1. /\ c \in Pids /\ p \in 0 .. MaxPid
        /\ status' = [status EXCEPT ![c] = "running"] /\ parent' = [parent EXCEPT ![c] = p]
        /\ vforkParent' = [vforkParent EXCEPT ![c] = p]
        /\ masks' = [masks EXCEPT ![c] = masks[p]] /\ depth' = [depth EXCEPT ![c] = depth[p]]
        /\ pc' = [pc EXCEPT ![p] = "clone", ![c] = "user"]
        /\ ready' = [ready EXCEPT ![p] = FALSE, ![c] = TRUE]
        /\ UNCHANGED <<waitThread, signalThread, sig, target, workload>>
    BY <1>1, <1>8, NewPid DEF Clone, Enters
  <2> HIDE DEF c
  <2>2. /\ status' \in [Pids -> {"none", "running", "zombie", "reaped"}]
        /\ parent' \in [Pids -> 0 .. MaxPid] /\ vforkParent' \in [Pids -> 0 .. MaxPid]
    BY <1>0, <2>1
  <2>3. masks' \in [Pids -> Seq(SUBSET Signals)] /\ depth' \in [Pids -> Nat]
    BY <1>0, <2>1
  <2>4. pc' \in [Pids -> Places] /\ ready' \in [Pids -> BOOLEAN]
    BY <1>0, <1>1, <2>1
  <2>5. FramesInv => FramesInv'
    BY <1>0, <2>1 DEF FramesInv
  <2> QED
    BY <1>0, <2>1, <2>2, <2>3, <2>4, <2>5 DEF Shape
<1>9. ASSUME NEW p \in Pids,
             \/ CloneReturns(p) \/ ExecveFails(p) \/ Dies(p) \/ YieldReturns(p)
      PROVE  Shape' /\ (FramesInv => FramesInv')
  <2>1. /\ UNCHANGED <<procVars, ready, target, masks, depth, workload>>
        /\ \E at \in Places : pc' = [pc EXCEPT ![p] = at]
    BY <1>1, <1>9 DEF CloneReturns, ExecveFails, Dies, YieldReturns, Resumes, ToReturn
  <2>2. Shape'
    BY <1>0, <1>4, <2>1 DEF Shape, procVars
  <2> QED
    BY <1>3, <2>1, <2>2
<1>10. ASSUME NEW p \in Pids, Execve(p) \/ FileRead(p)
       PROVE  Shape' /\ (FramesInv => FramesInv')
  <2>1. /\ UNCHANGED <<procVars, target, masks, depth, workload>>
        /\ pc' \in [Pids -> Places] /\ ready' \in [Pids -> BOOLEAN]
    <3>1. CASE Execve(p)
      BY <1>0, <1>1, <3>1 DEF Execve, Enters, Blocks
    <3>2. CASE FileRead(p)
      BY <1>0, <1>2, <3>2 DEF FileRead
    <3> QED
      BY <1>10, <3>1, <3>2
  <2>2. Shape'
    BY <1>0, <2>1 DEF Shape, procVars
  <2> QED
    BY <1>3, <2>1, <2>2
<1>11. ASSUME NEW p \in Pids, ExecveSucceeds(p) PROVE Shape' /\ (FramesInv => FramesInv')
  <2>1. /\ UNCHANGED <<status, parent, waitThread, signalThread, sig, target, workload>>
        /\ pc' = [pc EXCEPT ![p] = "user"] /\ masks' = [masks EXCEPT ![p] = <<>>]
        /\ depth' = [depth EXCEPT ![p] = 0] /\ vforkParent' = [vforkParent EXCEPT ![p] = 0]
        /\ \E S : ready' = Unblocked(S)
    BY <1>11 DEF ExecveSucceeds, Resumes
  <2>2. <<>> \in Seq(SUBSET Signals) /\ Len(<<>>) = 0
    BY EmptySeq
  <2>3. masks' \in [Pids -> Seq(SUBSET Signals)] /\ depth' \in [Pids -> Nat]
    BY <1>0, <2>1, <2>2
  <2>4. ready' \in [Pids -> BOOLEAN] /\ pc' \in [Pids -> Places]
    BY <1>1, <1>2, <1>4, <2>1
  <2>5. vforkParent' \in [Pids -> 0 .. MaxPid]
    BY <1>0, <1>1, <2>1
  <2>6. FramesInv => FramesInv'
    BY <1>0, <2>1, <2>2 DEF FramesInv
  <2> QED
    BY <1>0, <2>1, <2>3, <2>4, <2>5, <2>6 DEF Shape
<1>12. ASSUME NEW p \in Pids, Exit(p) \/ ReturnTerminates(p)
       PROVE  Shape' /\ (FramesInv => FramesInv')
  <2>1. Terminate(p) /\ UNCHANGED <<masks, depth, workload>>
    BY <1>12 DEF Exit, ReturnTerminates, Enters, Terminate
  <2> QED
    BY <1>3, <2>1, EndTypes
<1>13. ASSUME NEW p \in Pids, Fault(p) PROVE Shape' /\ (FramesInv => FramesInv')
  <2>1. CASE KillUserProcess(p)
    BY <1>3, <1>13, <2>1, EndTypes DEF Fault, KillUserProcess
  <2>2. CASE ~KillUserProcess(p)
    <3> DEFINE st == [sig[p] EXCEPT !.pending = @ \ {SIGSEGV}]
    <3>1. /\ sig' = [sig EXCEPT ![p] = BlockForHandler(st, SIGSEGV)]
          /\ masks' = [masks EXCEPT ![p] = Append(masks[p], sig[p].blocked)]
          /\ depth' = [depth EXCEPT ![p] = depth[p] + 1]
          /\ UNCHANGED <<status, parent, waitThread, signalThread, vforkParent, pc, ready,
                         target, workload>>
      BY <1>13, <2>2 DEF Fault
    <3>2. sig[p] \in SignalState /\ masks[p] \in Seq(SUBSET Signals) /\ depth[p] \in Nat
      BY <1>0
    <3>3. st \in SignalState /\ sig[p].blocked \in SUBSET Signals
      BY <1>1, <3>2, SignalStates
    <3> HIDE DEF st
    <3>4. BlockForHandler(st, SIGSEGV) \in SignalState
      BY <1>1, <3>3, SignalStates
    <3>5. sig' \in [Pids -> SignalState]
      BY <1>0, <3>1, <3>4
    <3>6. /\ Append(masks[p], sig[p].blocked) \in Seq(SUBSET Signals)
          /\ Len(Append(masks[p], sig[p].blocked)) = Len(masks[p]) + 1
      BY <3>2, <3>3, AppendProperties
    <3>7. masks' \in [Pids -> Seq(SUBSET Signals)] /\ depth' \in [Pids -> Nat]
      BY <1>0, <3>1, <3>2, <3>6
    <3>8. FramesInv => FramesInv'
      BY <1>0, <3>1, <3>6 DEF FramesInv
    <3> QED
      BY <1>0, <3>1, <3>5, <3>7, <3>8 DEF Shape
  <2> QED
    BY <2>1, <2>2
<1>14. ASSUME NEW p \in Pids, Wait4(p) \/ Wait4Again(p)
       PROVE  Shape' /\ (FramesInv => FramesInv')
  <2>1. PICK t \in 0 .. MaxPid :
           /\ Wait4Turn(p, t) /\ Wait4Unchanged /\ UNCHANGED workload
           /\ target' \in [Pids -> 0 .. MaxPid]
    <3>1. CASE Wait4(p)
      <4>1. PICK t \in {0} \cup {c \in Pids : parent[c] = p} :
               target' = [target EXCEPT ![p] = t] /\ Wait4Turn(p, t)
        BY <3>1 DEF Wait4
      <4>2. t \in 0 .. MaxPid
        BY <1>1, <4>1
      <4> QED
        BY <1>0, <3>1, <4>1, <4>2 DEF Wait4, Enters
    <3>2. CASE Wait4Again(p)
      BY <1>0, <3>2 DEF Wait4Again, Resumes
    <3> QED
      BY <1>14, <3>1, <3>2
  <2>2. UNCHANGED <<masks, depth>>
    BY <2>1 DEF Wait4Unchanged
  <2> QED
    BY <1>3, <2>1, <2>2, Wait4Types
<1>15. ASSUME NEW p \in Pids, Return(p) PROVE Shape' /\ (FramesInv => FramesInv')
  BY <1>15, ReturnTypes
<1>16. ASSUME NEW p \in Pids, Sigreturn(p) PROVE Shape' /\ (FramesInv => FramesInv')
  <2> DEFINE m == masks[p]
  <2>1. /\ m # <<>> /\ m \in Seq(SUBSET Signals) /\ frame' = p
        /\ sig' = [sig EXCEPT ![p] = RestoreMask(sig[p], m[Len(m)])]
        /\ masks' = [masks EXCEPT ![p] = SubSeq(m, 1, Len(m) - 1)]
        /\ depth' = [depth EXCEPT ![p] = Len(m) - 1]
        /\ pc' = [pc EXCEPT ![p] = "return"]
        /\ UNCHANGED <<status, parent, waitThread, signalThread, vforkParent, ready, target,
                       workload>>
    BY <1>0, <1>16 DEF Sigreturn, Enters, ToReturn
  <2>2. sig[p] \in SignalState
    BY <1>0
  <2> HIDE DEF m
  <2>3. Len(m) \in Nat /\ Len(m) > 0 /\ m[Len(m)] \in SUBSET Signals
    BY <2>1, EmptySeq, LenProperties, ElementOfSeq
  <2>4. RestoreMask(sig[p], m[Len(m)]) \in SignalState
    BY <2>2, <2>3, SignalStates
  <2>5. sig' \in [Pids -> SignalState]
    BY <1>0, <2>1, <2>4
  <2>6. /\ SubSeq(m, 1, Len(m) - 1) \in Seq(SUBSET Signals)
        /\ Len(SubSeq(m, 1, Len(m) - 1)) = Len(m) - 1 /\ Len(m) - 1 \in Nat
    <3> DEFINE n == Len(m) - 1
    <3>1. n \in 0 .. Len(m) /\ n \in Nat
      BY <2>3
    <3> HIDE DEF n
    <3>2. SubSeq(m, 1, n) \in Seq(SUBSET Signals) /\ Len(SubSeq(m, 1, n)) = n
      BY <2>1, <3>1, SplitTypes
    <3> QED
      BY <3>1, <3>2 DEF n
  <2>7. masks' \in [Pids -> Seq(SUBSET Signals)] /\ depth' \in [Pids -> Nat]
    BY <1>0, <2>1, <2>6
  <2>8. pc' \in [Pids -> Places]
    BY <1>1, <1>4, <2>1
  <2>9. FramesInv => FramesInv'
    BY <1>0, <2>1, <2>6 DEF FramesInv
  <2> QED
    BY <1>0, <2>1, <2>5, <2>7, <2>8, <2>9 DEF Shape
<1>17. ASSUME NEW p \in Pids, Sigaction(p) \/ Sigprocmask(p)
       PROVE  Shape' /\ (FramesInv => FramesInv')
  <2>1. PICK st \in SignalState, op \in {"handlers", "mask"} : SignalCall(p, op, st)
    <3>1. sig[p] \in SignalState
      BY <1>0
    <3>2. CASE Sigaction(p)
      BY <1>1, <3>1, <3>2, SignalStates DEF Sigaction, Dispositions
    <3>3. CASE Sigprocmask(p)
      BY <1>1, <3>1, <3>3, MaskStates DEF Sigprocmask
    <3> QED
      BY <1>17, <3>2, <3>3
  <2>2. /\ sig' = [sig EXCEPT ![p] = st] /\ pc' = [pc EXCEPT ![p] = "return"]
        /\ UNCHANGED <<status, parent, waitThread, signalThread, vforkParent, ready, target,
                       masks, depth, workload>>
    BY <2>1 DEF SignalCall, Enters, ToReturn
  <2>3. sig' \in [Pids -> SignalState] /\ pc' \in [Pids -> Places]
    BY <1>0, <1>1, <1>4, <2>1, <2>2
  <2>4. Shape'
    BY <1>0, <2>2, <2>3 DEF Shape
  <2> QED
    BY <1>3, <2>2, <2>4
<1>18. ASSUME NEW p \in Pids, Kill(p) PROVE Shape' /\ (FramesInv => FramesInv')
  <2>1. PICK q \in Pids, s \in {SIGINT, SIGKILL} :
           sig' = [sig EXCEPT ![q] = Queue(sig[q], s)] /\ ready' = Unblocked(Interrupts(q))
    BY <1>0, <1>18 DEF Kill, InTable
  <2>2. /\ pc' = [pc EXCEPT ![p] = "return"]
        /\ UNCHANGED <<status, parent, waitThread, signalThread, vforkParent, target,
                       masks, depth, workload>>
    BY <1>18 DEF Kill, Enters, ToReturn
  <2>3. Queue(sig[q], s) \in SignalState
    BY <1>0, <1>1, SignalStates
  <2>4. sig' \in [Pids -> SignalState] /\ pc' \in [Pids -> Places]
        /\ ready' \in [Pids -> BOOLEAN]
    BY <1>0, <1>1, <1>2, <1>4, <2>1, <2>2, <2>3
  <2>5. Shape'
    BY <1>0, <2>2, <2>4 DEF Shape
  <2> QED
    BY <1>3, <2>2, <2>5
<1>19. ASSUME NEW p \in Pids,
              \/ Pipe2(p) \/ Close(p) \/ Dup2(p) \/ SetCloexec(p) \/ Read(p) \/ ReadAgain(p)
              \/ Write(p)
       PROVE  Shape' /\ (FramesInv => FramesInv')
  <2>1. FdUnchanged /\ UNCHANGED workload
    BY <1>19 DEF Pipe2, Close, Dup2, SetCloexec, Read, ReadAgain, Write, Enters, Resumes
  <2>2. \E at \in Places : pc' = [pc EXCEPT ![p] = at]
    BY <1>1, <1>19 DEF Pipe2, Close, Dup2, SetCloexec, Read, ReadAgain, Write, ReadTurn,
       ToReturn, Blocks, YieldsIf
  <2>3. signalThread' \in [Pids -> BOOLEAN] /\ ready' \in [Pids -> BOOLEAN]
    <3>1. CASE Read(p) \/ ReadAgain(p)
      BY <1>0, <3>1 DEF Read, ReadAgain, ReadTurn
    <3>2. CASE Pipe2(p) \/ Close(p) \/ Dup2(p) \/ SetCloexec(p) \/ Write(p)
      <4>1. signalThread' = signalThread /\ (ready' = ready \/ \E S : ready' = Unblocked(S))
        BY <3>2 DEF Pipe2, Close, Dup2, SetCloexec, Write
      <4> QED
        BY <1>0, <1>2, <4>1
    <3> QED
      BY <1>19, <3>1, <3>2
  <2>4. Shape'
    BY <1>0, <1>4, <2>1, <2>2, <2>3 DEF Shape, FdUnchanged
  <2> QED
    BY <1>3, <2>1, <2>4 DEF FdUnchanged
<1>20. ASSUME NEW p \in Pids, ConsoleRead(p) \/ ConsoleReadAgain(p)
       PROVE  Shape' /\ (FramesInv => FramesInv')
  <2>1. ConsoleUnchanged /\ UNCHANGED <<sig, workload>>
    BY <1>20 DEF ConsoleRead, ConsoleReadAgain, Enters, Resumes
  <2>2. \E at \in Places : pc' = [pc EXCEPT ![p] = at]
    BY <1>1, <1>20 DEF ConsoleRead, ConsoleReadAgain, ConsoleTurn, ToReturn, Blocks
  <2>3. ready' \in [Pids -> BOOLEAN]
    BY <1>0, <1>20 DEF ConsoleRead, ConsoleReadAgain, ConsoleTurn
  <2>4. Shape'
    BY <1>0, <1>4, <2>1, <2>2, <2>3 DEF Shape, ConsoleUnchanged
  <2> QED
    BY <1>3, <2>1, <2>4 DEF ConsoleUnchanged
<1>21. ASSUME NEW p \in Pids, WaitAndReap(p) PROVE Shape' /\ (FramesInv => FramesInv')
  <2>1. /\ status' = [status EXCEPT ![p] = "reaped"]
        /\ UNCHANGED <<parent, waitThread, signalThread, vforkParent, sig, pc, ready, target,
                       masks, depth, workload>>
    BY <1>21 DEF WaitAndReap, threadVars
  <2>2. Shape'
    BY <1>0, <2>1 DEF Shape
  <2> QED
    BY <1>3, <2>1, <2>2
<1> QED
  BY <1>6, <1>7, <1>8, <1>9, <1>10, <1>11, <1>12, <1>13, <1>14, <1>15, <1>16, <1>17, <1>18,
     <1>19, <1>20, <1>21 DEF Next, SystemCall, Proceed

-----------------------------------------------------------------------------
(***************************************************************************)
(* The kinds of steps, as a family sees them.  Only the processes in A     *)
(* move on their own; the others may be woken or signalled.                *)
(***************************************************************************)
Stays(A) ==
  \A q \in Pids \ A :
    /\ pc'[q] = pc[q] /\ target'[q] = target[q] /\ signalThread'[q] = signalThread[q]
    /\ ready[q] => ready'[q]

NotKilled(A) ==
  \A q \in Pids \ A : SIGKILL \in Deliverable(sig'[q]) =>
    SIGKILL \in Deliverable(sig[q]) \/ (signalThread[q] => ready'[q])

Reaped(q) == status'[q] = status[q] \/ (status[q] = "zombie" /\ status'[q] = "reaped")

\* The child lets its vfork parent go.
Frees(p) ==
  /\ vforkParent' = [vforkParent EXCEPT ![p] = 0]
  /\ vforkParent[p] # 0 => ready'[vforkParent[p]]

\* The turn of a pipe read.
Reads(p) == Read(p) \/ ReadAgain(p)

\* The turn of a console read.
ConsoleReads(p) == ConsoleRead(p) \/ ConsoleReadAgain(p)

Calm(A) ==
  /\ Stays(A) /\ NotKilled(A) /\ UNCHANGED <<parent, waitThread, crashed>>
  /\ \A q \in Pids : Reaped(q)
  /\ \A q \in A : pc'[q] \notin {"wait4", "clone"} /\ (pc'[q] \in Alive => pc[q] \in Alive)
  /\ \A q \in A : pc'[q] = "read" => Reads(q)
  /\ \A q \in A : pc'[q] = "console" => ConsoleReads(q)
  /\ vforkParent' = vforkParent \/ \E p \in A : Frees(p)

Sleeps(p, t) ==
  /\ Stays({p}) /\ UNCHANGED <<status, parent, crashed, vforkParent, sig>>
  /\ pc[p] \in Alive /\ pc'[p] = "wait4" /\ target'[p] = t
  /\ waitThread' = [waitThread EXCEPT ![p] = TRUE] /\ signalThread'[p] = TRUE
  /\ ZombieChildren(p, t) = {} /\ HasChildren(p) /\ Deliverable(sig[p]) = {}
  /\ t # 0 => t \in Pids /\ parent[t] = p

Born(c) ==
  /\ Stays({c}) /\ UNCHANGED <<parent, waitThread, crashed, vforkParent, sig>>
  /\ c \in Pids /\ status[c] = "none" /\ status'[c] = "running" /\ pc'[c] = "user"
  /\ \A q \in Pids \ {c} : Reaped(q)

Forks(p, c) ==
  /\ Stays({p, c}) /\ UNCHANGED <<waitThread, crashed, sig>>
  /\ c \in Pids /\ p # c /\ status[c] = "none" /\ status' = [status EXCEPT ![c] = "running"]
  /\ parent' = [parent EXCEPT ![c] = p] /\ vforkParent' = [vforkParent EXCEPT ![c] = p]
  /\ status[p] = "running" /\ pc'[p] = "clone" /\ pc'[c] = "user"

Ends(p) ==
  /\ Stays({p}) /\ pc'[p] \in {"dying", "dead"}
  /\ status' = [status EXCEPT ![p] = "zombie"] /\ parent' = parent
  /\ ParentTold(p) /\ \A q \in WaitingParent(p) : ready'[q]
  /\ \/ Frees(p) /\ crashed' = crashed
     \/ vforkParent' = vforkParent /\ crashed' = crashed \cup {p}

Kind ==
  \/ \E A \in SUBSET Pids : Calm(A)
  \/ \E p \in Pids : Ends(p) \/ \E t : Sleeps(p, t) \/ Forks(p, t)
  \/ \E c \in Pids : Born(c)

(***************************************************************************)
(* Every step of the specification is of one of these kinds.               *)
(***************************************************************************)
LEMMA Kinds ==
  ASSUME Shape, FamilyInv, Next
  PROVE  Kind
<1>0. /\ status \in [Pids -> {"none", "running", "zombie", "reaped"}]
      /\ parent \in [Pids -> 0 .. MaxPid] /\ vforkParent \in [Pids -> 0 .. MaxPid]
      /\ waitThread \in [Pids -> BOOLEAN] /\ signalThread \in [Pids -> BOOLEAN]
      /\ ready \in [Pids -> BOOLEAN] /\ sig \in [Pids -> SignalState]
      /\ pc \in [Pids -> Places] /\ target \in [Pids -> 0 .. MaxPid]
  BY DEF Shape
<1>1. \A S : \A q \in Pids : /\ ready[q] => Unblocked(S)[q]
                             /\ q \in S => Unblocked(S)[q]
  BY UnblockedThreads
<1>2. \A v \in 0 .. MaxPid : v # 0 => v \in Pids /\ Slot(v) = {v}
  BY ProcessAssumption DEF Pids, Slot
<1>3. \A q \in Pids, s \in {SIGINT, SIGCHLD} :
         SIGKILL \in Deliverable(Queue(sig[q], s)) => SIGKILL \in Deliverable(sig[q])
  <2>1. SIGINT \in Signals /\ SIGCHLD \in Signals /\ SIGKILL \notin {SIGINT, SIGCHLD}
    BY DEF Signals, SIGINT, SIGKILL, SIGCHLD
  <2> QED
    BY <1>0, <2>1, SignalStates
<1>4. ASSUME NEW p \in Pids, Calm({p}) PROVE Kind
  BY <1>4 DEF Kind
\* A process moves on and the family does not change.
<1>5. ASSUME NEW p \in Pids, NEW at \in Places \ {"wait4", "clone"}, at \in Alive => pc[p] \in Alive,
             pc' = [pc EXCEPT ![p] = at], at = "read" => Reads(p), at = "console" => ConsoleReads(p),
             UNCHANGED <<status, parent, waitThread, crashed, vforkParent>>,
             \A q \in Pids \ {p} : /\ target'[q] = target[q]
                                   /\ signalThread'[q] = signalThread[q]
                                   /\ ready[q] => ready'[q],
             NotKilled({p})
      PROVE  Kind
  <2>1. Stays({p})
    BY <1>0, <1>5 DEF Stays
  <2>2. pc'[p] = at
    BY <1>0, <1>5
  <2>3. Calm({p})
    BY <1>5, <2>1, <2>2 DEF Calm, Reaped
  <2> QED
    BY <1>4, <2>3
<1>6. ASSUME NEW A, \A q \in Pids \ A : sig'[q] = sig[q] PROVE NotKilled(A)
  BY <1>6 DEF NotKilled
<1>7. ASSUME MayCreate, SpawnProcess(NextPid) PROVE Kind
  <2>1. NextPid \in Pids /\ status[NextPid] = "none"
    BY <1>7, NewPid
  <2>2. /\ \A q \in Pids : ReapZombies[q] = status[q] \/
                              (status[q] = "zombie" /\ ReapZombies[q] = "reaped")
        /\ ReapZombies \in [Pids -> {"none", "running", "zombie", "reaped"}]
    BY <1>0 DEF ReapZombies
  <2>3. /\ status' = [ReapZombies EXCEPT ![NextPid] = "running"]
        /\ pc' = [pc EXCEPT ![NextPid] = "user"] /\ ready' = [ready EXCEPT ![NextPid] = TRUE]
        /\ UNCHANGED <<parent, waitThread, signalThread, vforkParent, sig, target, crashed>>
    BY <1>7 DEF SpawnProcess
  <2>4. Born(NextPid)
    BY <1>0, <2>1, <2>2, <2>3 DEF Born, Stays, Reaped
  <2> QED
    BY <2>1, <2>4 DEF Kind
<1>8. CASE Spawn \/ LaunchService
  BY <1>7, <1>8 DEF Spawn, LaunchService
<1>9. CASE Key \/ Handled
  <2>1. /\ UNCHANGED <<status, parent, waitThread, signalThread, vforkParent, pc, target,
                       crashed>>
        /\ ready' = ready \/ ready' = Unblocked(Slot(con.reader))
    BY <1>9 DEF Key, Handled, PushInput, CtrlC, WakeBlockedReader, ConsoleUnchanged, procVars,
       threadVars
  <2>2. \A q \in Pids : sig'[q] = sig[q] \/ sig'[q] = Queue(sig[q], SIGINT)
    BY <1>0, <1>9 DEF Key, Handled, PushInput, CtrlC, WakeBlockedReader, SigintQueued, InTable,
       procVars
  <2>3. Calm({})
    BY <1>1, <1>3, <2>1, <2>2 DEF Calm, Stays, NotKilled, Reaped
  <2> QED
    BY <2>3 DEF Kind
<1>10. ASSUME NEW p \in Pids, Clone(p) PROVE Kind
  <2> DEFINE c == NextPid
  <2>1. /\ c \in Pids /\ status[c] = "none" /\ status[p] = "running" /\ p # c
        /\ status' = [status EXCEPT ![c] = "running"] /\ parent' = [parent EXCEPT ![c] = p]
        /\ vforkParent' = [vforkParent EXCEPT ![c] = p]
        /\ pc' = [pc EXCEPT ![p] = "clone", ![c] = "user"]
        /\ ready' = [ready EXCEPT ![p] = FALSE, ![c] = TRUE]
        /\ UNCHANGED <<waitThread, signalThread, sig, target, crashed>>
    BY <1>10, NewPid DEF Clone, Enters
  <2> HIDE DEF c
  <2>2. Forks(p, c)
    BY <1>0, <2>1 DEF Forks, Stays
  <2> QED
    BY <2>2 DEF Kind
<1>11. ASSUME NEW p \in Pids,
              \/ CloneReturns(p) \/ ExecveFails(p) \/ Dies(p) \/ YieldReturns(p)
              \/ Execve(p)
       PROVE  Kind
  <2>1. /\ UNCHANGED <<procVars, target, crashed>>
        /\ \E at \in Places \ {"wait4", "clone", "read", "console"} :
              pc' = [pc EXCEPT ![p] = at] /\ (at \in Alive => pc[p] \in Alive)
    BY <1>11 DEF CloneReturns, ExecveFails, Dies, YieldReturns, Execve, Resumes, Enters,
       ToReturn, Blocks, Places, Alive
  <2>2. \A q \in Pids \ {p} : ready'[q] = ready[q]
    BY <1>0, <1>11 DEF CloneReturns, ExecveFails, Dies, YieldReturns, Execve
  <2>3. UNCHANGED <<status, parent, waitThread, signalThread, vforkParent, sig>>
    BY <2>1 DEF procVars
  <2> QED
    BY <1>5, <1>6, <2>1, <2>2, <2>3
<1>12. ASSUME NEW p \in Pids, FileRead(p) PROVE Kind
  <2>1. /\ UNCHANGED <<status, parent, waitThread, signalThread, vforkParent, sig, pc, target,
                       crashed>>
        /\ ready' = Unblocked({p}) /\ pc[p] = "vfs"
    BY <1>12 DEF FileRead, procVars
  <2>2. Calm({p})
    BY <1>1, <1>6, <2>1 DEF Calm, Stays, Reaped
  <2> QED
    BY <1>4, <2>2
<1>13. ASSUME NEW p \in Pids, ExecveSucceeds(p) PROVE Kind
  <2>1. /\ UNCHANGED <<status, parent, waitThread, signalThread, sig, target, crashed>>
        /\ pc' = [pc EXCEPT ![p] = "user"] /\ pc[p] = "vfs"
        /\ vforkParent' = [vforkParent EXCEPT ![p] = 0]
        /\ \E S : ready' = Unblocked(S \cup Slot(vforkParent[p]))
    BY <1>13 DEF ExecveSucceeds, Resumes
  <2>2. Frees(p)
    BY <1>0, <1>1, <1>2, <2>1 DEF Frees
  <2>3. Stays({p}) /\ pc'[p] = "user"
    BY <1>0, <1>1, <2>1 DEF Stays
  <2>4. Calm({p})
    BY <1>6, <2>1, <2>2, <2>3 DEF Calm, Reaped, Alive
  <2> QED
    BY <1>4, <2>4
<1>14. ASSUME NEW p \in Pids, Exit(p) \/ ReturnTerminates(p) PROVE Kind
  <2>1. Terminate(p)
    BY <1>14 DEF Exit, ReturnTerminates
  <2>2. /\ status' = [status EXCEPT ![p] = "zombie"] /\ parent' = parent /\ ParentTold(p)
        /\ vforkParent' = [vforkParent EXCEPT ![p] = 0] /\ pc' = [pc EXCEPT ![p] = "dying"]
        /\ \E S : ready' = Unblocked(Slot(vforkParent[p]) \cup S \cup WaitingParent(p))
        /\ UNCHANGED <<signalThread, target, crashed>>
    BY <2>1 DEF Terminate, VforkRelease
  <2>3. Frees(p) /\ \A q \in WaitingParent(p) : ready'[q]
    BY <1>0, <1>1, <1>2, <2>2 DEF Frees, WaitingParent
  <2>4. Stays({p}) /\ pc'[p] = "dying"
    BY <1>0, <1>1, <2>2 DEF Stays
  <2>5. Ends(p)
    BY <2>2, <2>3, <2>4 DEF Ends
  <2> QED
    BY <2>5 DEF Kind
<1>15. ASSUME NEW p \in Pids, Fault(p) PROVE Kind
  <2>1. CASE KillUserProcess(p)
    <3>1. /\ status' = [status EXCEPT ![p] = "zombie"] /\ parent' = parent /\ ParentTold(p)
          /\ vforkParent' = vforkParent /\ pc' = [pc EXCEPT ![p] = "dead"]
          /\ ready' = Unblocked(WaitingParent(p)) /\ crashed' = crashed \cup {p}
          /\ UNCHANGED <<signalThread, target>>
      BY <1>15, <2>1 DEF Fault, KillUserProcess
    <3>2. \A q \in WaitingParent(p) : ready'[q]
      BY <1>1, <3>1 DEF WaitingParent
    <3>3. Stays({p}) /\ pc'[p] = "dead"
      BY <1>0, <1>1, <3>1 DEF Stays
    <3>4. Ends(p)
      BY <3>1, <3>2, <3>3 DEF Ends
    <3> QED
      BY <3>4 DEF Kind
  <2>2. CASE ~KillUserProcess(p)
    <3>1. /\ UNCHANGED <<status, parent, waitThread, signalThread, vforkParent, pc, ready,
                         target, crashed>>
          /\ pc[p] = "user" /\ \A q \in Pids \ {p} : sig'[q] = sig[q]
      BY <1>0, <1>15, <2>2 DEF Fault
    <3>2. Calm({p})
      BY <1>6, <3>1 DEF Calm, Stays, Reaped
    <3> QED
      BY <1>4, <3>2
  <2> QED
    BY <2>1, <2>2
<1>16. ASSUME NEW p \in Pids, Wait4(p) \/ Wait4Again(p) PROVE Kind
  <2>1. PICK t : /\ Wait4Turn(p, t) /\ Wait4Unchanged /\ pc[p] \in {"user", "wait4"}
                 /\ t # 0 => t \in Pids /\ parent[t] = p
                 /\ target' = [target EXCEPT ![p] = t]
    <3>1. CASE Wait4(p)
      BY <3>1 DEF Wait4, Enters
    <3>2. CASE Wait4Again(p)
      <4>1. /\ pc[p] = "wait4" /\ target' = target /\ target[p] \in 0 .. MaxPid
            /\ Wait4Turn(p, target[p]) /\ Wait4Unchanged
        BY <1>0, <3>2 DEF Wait4Again, Resumes
      <4>2. target[p] # 0 => target[p] \in Pids /\ parent[target[p]] = p
        BY <1>2, <4>1 DEF FamilyInv
      <4> QED
        BY <1>0, <4>1, <4>2
    <3> QED
      BY <1>16, <3>1, <3>2
  <2>2. /\ UNCHANGED <<parent, vforkParent, sig, crashed>>
        /\ \A q \in Pids \ {p} : target'[q] = target[q]
    BY <1>0, <2>1 DEF Wait4Unchanged
  <2>3. target'[p] = t /\ pc[p] \in Alive
    BY <1>0, <2>1 DEF Alive
  <2>4. CASE /\ ZombieChildren(p, t) = {} /\ HasChildren(p) /\ Deliverable(sig[p]) = {}
             /\ waitThread' = [waitThread EXCEPT ![p] = TRUE]
             /\ signalThread' = [signalThread EXCEPT ![p] = TRUE]
             /\ ready' = [ready EXCEPT ![p] = FALSE]
             /\ Blocks(p, "wait4") /\ status' = status
    <3>1. Stays({p}) /\ pc'[p] = "wait4" /\ signalThread'[p] = TRUE
      BY <1>0, <2>2, <2>4 DEF Stays, Blocks
    <3>2. Sleeps(p, t)
      BY <2>1, <2>2, <2>3, <2>4, <3>1 DEF Sleeps
    <3> QED
      BY <3>2 DEF Kind
  <2>5. CASE /\ \A q \in Pids : Reaped(q)
             /\ ToReturn(p) /\ signalThread' = [signalThread EXCEPT ![p] = FALSE]
             /\ UNCHANGED <<waitThread, ready>>
    <3>1. Stays({p}) /\ pc'[p] = "return"
      BY <1>0, <2>2, <2>5 DEF Stays, ToReturn
    <3>2. Calm({p})
      BY <1>6, <2>2, <2>3, <2>5, <3>1 DEF Calm
    <3> QED
      BY <1>4, <3>2
  <2>6. ASSUME ZombieChildren(p, t) # {},
               LET c == CHOOSE c \in ZombieChildren(p, t) :
                            \A d \in ZombieChildren(p, t) : c <= d
               IN  status' = [status EXCEPT ![c] = "reaped"]
        PROVE  \A q \in Pids : Reaped(q)
    <3> DEFINE Z == ZombieChildren(p, t)
               c == CHOOSE x \in Z : \A d \in Z : x <= d
    <3>1. Z \subseteq Pids /\ Z \subseteq Nat /\ \A q \in Z : status[q] = "zombie"
      BY DEF ZombieChildren, Pids
    <3>2. Min(Z) \in Z /\ \A d \in Z : Min(Z) <= d
      <4> HIDE DEF Z
      <4>1. Z # {}
        BY <2>6 DEF Z
      <4> QED
        BY <3>1, <4>1, MinInSet
    <3>3. c \in Z
      <4> HIDE DEF Z
      <4> QED
        BY <3>2
    <3>4. status' = [status EXCEPT ![c] = "reaped"]
      BY <2>6
    <3> HIDE DEF c, Z
    <3> QED
      BY <1>0, <3>1, <3>3, <3>4 DEF Reaped
  <2>7. ASSUME status' = status PROVE \A q \in Pids : Reaped(q)
    BY <2>7 DEF Reaped
  <2> QED
    BY <2>1, <2>4, <2>5, <2>6, <2>7 DEF Wait4Turn
<1>17. ASSUME NEW p \in Pids, Return(p) PROVE Kind
  <2>1. /\ pc' = [pc EXCEPT ![p] = "user"] /\ UNCHANGED <<target, crashed>>
        /\ UNCHANGED <<status, parent, waitThread, signalThread, vforkParent, ready>>
        /\ pc[p] = "return"
    BY <1>17 DEF Return, CheckPendingSignals, procVars
  <2>2. \A q \in Pids \ {p} : sig'[q] = sig[q]
    BY <1>0, <1>17 DEF Return, CheckPendingSignals, procVars
  <2> QED
    BY <1>5, <1>6, <2>1, <2>2 DEF Places, Alive
<1>18. ASSUME NEW p \in Pids, Sigreturn(p) \/ Sigaction(p) \/ Sigprocmask(p) PROVE Kind
  <2>1. /\ pc' = [pc EXCEPT ![p] = "return"] /\ pc[p] = "user"
        /\ UNCHANGED <<status, parent, waitThread, signalThread, vforkParent, ready, target,
                       crashed>>
        /\ \E st : sig' = [sig EXCEPT ![p] = st]
    BY <1>18 DEF Sigreturn, Sigaction, Sigprocmask, SignalCall, Enters, ToReturn
  <2>2. \A q \in Pids \ {p} : sig'[q] = sig[q]
    BY <1>0, <2>1
  <2> QED
    BY <1>5, <1>6, <2>1, <2>2 DEF Places, Alive
<1>19. ASSUME NEW p \in Pids, Kill(p) PROVE Kind
  <2>1. PICK q \in Pids, s \in {SIGINT, SIGKILL} :
           sig' = [sig EXCEPT ![q] = Queue(sig[q], s)] /\ ready' = Unblocked(Interrupts(q))
    BY <1>0, <1>19 DEF Kill, InTable
  <2>2. /\ pc' = [pc EXCEPT ![p] = "return"] /\ pc[p] = "user"
        /\ UNCHANGED <<status, parent, waitThread, signalThread, vforkParent, target, crashed>>
    BY <1>19 DEF Kill, Enters, ToReturn
  <2>3. NotKilled({p})
    <3>1. \A u \in Pids \ {q} : sig'[u] = sig[u]
      BY <1>0, <2>1
    <3>2. signalThread[q] => ready'[q]
      BY <1>1, <2>1 DEF Interrupts
    <3> QED
      BY <3>1, <3>2 DEF NotKilled
  <2>4. \A u \in Pids \ {p} : ready[u] => ready'[u]
    BY <1>1, <2>1
  <2> QED
    BY <1>5, <2>2, <2>3, <2>4 DEF Places, Alive
<1>20. ASSUME NEW p \in Pids,
              \/ Pipe2(p) \/ Close(p) \/ Dup2(p) \/ SetCloexec(p) \/ Read(p) \/ ReadAgain(p)
              \/ Write(p)
       PROVE  Kind
  <2>1. UNCHANGED <<status, parent, waitThread, vforkParent, sig, target, crashed>>
    BY <1>20 DEF Pipe2, Close, Dup2, SetCloexec, Read, ReadAgain, Write, FdUnchanged
  <2>2. pc[p] \in {"user", "read"}
    BY <1>20 DEF Pipe2, Close, Dup2, SetCloexec, Read, ReadAgain, Write, Enters, Resumes
  <2>3. \E at \in {"return", "read", "yielded"} : pc' = [pc EXCEPT ![p] = at]
    BY <1>20 DEF Pipe2, Close, Dup2, SetCloexec, Read, ReadAgain, Write, ReadTurn,
       ToReturn, Blocks, YieldsIf
  <2>4. \A q \in Pids \ {p} : signalThread'[q] = signalThread[q] /\ (ready[q] => ready'[q])
    <3>1. CASE Read(p) \/ ReadAgain(p)
      BY <1>0, <3>1 DEF Read, ReadAgain, ReadTurn
    <3>2. CASE Pipe2(p) \/ Close(p) \/ Dup2(p) \/ SetCloexec(p) \/ Write(p)
      <4>1. signalThread' = signalThread /\ (ready' = ready \/ \E S : ready' = Unblocked(S))
        BY <3>2 DEF Pipe2, Close, Dup2, SetCloexec, Write
      <4> QED
        BY <1>1, <4>1
    <3> QED
      BY <1>20, <3>1, <3>2
  <2>5. ASSUME pc'[p] = "read" PROVE Reads(p)
    <3>1. ASSUME NEW at \in {"return", "yielded"}, pc' = [pc EXCEPT ![p] = at] PROVE FALSE
      BY <1>0, <2>5, <3>1
    <3>2. CASE Pipe2(p) \/ Dup2(p) \/ SetCloexec(p)
      BY <3>1, <3>2 DEF Pipe2, Dup2, SetCloexec, ToReturn
    <3>3. CASE Close(p) \/ Write(p)
      BY <3>1, <3>3 DEF Close, Write, ToReturn, YieldsIf
    <3> QED
      BY <1>20, <3>2, <3>3 DEF Reads
  <2>6. \A at : pc' = [pc EXCEPT ![p] = at] => pc'[p] = at
    BY <1>0
  <2> QED
    BY <1>5, <1>6, <2>1, <2>2, <2>3, <2>4, <2>5, <2>6 DEF Places, Alive
<1>21. ASSUME NEW p \in Pids, ConsoleRead(p) \/ ConsoleReadAgain(p) PROVE Kind
  <2>1. /\ UNCHANGED <<status, parent, waitThread, signalThread, vforkParent, sig, target,
                       crashed>>
        /\ pc[p] \in {"user", "console"}
    BY <1>21 DEF ConsoleRead, ConsoleReadAgain, ConsoleUnchanged, Enters, Resumes
  <2>2. \E at \in {"return", "console"} : pc' = [pc EXCEPT ![p] = at]
    BY <1>21 DEF ConsoleRead, ConsoleReadAgain, ConsoleTurn, ToReturn, Blocks
  <2>3. \A q \in Pids \ {p} : ready[q] => ready'[q]
    BY <1>0, <1>21 DEF ConsoleRead, ConsoleReadAgain, ConsoleTurn
  <2> QED
    BY <1>5, <1>6, <1>21, <2>1, <2>2, <2>3 DEF Places, Alive, ConsoleReads
<1>22. ASSUME NEW p \in Pids, WaitAndReap(p) PROVE Kind
  <2>1. /\ status' = [status EXCEPT ![p] = "reaped"] /\ status[p] = "zombie"
        /\ UNCHANGED <<parent, waitThread, signalThread, vforkParent, sig, pc, ready, target,
                       crashed>>
    BY <1>22 DEF WaitAndReap, threadVars
  <2>2. \A q \in Pids : Reaped(q)
    BY <1>0, <2>1 DEF Reaped
  <2>3. Calm({})
    BY <1>6, <2>1, <2>2 DEF Calm, Stays
  <2> QED
    BY <2>3 DEF Kind
<1> QED
  BY <1>8, <1>9, <1>10, <1>11, <1>12, <1>13, <1>14, <1>15, <1>16, <1>17, <1>18, <1>19, <1>20,
     <1>21, <1>22 DEF Next, SystemCall, Proceed

-----------------------------------------------------------------------------
(***************************************************************************)
(* Zero is no process, and every other number that is stored is one.       *)
(***************************************************************************)
LEMMA PidNumbers == (\A v \in 0 .. MaxPid : v # 0 => v \in Pids) /\ \A q \in Pids : q # 0
BY ProcessAssumption DEF Pids

(***************************************************************************)
(* FamilyInv survives every kind of step.                                  *)
(***************************************************************************)
LEMMA FamilyKept ==
  ASSUME Shape, Shape', FamilyInv, Kind
  PROVE  FamilyInv'
<1>0. /\ status \in [Pids -> {"none", "running", "zombie", "reaped"}]
      /\ parent \in [Pids -> 0 .. MaxPid] /\ target' \in [Pids -> 0 .. MaxPid]
      /\ vforkParent \in [Pids -> 0 .. MaxPid]
      /\ \A v \in 0 .. MaxPid : v # 0 => v \in Pids
  BY PidNumbers DEF Shape
<1>1. ASSUME NEW A \in SUBSET Pids, Calm(A) PROVE FamilyInv'
  <2>1. ASSUME NEW q \in Pids, pc'[q] \in Alive PROVE status'[q] = "running"
    <3>1. pc[q] \in Alive
      BY <1>1, <2>1 DEF Calm, Stays
    <3> QED
      BY <1>1, <3>1 DEF FamilyInv, Calm, Reaped
  <2>2. ASSUME NEW q \in Pids, parent'[q] # 0 \/ vforkParent'[q] # 0
        PROVE  status'[q] # "none"
    <3>1. vforkParent'[q] # 0 => vforkParent[q] # 0
      BY <1>0, <1>1 DEF Calm, Frees
    <3> QED
      BY <1>1, <2>2, <3>1 DEF FamilyInv, Calm, Reaped
  <2>3. ASSUME NEW q \in Pids, pc'[q] = "wait4", target'[q] # 0 PROVE parent'[target'[q]] = q
    <3>1. q \notin A
      BY <1>1, <2>3 DEF Calm
    <3> QED
      BY <1>1, <2>3, <3>1 DEF FamilyInv, Calm, Stays
  <2> QED
    BY <2>1, <2>2, <2>3 DEF FamilyInv
<1>2. ASSUME NEW p \in Pids, NEW t, Sleeps(p, t) PROVE FamilyInv'
  <2>1. \A q \in Pids : pc'[q] \in Alive => status'[q] = "running"
    BY <1>2 DEF FamilyInv, Sleeps, Stays
  <2>2. \A q \in Pids : parent'[q] # 0 \/ vforkParent'[q] # 0 => status'[q] # "none"
    BY <1>2 DEF FamilyInv, Sleeps
  <2>3. \A q \in Pids : pc'[q] = "wait4" /\ target'[q] # 0 => parent'[target'[q]] = q
    BY <1>2 DEF FamilyInv, Sleeps, Stays
  <2> QED
    BY <2>1, <2>2, <2>3 DEF FamilyInv
<1>3. ASSUME NEW p \in Pids, NEW c, Forks(p, c) PROVE FamilyInv'
  <2>1. c \in Pids /\ p # c /\ parent[c] = 0
    BY <1>3 DEF Forks, FamilyInv
  <2>2. \A q \in Pids : pc'[q] \in Alive => status'[q] = "running"
    BY <1>0, <1>3, <2>1 DEF FamilyInv, Forks, Stays
  <2>3. \A q \in Pids : parent'[q] # 0 \/ vforkParent'[q] # 0 => status'[q] # "none"
    BY <1>0, <1>3, <2>1 DEF FamilyInv, Forks
  <2>4. ASSUME NEW q \in Pids, pc'[q] = "wait4", target'[q] # 0 PROVE parent'[target'[q]] = q
    <3>1. q \notin {p, c}
      BY <1>3, <2>4 DEF Forks
    <3>2. target'[q] = target[q] /\ pc[q] = "wait4" /\ target[q] \in Pids
      BY <1>0, <1>3, <2>4, <3>1 DEF Forks, Stays
    <3>3. parent[target[q]] = q /\ q # 0
      BY <2>4, <3>2 DEF FamilyInv, Pids
    <3>4. target[q] # c
      BY <2>1, <3>3
    <3> QED
      BY <1>0, <1>3, <3>2, <3>3, <3>4 DEF Forks
  <2> QED
    BY <2>2, <2>3, <2>4 DEF FamilyInv
<1>4. ASSUME NEW c \in Pids, Born(c) PROVE FamilyInv'
  <2>1. \A q \in Pids : pc'[q] \in Alive => status'[q] = "running"
    BY <1>4 DEF FamilyInv, Born, Stays, Reaped
  <2>2. \A q \in Pids : parent'[q] # 0 \/ vforkParent'[q] # 0 => status'[q] # "none"
    BY <1>4 DEF FamilyInv, Born, Reaped
  <2>3. \A q \in Pids : pc'[q] = "wait4" /\ target'[q] # 0 => parent'[target'[q]] = q
    BY <1>4 DEF FamilyInv, Born, Stays
  <2> QED
    BY <2>1, <2>2, <2>3 DEF FamilyInv
<1>5. ASSUME NEW p \in Pids, Ends(p) PROVE FamilyInv'
  <2>1. \A q \in Pids : pc'[q] \in Alive => status'[q] = "running"
    BY <1>0, <1>5 DEF FamilyInv, Ends, Stays, Alive
  <2>2. \A q \in Pids : parent'[q] # 0 \/ vforkParent'[q] # 0 => status'[q] # "none"
    BY <1>0, <1>5 DEF FamilyInv, Ends, Frees
  <2>3. \A q \in Pids : pc'[q] = "wait4" /\ target'[q] # 0 => parent'[target'[q]] = q
    BY <1>5 DEF FamilyInv, Ends, Stays
  <2> QED
    BY <2>1, <2>2, <2>3 DEF FamilyInv
<1> QED
  BY <1>1, <1>2, <1>3, <1>4, <1>5 DEF Kind

(***************************************************************************)
(* A parent asleep in wait4: a child that ends wakes it, and every other   *)
(* step leaves it its reason to sleep.                                     *)
(***************************************************************************)
LEMMA WaiterKept ==
  ASSUME Shape, Shape', FamilyInv, WaiterNotStranded, Kind
  PROVE  WaiterNotStranded'
<1> DEFINE Fine(q) ==
      /\ ZombieChildren(q, target[q]) = {} /\ SIGKILL \notin Deliverable(sig[q])
      /\ waitThread[q] /\ signalThread[q]
      /\ \/ \E c \in Pids : status[c] = "running" /\ parent[c] = q /\ target[q] \in {0, c}
         \/ target[q] # 0 /\ ~InTable(target[q])
<1>0. /\ status \in [Pids -> {"none", "running", "zombie", "reaped"}]
      /\ parent \in [Pids -> 0 .. MaxPid] /\ waitThread \in [Pids -> BOOLEAN]
      /\ sig \in [Pids -> SignalState] /\ target \in [Pids -> 0 .. MaxPid]
      /\ \A v \in 0 .. MaxPid : v # 0 => v \in Pids
      /\ \A q \in Pids : q # 0
  BY PidNumbers DEF Shape
<1>1. \A q \in Pids : Asleep(q, "wait4") => Fine(q)
  BY DEF WaiterNotStranded
<1>2. SUFFICES ASSUME NEW q \in Pids, Asleep(q, "wait4")' PROVE Fine(q)'
  BY DEF WaiterNotStranded
<1>3. pc'[q] = "wait4" /\ ~ready'[q]
  BY <1>2 DEF Asleep
\* What an uninvolved sleeper keeps.
<1>4. ASSUME NEW A, Stays(A), q \notin A
      PROVE  /\ Fine(q) /\ target'[q] = target[q] /\ signalThread'[q]
             /\ status[q] = "running" /\ pc[q] = "wait4"
             /\ target[q] # 0 => target[q] \in Pids /\ parent[target[q]] = q
                                 /\ status[target[q]] # "none"
  <2>1. Asleep(q, "wait4") /\ target'[q] = target[q] /\ signalThread'[q] = signalThread[q]
    BY <1>3, <1>4 DEF Stays, Asleep
  <2>2. Fine(q)
    BY <1>1, <2>1
  <2>3. pc[q] = "wait4" /\ status[q] = "running"
    BY <2>1 DEF Asleep, FamilyInv, Alive
  <2>4. target[q] # 0 => target[q] \in Pids /\ parent[target[q]] = q
    BY <1>0, <2>3 DEF FamilyInv
  <2>5. target[q] # 0 => status[target[q]] # "none"
    BY <1>0, <2>4 DEF FamilyInv
  <2> QED
    BY <2>1, <2>2, <2>3, <2>4, <2>5
\* The children of a sleeper are as they were, but for zombies that went.
<1>5. ASSUME NEW A, Stays(A), q \notin A, waitThread'[q] = waitThread[q],
             SIGKILL \notin Deliverable(sig'[q]),
             \A c \in Pids : parent'[c] = q /\ status[c] # "none" => Reaped(c) /\ parent[c] = q,
             \A c \in Pids : parent[c] = q => parent'[c] = q /\ Reaped(c),
             \A c \in Pids : parent'[c] = q /\ status'[c] = "zombie" => status[c] = "zombie"
      PROVE  Fine(q)'
  <2>1. /\ Fine(q) /\ target'[q] = target[q] /\ signalThread'[q]
        /\ target[q] # 0 => target[q] \in Pids /\ parent[target[q]] = q
                            /\ status[target[q]] # "none"
    BY <1>4, <1>5
  <2>2. ZombieChildren(q, target[q])' = {}
    <3>1. ASSUME NEW c \in Pids, status'[c] = "zombie", parent'[c] = q, target'[q] \in {0, c}
          PROVE  FALSE
      <4>1. status[c] = "zombie" /\ parent[c] = q
        BY <1>5, <3>1
      <4> QED
        BY <2>1, <3>1, <4>1 DEF ZombieChildren
    <3> QED
      BY <3>1 DEF ZombieChildren
  <2>3. CASE \E c \in Pids : status[c] = "running" /\ parent[c] = q /\ target[q] \in {0, c}
    <3>1. PICK c \in Pids : status[c] = "running" /\ parent[c] = q /\ target[q] \in {0, c}
      BY <2>3
    <3>2. status'[c] = "running" /\ parent'[c] = q
      BY <1>5, <3>1 DEF Reaped
    <3> QED
      BY <1>5, <2>1, <2>2, <3>1, <3>2
  <2>4. CASE target[q] # 0 /\ ~InTable(target[q])
    <3>1. target[q] \in Pids /\ parent[target[q]] = q /\ status[target[q]] = "reaped"
      BY <1>0, <2>1, <2>4 DEF InTable
    <3>2. status'[target[q]] = "reaped"
      BY <1>5, <3>1 DEF Reaped
    <3> QED
      BY <1>5, <2>1, <2>2, <2>4, <3>2 DEF InTable
  <2> QED
    BY <2>1, <2>3, <2>4
<1>6. ASSUME NEW A \in SUBSET Pids, Calm(A) PROVE Fine(q)'
  <2>1. q \notin A /\ Stays(A)
    BY <1>3, <1>6 DEF Calm
  <2>2. Fine(q)
    BY <1>4, <2>1
  <2>3. SIGKILL \notin Deliverable(sig'[q])
    BY <1>3, <1>6, <2>1, <2>2 DEF Calm, NotKilled
  <2>4. UNCHANGED <<parent, waitThread>> /\ \A c \in Pids : Reaped(c)
    BY <1>6 DEF Calm
  <2>5. \A c \in Pids : status'[c] = "zombie" => status[c] = "zombie"
    BY <2>4 DEF Reaped
  <2> HIDE DEF Fine
  <2> QED
    BY <1>5, <2>1, <2>3, <2>4, <2>5
<1>7. ASSUME NEW p \in Pids, NEW c, Forks(p, c) PROVE Fine(q)'
  <2>1. q \notin {p, c} /\ Stays({p, c}) /\ c \in Pids /\ status[c] = "none"
    BY <1>3, <1>7 DEF Forks
  <2>2. parent[c] = 0 /\ parent'[c] = p /\ \A d \in Pids \ {c} : parent'[d] = parent[d]
    BY <1>0, <1>7, <2>1 DEF FamilyInv, Forks
  <2>3. \A d \in Pids \ {c} : status'[d] = status[d]
    BY <1>0, <1>7 DEF Forks
  <2>4. waitThread' = waitThread /\ SIGKILL \notin Deliverable(sig'[q])
    BY <1>4, <1>7, <2>1 DEF Forks
  <2> HIDE DEF Fine
  <2> QED
    BY <1>0, <1>5, <2>1, <2>2, <2>3, <2>4 DEF Reaped
<1>8. ASSUME NEW c \in Pids, Born(c) PROVE Fine(q)'
  <2>1. q \notin {c} /\ Stays({c}) /\ UNCHANGED <<parent, waitThread, sig>>
    BY <1>3, <1>8 DEF Born
  <2>2. parent[c] = 0 /\ \A d \in Pids \ {c} : Reaped(d)
    BY <1>8 DEF Born, FamilyInv
  <2>3. SIGKILL \notin Deliverable(sig'[q])
    BY <1>4, <2>1
  <2>4. \A d \in Pids : parent[d] = q => Reaped(d)
    BY <1>0, <2>2
  <2>5. \A d \in Pids : parent[d] = q /\ status'[d] = "zombie" => status[d] = "zombie"
    BY <2>4 DEF Reaped
  <2> HIDE DEF Fine
  <2> QED
    BY <1>5, <2>1, <2>3, <2>4, <2>5
<1>9. ASSUME NEW p \in Pids, Ends(p) PROVE Fine(q)'
  <2>1. q # p /\ Stays({p}) /\ parent' = parent
    BY <1>3, <1>9 DEF Ends
  <2>2. Fine(q) /\ status[q] = "running"
    BY <1>4, <2>1
  \* A parent waiting for it would have been woken.
  <2>3. parent[p] # q
    <3>1. parent[p] = q => q \in WaitingParent(p)
      BY <2>2 DEF WaitingParent, InTable
    <3> QED
      BY <1>3, <1>9, <3>1 DEF Ends
  <2>4. \A d \in Pids \ {p} : status'[d] = status[d]
    BY <1>0, <1>9 DEF Ends
  <2>5. ParentTold(p) /\ q \notin WaitingParent(p)
    BY <1>9, <2>3 DEF Ends, WaitingParent
  <2>6. /\ waitThread'[q] = waitThread[q]
        /\ sig'[q] = sig[q] \/ sig'[q] = Queue(sig[q], SIGCHLD)
    BY <2>5, ToldTypes
  <2>7. SIGKILL \notin Deliverable(sig'[q])
    <3>1. SIGCHLD \in Signals /\ SIGKILL # SIGCHLD
      BY DEF Signals, SIGKILL, SIGCHLD
    <3>2. Deliverable(Queue(sig[q], SIGCHLD)) \subseteq Deliverable(sig[q]) \cup {SIGCHLD}
      BY <1>0, <3>1, SignalStates
    <3> QED
      BY <2>2, <2>6, <3>1, <3>2
  <2>8. \A d \in Pids : parent[d] = q => Reaped(d)
    BY <2>3, <2>4 DEF Reaped
  <2>9. \A d \in Pids : parent[d] = q /\ status'[d] = "zombie" => status[d] = "zombie"
    BY <2>3, <2>4
  <2> HIDE DEF Fine
  <2> QED
    BY <1>5, <2>1, <2>6, <2>7, <2>8, <2>9
<1>10. ASSUME NEW p \in Pids, NEW t, Sleeps(p, t) PROVE Fine(q)'
  <2>1. CASE q # p
    <3>1. Stays({p}) /\ UNCHANGED <<status, parent, sig>> /\ waitThread'[q] = waitThread[q]
      BY <1>0, <1>10, <2>1 DEF Sleeps
    <3>2. SIGKILL \notin Deliverable(sig'[q])
      BY <1>4, <2>1, <3>1
    <3> HIDE DEF Fine
    <3> QED
      BY <1>5, <2>1, <3>1, <3>2 DEF Reaped
  <2>2. CASE q = p
    <3>1. /\ UNCHANGED <<status, parent, sig>> /\ target'[q] = t /\ signalThread'[q]
          /\ waitThread'[q] /\ ZombieChildren(q, t) = {} /\ Deliverable(sig[q]) = {}
          /\ HasChildren(q)
      BY <1>0, <1>10, <2>2 DEF Sleeps
    <3>2. ZombieChildren(q, target[q])' = {}
      BY <3>1 DEF ZombieChildren
    <3>3. CASE t = 0
      <4>1. PICK c \in Pids : InTable(c) /\ parent[c] = q
        BY <3>1 DEF HasChildren
      <4>2. status[c] = "running"
        BY <3>1, <3>3, <4>1 DEF InTable, ZombieChildren
      <4> QED
        BY <3>1, <3>2, <3>3, <4>1, <4>2
    <3>4. CASE t # 0
      <4>1. t \in Pids /\ parent[t] = q
        BY <1>10, <2>2, <3>4 DEF Sleeps
      <4>2. status[t] # "zombie"
        BY <3>1, <4>1 DEF ZombieChildren
      <4>3. status[t] = "running" \/ ~InTable(t)
        BY <4>2 DEF InTable
      <4> QED
        BY <3>1, <3>2, <3>4, <4>1, <4>3 DEF InTable
    <3> QED
      BY <3>3, <3>4
  <2> QED
    BY <2>1, <2>2
<1> QED
  BY <1>6, <1>7, <1>8, <1>9, <1>10 DEF Kind

(***************************************************************************)
(* A parent asleep in clone: the child that owes it the wake-up gives it,  *)
(* dies of a fault, or still owes it.                                      *)
(***************************************************************************)
LEMMA VforkKept ==
  ASSUME Shape, Shape', FamilyInv, VforkParentReleased, Kind
  PROVE  VforkParentReleased'
<1> DEFINE Owes(c, q) == vforkParent[c] = q /\ (status[c] = "running" \/ c \in crashed)
<1>0. /\ status \in [Pids -> {"none", "running", "zombie", "reaped"}]
      /\ vforkParent \in [Pids -> 0 .. MaxPid]
  BY DEF Shape
<1>1. SUFFICES ASSUME NEW q \in Pids, pc'[q] = "clone", ~ready'[q]
               PROVE  \E c \in Pids : Owes(c, q)'
  BY DEF VforkParentReleased, Asleep
<1>2. ASSUME NEW A, Stays(A), q \notin A PROVE \E c \in Pids : Owes(c, q)
  <2>1. Asleep(q, "clone")
    BY <1>1, <1>2 DEF Stays, Asleep
  <2> QED
    BY <2>1 DEF VforkParentReleased
<1>3. ASSUME NEW p \in Pids, NEW c \in Pids, Frees(p), Owes(c, q)
      PROVE  c # p /\ vforkParent'[c] = q
  <2>1. c # p
    BY <1>1, <1>3, PidNumbers DEF Frees
  <2> QED
    BY <1>0, <1>3, <2>1 DEF Frees
<1>4. ASSUME NEW A \in SUBSET Pids, Calm(A) PROVE \E c \in Pids : Owes(c, q)'
  <2>1. q \notin A /\ Stays(A)
    BY <1>1, <1>4 DEF Calm
  <2>2. PICK c \in Pids : Owes(c, q)
    BY <1>2, <2>1
  <2>3. vforkParent'[c] = q
    BY <1>3, <1>4, <2>2 DEF Calm
  <2>4. status[c] = "running" => status'[c] = "running"
    BY <1>4 DEF Calm, Reaped
  <2> QED
    BY <1>4, <2>2, <2>3, <2>4 DEF Calm
<1>5. ASSUME NEW p \in Pids, NEW t, Sleeps(p, t) PROVE \E c \in Pids : Owes(c, q)'
  <2>1. q \notin {p} /\ Stays({p}) /\ UNCHANGED <<status, crashed, vforkParent>>
    BY <1>1, <1>5 DEF Sleeps
  <2> QED
    BY <1>2, <2>1
<1>6. ASSUME NEW p \in Pids, NEW c, Forks(p, c) PROVE \E d \in Pids : Owes(d, q)'
  <2>1. /\ c \in Pids /\ status'[c] = "running" /\ vforkParent'[c] = p /\ q # c
        /\ \A d \in Pids \ {c} : status'[d] = status[d] /\ vforkParent'[d] = vforkParent[d]
    BY <1>0, <1>1, <1>6 DEF Forks
  <2>2. CASE q = p
    BY <2>1, <2>2
  <2>3. CASE q # p
    <3>1. PICK d \in Pids : Owes(d, q)
      BY <1>2, <1>6, <2>1, <2>3 DEF Forks
    <3>2. CASE d # c
      BY <1>6, <2>1, <3>1, <3>2 DEF Forks
    <3>3. d # c
      BY <1>6, <3>1, PidNumbers DEF Forks, FamilyInv
    <3> QED
      BY <3>2, <3>3
  <2> QED
    BY <2>2, <2>3
<1>7. ASSUME NEW c \in Pids, Born(c) PROVE \E d \in Pids : Owes(d, q)'
  <2>1. q \notin {c} /\ Stays({c}) /\ UNCHANGED <<crashed, vforkParent>>
    BY <1>1, <1>7 DEF Born
  <2>2. PICK d \in Pids : Owes(d, q)
    BY <1>2, <2>1
  <2>3. status[d] = "running" => status'[d] = "running"
    BY <1>7 DEF Born, Reaped
  <2> QED
    BY <2>1, <2>2, <2>3
<1>8. ASSUME NEW p \in Pids, Ends(p) PROVE \E c \in Pids : Owes(c, q)'
  <2>1. q # p /\ Stays({p}) /\ \A d \in Pids \ {p} : status'[d] = status[d]
    BY <1>0, <1>1, <1>8 DEF Ends
  <2>2. PICK c \in Pids : Owes(c, q)
    BY <1>2, <2>1
  <2>3. CASE Frees(p) /\ crashed' = crashed
    BY <1>3, <2>1, <2>2, <2>3
  <2>4. CASE vforkParent' = vforkParent /\ crashed' = crashed \cup {p}
    BY <2>1, <2>2, <2>4
  <2> QED
    BY <1>8, <2>3, <2>4 DEF Ends
<1> QED
  BY <1>4, <1>5, <1>6, <1>7, <1>8 DEF Kind

-----------------------------------------------------------------------------
(***************************************************************************)
(* The state at boot, with no process.                                     *)
(***************************************************************************)
LEMMA ProcessInitially ==
  ASSUME Init
  PROVE  ProcessInv
<1>1. NewSignalState \in SignalState
  BY DEF NewSignalState, SignalState, Dispositions, Signals
<1>2. Shape
  <2>1. 0 \in 0 .. MaxPid /\ <<>> \in Seq(SUBSET Signals) /\ "none" \in Places
    BY ProcessAssumption DEF Places
  <2> QED
    BY <1>1, <2>1 DEF Init, Shape, KERNEL
<1>3. \A p \in Pids : pc[p] = "none" /\ parent[p] = 0 /\ vforkParent[p] = 0
  BY DEF Init, KERNEL
<1>4. FamilyInv /\ WaiterNotStranded /\ VforkParentReleased
  BY <1>3 DEF FamilyInv, Alive, WaiterNotStranded, VforkParentReleased, Asleep
<1>5. FramesInv
  BY DEF Init, FramesInv
<1> QED
  BY <1>2, <1>4, <1>5 DEF ProcessInv

(***************************************************************************)
(* Every step keeps the invariant.                                         *)
(***************************************************************************)
LEMMA ProcessStep ==
  ASSUME ProcessInv, [Next]_vars
  PROVE  ProcessInv'
<1>1. CASE Next
  <2>1. Shape' /\ FramesInv' /\ Kind
    BY <1>1, ShapeKept, Kinds DEF ProcessInv
  <2> QED
    BY <2>1, FamilyKept, WaiterKept, VforkKept DEF ProcessInv
<1>2. CASE UNCHANGED vars
  <2>1. UNCHANGED <<status, parent, waitThread, signalThread, vforkParent, sig, pc, ready, target,
                    masks, depth, crashed, workload>>
    BY <1>2 DEF vars, procVars, threadVars
  <2>2. Shape' /\ FamilyInv' /\ FramesInv'
    BY <2>1 DEF ProcessInv, Shape, FamilyInv, FramesInv
  <2>3. WaiterNotStranded' /\ VforkParentReleased'
    BY <2>1 DEF ProcessInv, WaiterNotStranded, VforkParentReleased, Asleep, ZombieChildren, InTable
  <2> QED
    BY <2>2, <2>3 DEF ProcessInv
<1> QED
  BY <1>1, <1>2

(***************************************************************************)
(* ProcessInv holds in every state, whatever the processes call and        *)
(* however many there are.                                                 *)
(***************************************************************************)
THEOREM ProcessSafe == Spec => []ProcessInv
<1>1. Init => ProcessInv
  BY ProcessInitially
<1>2. ProcessInv /\ [Next]_vars => ProcessInv'
  BY ProcessStep
<1> QED
  BY <1>1, <1>2, PTL DEF Spec

(***************************************************************************)
(* sys_wait4 and the end of a child: a parent that sleeps has no zombie it *)
(* asked for, no SIGKILL waiting, and is registered for the child to come. *)
(***************************************************************************)
THEOREM WaitersWoken == Spec => []WaiterNotStranded
<1>1. ProcessInv => WaiterNotStranded
  BY DEF ProcessInv
<1> QED
  BY <1>1, ProcessSafe, PTL

(***************************************************************************)
(* sys_clone: the parent sleeps only while a child has still to release    *)
(* it, or because that child crashed.                                      *)
(***************************************************************************)
THEOREM VforkReleases == Spec => []VforkParentReleased
<1>1. ProcessInv => VforkParentReleased
  BY DEF ProcessInv
<1> QED
  BY <1>1, ProcessSafe, PTL

(***************************************************************************)
(* deliver_signal redirects the context of the process on whose stack it   *)
(* wrote the frame, and rt_sigreturn takes them off together.              *)
(***************************************************************************)
THEOREM HandlersRunInPlace == Spec => []HandlerRunsWhereSignalled
<1>1. ProcessInv => HandlerRunsWhereSignalled
  BY DEF ProcessInv, FramesInv, HandlerRunsWhereSignalled
<1> QED
  BY <1>1, ProcessSafe, PTL


-----------------------------------------------------------------------------
(***************************************************************************)
(* The pipe.  Its writer count is the number of descriptors for writing in *)
(* all tables together.                                                    *)
(***************************************************************************)
Slots == FdEntry \cup {NoEntry}

\* The three standard descriptors keep their slots, open or not.
Tables == {t \in Seq(Slots) : Len(t) \in 3 .. MAX_FDS}

WriteEnds(f) == {e \in Pids \X Nat : e[2] \in Opened(f[e[1]], "pipe_w")}

EndsElsewhere(f, p) == {e \in WriteEnds(f) : e[1] # p}

PipeTypes == [made : BOOLEAN, bytes : Nat, write_closed : BOOLEAN, writer_count : Nat,
              reader : 0 .. MaxPid]

PipeShape == fds \in [Pids -> Tables] /\ pipe \in PipeTypes

WritersInv ==
  /\ pipe.writer_count = Cardinality(WriteEnds(fds))
  /\ pipe.write_closed <=> (pipe.made /\ pipe.writer_count = 0)
  /\ ~pipe.made => pipe.writer_count = 0
  /\ \A p \in Pids : status[p] = "none" => Opened(fds[p], "pipe_w") = {}

ReaderInv ==
  /\ \A p, q \in Pids : pc[p] = "read" /\ pc[q] = "read" => p = q
  /\ \A p \in Pids : Asleep(p, "read") =>
       /\ pipe.bytes = 0 /\ ~pipe.write_closed /\ pipe.reader = p
       /\ signalThread[p] /\ SIGKILL \notin Deliverable(sig[p])

PipeInv == PipeShape /\ WritersInv /\ ReaderInv

(***************************************************************************)
(* The write ends of a table are finitely many.                            *)
(***************************************************************************)
LEMMA EndsOfTable ==
  ASSUME NEW t \in Tables
  PROVE  /\ t \in [1 .. Len(t) -> Slots] /\ DOMAIN t = 1 .. Len(t)
         /\ Len(t) \in Nat /\ Len(t) \in 3 .. MAX_FDS /\ t \in Seq(Slots)
         /\ Opened(t, "pipe_w") \in SUBSET Nat
         /\ IsFiniteSet(Opened(t, "pipe_w")) /\ Writers(t) \in Nat
         /\ Writers(t) = 0 <=> Opened(t, "pipe_w") = {}
<1>1. /\ t \in [1 .. Len(t) -> Slots] /\ DOMAIN t = 1 .. Len(t)
      /\ Len(t) \in Nat /\ Len(t) \in 3 .. MAX_FDS /\ t \in Seq(Slots)
  BY LenProperties, MaxFdsAssumption DEF Tables
<1>2. Opened(t, "pipe_w") \in SUBSET (1 .. Len(t))
  BY <1>1 DEF Opened
<1>3. IsFiniteSet(1 .. Len(t))
  BY <1>1, FS_Interval
<1>4. IsFiniteSet(Opened(t, "pipe_w"))
  BY <1>2, <1>3, FS_Subset
<1> QED
  BY <1>1, <1>2, <1>4, FS_CardinalityType, FS_EmptySet DEF Writers

(***************************************************************************)
(* Putting an entry into a slot, by alloc_fd, dup2, close or fcntl.        *)
(***************************************************************************)
LEMMA PutEntry ==
  ASSUME NEW t \in Tables, NEW i \in DOMAIN t, NEW e \in Slots
  PROVE  /\ [t EXCEPT ![i] = e] \in Tables
         /\ e.object = "pipe_w" =>
              Writers([t EXCEPT ![i] = e]) =
                 IF t[i].object = "pipe_w" THEN Writers(t) ELSE Writers(t) + 1
         /\ e.object # "pipe_w" =>
              Writers([t EXCEPT ![i] = e]) =
                 IF t[i].object = "pipe_w" THEN Writers(t) - 1 ELSE Writers(t)
<1> DEFINE u == [t EXCEPT ![i] = e]
           W == Opened(t, "pipe_w")
<1>1. t \in Seq(Slots) /\ i \in 1 .. Len(t) /\ Len(t) \in 3 .. MAX_FDS /\ IsFiniteSet(W)
  BY EndsOfTable
<1>2. u \in Seq(Slots) /\ Len(u) = Len(t)
  BY <1>1, ExceptSeq
<1>3. u \in Tables
  BY <1>1, <1>2 DEF Tables
<1>4. DOMAIN u = DOMAIN t /\ u[i] = e /\ \A j \in DOMAIN t \ {i} : u[j] = t[j]
  OBVIOUS
<1>5. i \in W <=> t[i].object = "pipe_w"
  BY DEF Opened
<1>6. e.object = "pipe_w" => Opened(u, "pipe_w") = W \cup {i}
  BY <1>4 DEF Opened
<1>7. e.object # "pipe_w" => Opened(u, "pipe_w") = W \ {i}
  BY <1>4 DEF Opened
<1> HIDE DEF u, W
<1>8. /\ Cardinality(W \cup {i}) = IF i \in W THEN Cardinality(W) ELSE Cardinality(W) + 1
      /\ Cardinality(W \ {i}) = IF i \in W THEN Cardinality(W) - 1 ELSE Cardinality(W)
  BY <1>1, FS_AddElement, FS_RemoveElement
<1>9. Writers(t) = Cardinality(W) /\ Writers(u) = Cardinality(Opened(u, "pipe_w"))
  BY DEF Writers, W
<1> QED
  BY <1>3, <1>5, <1>6, <1>7, <1>8, <1>9 DEF u

(***************************************************************************)
(* alloc_fd finds room for one more.                                       *)
(***************************************************************************)
LEMMA AllocEntry ==
  ASSUME NEW t \in Tables, CanAlloc(t), NEW object \in Objects, NEW cloexec \in BOOLEAN
  PROVE  /\ AllocFd(t, object, cloexec) \in Tables
         /\ Writers(AllocFd(t, object, cloexec)) =
              IF object = "pipe_w" THEN Writers(t) + 1 ELSE Writers(t)
<1> DEFINE e == Entry(object, cloexec)
           F == FreeSlots(t)
<1>1. e \in Slots /\ e.object = object
  BY DEF Entry, Slots, FdEntry
<1>2. CASE F # {}
  <2> DEFINE i == CHOOSE i \in F : \A j \in F : i <= j
  <2>1. F \subseteq Nat /\ F \subseteq DOMAIN t /\ \A j \in F : t[j] = NoEntry
    BY EndsOfTable DEF FreeSlots
  <2>2. i \in F
    <3> HIDE DEF F
    <3>1. Min(F) \in F /\ \A j \in F : Min(F) <= j
      BY <1>2, <2>1, MinInSet
    <3> QED
      BY <3>1
  <2>3. i \in DOMAIN t /\ t[i].object # "pipe_w"
    BY <2>1, <2>2 DEF NoEntry
  <2>4. AllocFd(t, object, cloexec) = [t EXCEPT ![i] = e]
    BY <1>2 DEF AllocFd
  <2> HIDE DEF i, e, F
  <2>5. /\ [t EXCEPT ![i] = e] \in Tables
        /\ e.object = "pipe_w" => Writers([t EXCEPT ![i] = e]) = Writers(t) + 1
        /\ e.object # "pipe_w" => Writers([t EXCEPT ![i] = e]) = Writers(t)
    BY <1>1, <2>3, PutEntry
  <2> QED
    BY <1>1, <2>4, <2>5
<1>3. CASE F = {}
  <2> DEFINE u == Append(t, e)
             n == Len(t) + 1
             W == Opened(t, "pipe_w")
  <2>1. AllocFd(t, object, cloexec) = u
    BY <1>3 DEF AllocFd
  <2>2. /\ t \in Seq(Slots) /\ Len(t) \in Nat /\ Len(t) \in 3 .. MAX_FDS /\ DOMAIN t = 1 .. Len(t)
        /\ IsFiniteSet(W)
    BY EndsOfTable
  <2> HIDE DEF e
  <2>3. /\ u \in Seq(Slots) /\ Len(u) = n /\ DOMAIN u = 1 .. n /\ u[n] = e
        /\ \A j \in 1 .. Len(t) : u[j] = t[j]
    BY <1>1, <2>2, AppendProperties, LenProperties
  <2>4. u \in Tables
    BY <1>3, <2>2, <2>3, MaxFdsAssumption DEF Tables, CanAlloc
  <2>5. n \notin W
    BY <2>2 DEF Opened
  <2>6. DOMAIN u = DOMAIN t \cup {n}
    BY <2>2, <2>3
  <2> HIDE DEF u, n
  <2>7. Opened(u, "pipe_w") = IF object = "pipe_w" THEN W \cup {n} ELSE W
    BY <1>1, <2>2, <2>3, <2>6 DEF Opened
  <2> HIDE DEF W
  <2>8. Cardinality(W \cup {n}) = Cardinality(W) + 1
    BY <2>2, <2>5, FS_AddElement
  <2>9. Writers(t) = Cardinality(W) /\ Writers(u) = Cardinality(Opened(u, "pipe_w"))
    BY DEF Writers, W
  <2> QED
    BY <2>1, <2>4, <2>7, <2>8, <2>9
<1> QED
  BY <1>2, <1>3

(***************************************************************************)
(* Exit closes every descriptor, execve the ones marked close-on-exec.     *)
(***************************************************************************)
LEMMA CloseMany ==
  ASSUME NEW t \in Tables
  PROVE  /\ CloseAllFds(t) \in Tables /\ Writers(CloseAllFds(t)) = 0
         /\ CloseCloexecFds(t) \in Tables /\ Writers(CloseCloexecFds(t)) <= Writers(t)
<1>1. /\ t \in [1 .. Len(t) -> Slots] /\ DOMAIN t = 1 .. Len(t)
      /\ Len(t) \in Nat /\ Len(t) \in 3 .. MAX_FDS /\ IsFiniteSet(Opened(t, "pipe_w"))
  BY EndsOfTable
<1>2. NoEntry \in Slots /\ NoEntry.object # "pipe_w"
  BY DEF Slots, NoEntry
<1>3. ASSUME NEW u \in [1 .. Len(t) -> Slots] PROVE u \in Tables
  BY <1>1 DEF Tables
<1>4. CloseAllFds(t) \in Tables /\ CloseCloexecFds(t) \in Tables
  <2>1. CloseAllFds(t) \in [1 .. Len(t) -> Slots]
    BY <1>1, <1>2 DEF CloseAllFds
  <2>2. CloseCloexecFds(t) \in [1 .. Len(t) -> Slots]
    BY <1>1, <1>2 DEF CloseCloexecFds
  <2> QED
    BY <1>3, <2>1, <2>2
<1>5. Opened(CloseAllFds(t), "pipe_w") = {}
  BY <1>2 DEF Opened, CloseAllFds
<1>6. Opened(CloseCloexecFds(t), "pipe_w") \in SUBSET Opened(t, "pipe_w")
  BY <1>2 DEF Opened, CloseCloexecFds
<1> QED
  BY <1>1, <1>4, <1>5, <1>6, FS_EmptySet, FS_Subset DEF Writers

(***************************************************************************)
(* The write ends of all tables, counted by process.                       *)
(***************************************************************************)
LEMMA CountByProcess ==
  ASSUME NEW f \in [Pids -> Tables], NEW p \in Pids
  PROVE  /\ IsFiniteSet(WriteEnds(f)) /\ Cardinality(EndsElsewhere(f, p)) \in Nat
         /\ Cardinality(WriteEnds(f)) = Cardinality(EndsElsewhere(f, p)) + Writers(f[p])
<1> DEFINE M == WriteEnds(f)
           A == Opened(f[p], "pipe_w")
           E == EndsElsewhere(f, p)
           B == {p} \X A
           N == 1 .. MAX_FDS
<1>1. f[p] \in Tables /\ IsFiniteSet(A) /\ A \in SUBSET Nat
  BY EndsOfTable
<1>2. IsFiniteSet(M) /\ IsFiniteSet(E)
  <2>1. IsFiniteSet(Pids) /\ IsFiniteSet(N)
    BY ProcessAssumption, MaxFdsAssumption, FS_Interval DEF Pids
  <2>2. IsFiniteSet(Pids \X N)
    BY <2>1, FS_Product
  <2>3. ASSUME NEW x \in M PROVE x \in Pids \X N
    <3>1. x \in Pids \X Nat /\ x[2] \in Opened(f[x[1]], "pipe_w") /\ f[x[1]] \in Tables
      BY <2>3 DEF WriteEnds
    <3>2. /\ DOMAIN f[x[1]] = 1 .. Len(f[x[1]]) /\ Len(f[x[1]]) \in 3 .. MAX_FDS
          /\ Len(f[x[1]]) \in Nat
      BY <3>1, EndsOfTable
    <3>3. x[2] \in N
      BY <3>1, <3>2, MaxFdsAssumption DEF Opened
    <3> QED
      BY <3>1, <3>3
  <2>4. M \in SUBSET (Pids \X N) /\ E \in SUBSET (Pids \X N)
    BY <2>3 DEF EndsElsewhere
  <2> HIDE DEF M, E, N
  <2> QED
    BY <2>2, <2>4, FS_Subset
<1>3. M = E \cup B
  <2>1. ASSUME NEW x \in M PROVE x \in E \cup B
    <3>1. x \in Pids \X Nat /\ x[2] \in Opened(f[x[1]], "pipe_w")
      BY <2>1 DEF WriteEnds
    <3>2. CASE x[1] = p
      BY <3>1, <3>2
    <3>3. CASE x[1] # p
      BY <2>1, <3>3 DEF EndsElsewhere
    <3> QED
      BY <3>2, <3>3
  <2>2. ASSUME NEW x \in E PROVE x \in M
    BY <2>2 DEF EndsElsewhere
  <2>3. ASSUME NEW x \in B PROVE x \in M
    BY <1>1, <2>3 DEF WriteEnds
  <2> QED
    BY <2>1, <2>2, <2>3
<1>4. E \cap B = {}
  BY DEF EndsElsewhere
<1>5. IsFiniteSet(B) /\ Cardinality(B) = Cardinality(A)
  <2> HIDE DEF A
  <2>1. IsFiniteSet({p}) /\ Cardinality({p}) = 1
    BY FS_Singleton
  <2>2. IsFiniteSet(B) /\ Cardinality(B) = Cardinality({p}) * Cardinality(A)
    BY <1>1, <2>1, FS_Product
  <2>3. Cardinality(A) \in Nat
    BY <1>1, FS_CardinalityType
  <2> QED
    BY <2>1, <2>2, <2>3
<1> HIDE DEF M, A, E, B
<1>6. Cardinality(E) \in Nat /\ Cardinality(B) \in Nat
  BY <1>2, <1>5, FS_CardinalityType
<1>7. Cardinality(E \cup B) = Cardinality(E) + Cardinality(B) - Cardinality(E \cap B)
  BY <1>2, <1>5, FS_Union
<1>8. Cardinality(E \cap B) = 0
  BY <1>4, FS_EmptySet
<1>9. Cardinality(M) = Cardinality(E) + Cardinality(A)
  BY <1>3, <1>5, <1>6, <1>7, <1>8
<1> QED
  BY <1>2, <1>6, <1>9 DEF M, A, E, Writers

(***************************************************************************)
(* What a new table for one process does to the count.                     *)
(***************************************************************************)
LEMMA Recount ==
  ASSUME NEW f \in [Pids -> Tables], NEW g \in [Pids -> Tables], NEW p \in Pids,
         \A q \in Pids \ {p} : g[q] = f[q]
  PROVE  /\ Cardinality(WriteEnds(f)) \in Nat /\ Cardinality(WriteEnds(g)) \in Nat
         /\ Writers(f[p]) \in Nat /\ Writers(g[p]) \in Nat
         /\ Writers(f[p]) <= Cardinality(WriteEnds(f))
         /\ Cardinality(WriteEnds(g)) + Writers(f[p]) = Cardinality(WriteEnds(f)) + Writers(g[p])
<1>1. Writers(f[p]) \in Nat /\ Writers(g[p]) \in Nat
  BY EndsOfTable
<1>2. EndsElsewhere(g, p) = EndsElsewhere(f, p)
  BY DEF EndsElsewhere, WriteEnds
<1>3. /\ Cardinality(EndsElsewhere(f, p)) \in Nat
      /\ Cardinality(WriteEnds(f)) = Cardinality(EndsElsewhere(f, p)) + Writers(f[p])
      /\ Cardinality(WriteEnds(g)) = Cardinality(EndsElsewhere(g, p)) + Writers(g[p])
  BY CountByProcess
<1> QED
  BY <1>1, <1>2, <1>3

(***************************************************************************)
(* The kinds of steps, as the pipe sees them.                              *)
(***************************************************************************)
NewTable(p, t) ==
  p \in Pids /\ t \in Tables /\ status'[p] # "none" /\ fds' = [fds EXCEPT ![p] = t]

\* Some process gets n more write ends of a pipe that has one.
Opens(p, t, n) ==
  /\ NewTable(p, t) /\ Writers(t) = Writers(fds[p]) + n
  /\ pipe' = DuppedWriters(n)
  /\ n > 0 => \E q \in Pids : Writers(fds[q]) > 0

Creates(p, t) ==
  /\ NewTable(p, t) /\ Writers(t) = Writers(fds[p]) + 1
  /\ ~pipe.made /\ pipe' = [pipe EXCEPT !.made = TRUE, !.writer_count = 1]

Closes(p, t, n) ==
  /\ NewTable(p, t) /\ Writers(t) = Writers(fds[p]) - n
  /\ pipe' = ClosedWriters(n) /\ \A q \in WokenByClose(n) : ready'[q]

Writes ==
  /\ UNCHANGED fds /\ pipe' = [pipe EXCEPT !.bytes = @ + 1, !.reader = 0]
  /\ pipe.reader # 0 => ready'[pipe.reader]

PipeMove ==
  \/ UNCHANGED <<fds, pipe>> \/ Writes
  \/ \E p \in Pids : Reads(p)
  \/ \E p \in Pids, t \in Tables : Creates(p, t) \/ \E n \in Nat : Opens(p, t, n) \/ Closes(p, t, n)

(***************************************************************************)
(* exit and the signals that end a process close all its write ends.       *)
(***************************************************************************)
LEMMA TerminateCloses ==
  ASSUME Shape, PipeShape, NEW p \in Pids, Terminate(p)
  PROVE  PipeMove
<1> DEFINE t == CloseAllFds(fds[p])
           n == Writers(fds[p])
<1>1. fds[p] \in Tables /\ fds \in [Pids -> Tables]
  BY DEF PipeShape
<1>2. t \in Tables /\ Writers(t) = 0 /\ n \in Nat
  BY <1>1, CloseMany, EndsOfTable
<1>3. /\ status' = [status EXCEPT ![p] = "zombie"] /\ fds' = [fds EXCEPT ![p] = t]
      /\ pipe' = ClosedWriters(n)
      /\ \E S, T : ready' = Unblocked(S \cup WokenByClose(n) \cup T)
  BY DEF Terminate
<1>4. status'[p] # "none"
  BY <1>3 DEF Shape
<1>5. \A q \in WokenByClose(n) : ready'[q]
  <2>1. WokenByClose(n) \subseteq Pids
    BY ProcessAssumption DEF WokenByClose, Slot, PipeShape, PipeTypes, Pids
  <2> QED
    BY <1>3, <2>1, UnblockedThreads
<1>6. Writers(t) = n - n
  BY <1>2
<1> HIDE DEF t, n
<1>7. NewTable(p, t)
  BY <1>2, <1>3, <1>4 DEF NewTable
<1>8. Closes(p, t, n)
  BY <1>3, <1>5, <1>6, <1>7 DEF Closes, n
<1> QED
  BY <1>2, <1>8 DEF PipeMove

(***************************************************************************)
(* So does execve for the ones that are close-on-exec.                     *)
(***************************************************************************)
LEMMA ExecveCloses ==
  ASSUME Shape, FamilyInv, PipeShape, NEW p \in Pids, ExecveSucceeds(p)
  PROVE  PipeMove
<1> DEFINE t == CloseCloexecFds(fds[p])
           n == Writers(fds[p]) - Writers(t)
<1>1. fds[p] \in Tables /\ fds \in [Pids -> Tables]
  BY DEF PipeShape
<1>2. t \in Tables /\ Writers(t) <= Writers(fds[p])
      /\ Writers(t) \in Nat /\ Writers(fds[p]) \in Nat
  BY <1>1, CloseMany, EndsOfTable
<1>3. /\ status' = status /\ pc[p] = "vfs" /\ fds' = [fds EXCEPT ![p] = t]
      /\ pipe' = ClosedWriters(n)
      /\ \E T : ready' = Unblocked(WokenByClose(n) \cup T)
  BY DEF ExecveSucceeds, Resumes
<1>4. status'[p] # "none"
  BY <1>3 DEF FamilyInv, Alive
<1>5. \A q \in WokenByClose(n) : ready'[q]
  <2> HIDE DEF n
  <2>1. WokenByClose(n) \subseteq Pids
    BY ProcessAssumption DEF WokenByClose, Slot, PipeShape, PipeTypes, Pids
  <2> QED
    BY <1>3, <2>1, UnblockedThreads
<1>6. Writers(t) = Writers(fds[p]) - n /\ n \in Nat
  BY <1>2
<1> HIDE DEF t, n
<1>7. NewTable(p, t)
  BY <1>2, <1>3, <1>4 DEF NewTable
<1>8. Closes(p, t, n)
  BY <1>3, <1>5, <1>6, <1>7 DEF Closes
<1> QED
  BY <1>2, <1>6, <1>8 DEF PipeMove

(***************************************************************************)
(* clone counts every write end of the parent once more.                   *)
(***************************************************************************)
LEMMA CloneOpens ==
  ASSUME Shape, PipeShape, WritersInv, NEW p \in Pids, Clone(p)
  PROVE  PipeMove
<1> DEFINE c == NextPid
           t == fds[p]
           n == Writers(fds[p])
<1>1. t \in Tables /\ fds \in [Pids -> Tables] /\ n \in Nat
  BY EndsOfTable DEF PipeShape
<1>2. /\ c \in Pids /\ status[c] = "none" /\ status' = [status EXCEPT ![c] = "running"]
      /\ fds' = [fds EXCEPT ![c] = t] /\ pipe' = DuppedWriters(n)
  BY NewPid DEF Clone, Enters
<1> HIDE DEF c
<1>3. fds[c] \in Tables /\ Opened(fds[c], "pipe_w") = {}
  BY <1>1, <1>2 DEF WritersInv
<1>4. Writers(fds[c]) = 0
  BY <1>3, EndsOfTable
<1>5. status'[c] # "none"
  BY <1>2 DEF Shape
<1>6. Writers(t) = Writers(fds[c]) + n
  BY <1>1, <1>4
<1> HIDE DEF t
<1>7. NewTable(c, t)
  BY <1>1, <1>2, <1>5 DEF NewTable
<1>8. n > 0 => \E q \in Pids : Writers(fds[q]) > 0
  OBVIOUS
<1> HIDE DEF n
<1>9. Opens(c, t, n)
  BY <1>2, <1>6, <1>7, <1>8 DEF Opens
<1> QED
  BY <1>1, <1>2, <1>9 DEF PipeMove

(***************************************************************************)
(* The system calls on descriptors.                                        *)
(***************************************************************************)
LEMMA DescriptorMoves ==
  ASSUME Shape, FamilyInv, PipeShape, NEW p \in Pids,
         Pipe2(p) \/ Close(p) \/ Dup2(p) \/ SetCloexec(p)
  PROVE  PipeMove
<1> DEFINE f == fds[p]
           w == Writers(f)
<1>1. f \in Tables /\ fds \in [Pids -> Tables] /\ w \in Nat /\ DOMAIN f = 1 .. Len(f)
      /\ Len(f) \in 3 .. MAX_FDS
  BY EndsOfTable DEF PipeShape
<1>2. status'[p] # "none"
  <2>1. status' = status /\ status[p] = "running"
    BY DEF Pipe2, Close, Dup2, SetCloexec, Enters, FdUnchanged
  <2> QED
    BY <2>1
<1>3. ASSUME NEW t \in Tables, fds' = [fds EXCEPT ![p] = t] PROVE NewTable(p, t)
  BY <1>2, <1>3 DEF NewTable
<1>4. /\ \A o \in Objects, b \in BOOLEAN : Entry(o, b) \in Slots /\ Entry(o, b).object = o
      /\ NoEntry \in Slots /\ NoEntry.object # "pipe_w"
  BY DEF Entry, Slots, FdEntry, NoEntry
<1>5. CASE Pipe2(p)
  <2>1. CASE UNCHANGED <<fds, pipe>>
    BY <2>1 DEF PipeMove
  <2>2. CASE ~UNCHANGED <<fds, pipe>>
    <3>1. PICK b \in BOOLEAN :
             LET one == AllocFd(f, "pipe_r", b)
                 two == AllocFd(one, "pipe_w", b)
             IN  /\ CanAlloc(f) /\ CanAlloc(one) /\ fds' = [fds EXCEPT ![p] = two]
                 /\ pipe' = [pipe EXCEPT !.made = TRUE, !.writer_count = 1]
      BY <1>5, <2>2 DEF Pipe2
    <3> DEFINE one == AllocFd(f, "pipe_r", b)
               two == AllocFd(one, "pipe_w", b)
    <3>2. "pipe_r" \in Objects /\ "pipe_w" \in Objects /\ "pipe_r" # "pipe_w"
      BY DEF Objects
    <3>3. CanAlloc(f) /\ CanAlloc(one) /\ fds' = [fds EXCEPT ![p] = two]
      BY <3>1
    <3> HIDE DEF f
    <3>4. one \in Tables /\ Writers(one) = w
      BY <1>1, <3>2, <3>3, AllocEntry
    <3> HIDE DEF one
    <3>5. two \in Tables /\ Writers(two) = Writers(one) + 1
      BY <3>2, <3>3, <3>4, AllocEntry
    <3> HIDE DEF two
    <3>6. ~pipe.made /\ pipe' = [pipe EXCEPT !.made = TRUE, !.writer_count = 1]
      BY <1>5, <3>1 DEF Pipe2
    <3>7. Creates(p, two)
      BY <1>3, <3>3, <3>4, <3>5, <3>6 DEF Creates, f
    <3> QED
      BY <3>5, <3>7 DEF PipeMove
  <2> QED
    BY <2>1, <2>2
<1>6. CASE Close(p)
  <2>1. PICK i \in DOMAIN f :
           LET n == IF f[i].object = "pipe_w" THEN 1 ELSE 0 IN
           /\ fds' = [fds EXCEPT ![p] = CloseFd(f, i)] /\ pipe' = ClosedWriters(n)
           /\ ready' = Unblocked(WokenByClose(n))
    BY <1>1, <1>6 DEF Close, Opened
  <2> DEFINE n == IF f[i].object = "pipe_w" THEN 1 ELSE 0
             t == CloseFd(f, i)
  <2>2. /\ fds' = [fds EXCEPT ![p] = t] /\ pipe' = ClosedWriters(n)
        /\ ready' = Unblocked(WokenByClose(n))
    BY <2>1
  <2>3. t \in Tables /\ Writers(t) = IF f[i].object = "pipe_w" THEN w - 1 ELSE w
    <3> HIDE DEF f
    <3> QED
      BY <1>1, <1>4, PutEntry DEF CloseFd
  <2>4. n \in Nat /\ Writers(t) = w - n
    BY <1>1, <2>3
  <2> HIDE DEF n, t
  <2>5. \A q \in WokenByClose(n) : ready'[q]
    <3>1. WokenByClose(n) \subseteq Pids
      BY ProcessAssumption DEF WokenByClose, Slot, PipeShape, PipeTypes, Pids
    <3> QED
      BY <2>2, <3>1, UnblockedThreads
  <2>6. Closes(p, t, n)
    BY <1>3, <2>2, <2>3, <2>4, <2>5 DEF Closes
  <2> QED
    BY <2>3, <2>4, <2>6 DEF PipeMove
<1>7. CASE Dup2(p)
  <2>1. CASE UNCHANGED <<fds, pipe>>
    BY <2>1 DEF PipeMove
  <2>2. CASE ~UNCHANGED <<fds, pipe>>
    <3>1. PICK old \in Opened(f, "pipe_w"), new \in {1, 2} \cup Opened(f, "pipe_w") :
             LET n == IF f[new].object = "pipe_w" THEN 1 ELSE 0 IN
             /\ fds' = [fds EXCEPT ![p] = SetFd(f, new, Entry("pipe_w", FALSE))]
             /\ pipe' = [DuppedWriters(1) EXCEPT !.writer_count = @ - n]
      BY <1>1, <1>7, <2>2 DEF Dup2
    <3> DEFINE e == Entry("pipe_w", FALSE)
               t == [f EXCEPT ![new] = e]
               n == IF f[new].object = "pipe_w" THEN 0 ELSE 1
    <3>2. new \in DOMAIN f
      BY <1>1, <3>1 DEF Opened
    <3>3. SetFd(f, new, e) = t
      <4>1. ~(new > Len(f)) /\ Len(f) \in Nat
        BY <1>1, <3>2, MaxFdsAssumption
      <4>2. SetFd(f, new, e) =
              [j \in DOMAIN f |-> IF j = new THEN e ELSE IF j \in DOMAIN f THEN f[j] ELSE NoEntry]
        BY <1>1, <4>1 DEF SetFd
      <4> HIDE DEF f, e
      <4> QED
        BY <1>1, <4>2, EndsOfTable
    <3>4. e \in Slots /\ e.object = "pipe_w"
      BY <1>4 DEF Objects
    <3>5. fds' = [fds EXCEPT ![p] = t]
      BY <3>1, <3>3
    <3>6. pipe' = DuppedWriters(n)
      <4>1. pipe \in PipeTypes /\ pipe.writer_count \in Nat
        BY DEF PipeShape, PipeTypes
      <4>2. DuppedWriters(1) = [pipe EXCEPT !.writer_count = pipe.writer_count + 1]
        BY DEF DuppedWriters
      <4>3. ASSUME NEW k \in {0, 1}
            PROVE  [DuppedWriters(1) EXCEPT !.writer_count = @ - k] =
                   [pipe EXCEPT !.writer_count = pipe.writer_count + (1 - k)]
        <5>1. DuppedWriters(1).writer_count = pipe.writer_count + 1
          BY <4>1, <4>2 DEF PipeTypes
        <5>2. (pipe.writer_count + 1) - k = pipe.writer_count + (1 - k)
          BY <4>1
        <5> QED
          BY <4>1, <4>2, <5>1, <5>2 DEF PipeTypes
      <4>4. n = 1 - (IF f[new].object = "pipe_w" THEN 1 ELSE 0)
        OBVIOUS
      <4> QED
        BY <3>1, <4>3, <4>4 DEF DuppedWriters
    <3> HIDE DEF e, f
    <3>7. t \in Tables /\ Writers(t) = IF f[new].object = "pipe_w" THEN w ELSE w + 1
      BY <1>1, <3>2, <3>4, PutEntry
    <3>8. n \in Nat /\ Writers(t) = w + n
      BY <1>1, <3>7
    <3>9. w > 0
      BY <1>1, <3>1, EndsOfTable
    <3> HIDE DEF t, n
    <3>10. Opens(p, t, n)
      BY <1>3, <3>5, <3>6, <3>7, <3>8, <3>9 DEF Opens, f
    <3> QED
      BY <3>7, <3>8, <3>10 DEF PipeMove
  <2> QED
    BY <2>1, <2>2
<1>8. CASE SetCloexec(p)
  <2>1. PICK i \in Opened(f, "pipe_w"), b \in BOOLEAN :
           fds' = [fds EXCEPT ![p] = [f EXCEPT ![i].cloexec = b]] /\ UNCHANGED pipe
    BY <1>1, <1>8 DEF SetCloexec
  <2> DEFINE e == Entry("pipe_w", b)
             t == [f EXCEPT ![i] = e]
  <2>2. i \in DOMAIN f /\ f[i].object = "pipe_w" /\ f[i] \in Slots
    BY <1>1, <2>1, EndsOfTable DEF Opened
  <2>3. [f EXCEPT ![i].cloexec = b] = t
    <3>1. [f[i] EXCEPT !.cloexec = b] = e
      BY <2>2 DEF Slots, FdEntry, NoEntry, Entry
    <3> QED
      BY <3>1
  <2>4. e \in Slots /\ e.object = "pipe_w"
    BY <1>4 DEF Objects
  <2>5. fds' = [fds EXCEPT ![p] = t] /\ pipe' = DuppedWriters(0)
    <3>1. pipe \in PipeTypes /\ pipe.writer_count + 0 = pipe.writer_count
      BY DEF PipeShape, PipeTypes
    <3>2. [pipe EXCEPT !.writer_count = pipe.writer_count] = pipe
      BY <3>1 DEF PipeTypes
    <3> QED
      BY <2>1, <2>3, <3>1, <3>2 DEF DuppedWriters
  <2> HIDE DEF e, f
  <2>6. t \in Tables /\ Writers(t) = w
    BY <1>1, <2>2, <2>4, PutEntry
  <2>7. Writers(t) = w + 0 /\ ~(0 > 0)
    BY <1>1, <2>6
  <2> HIDE DEF t
  <2>8. Opens(p, t, 0)
    BY <1>3, <2>5, <2>6, <2>7 DEF Opens, f
  <2> QED
    BY <2>6, <2>8 DEF PipeMove
<1> QED
  BY <1>5, <1>6, <1>7, <1>8

(***************************************************************************)
(* Every step of the specification is of one of these kinds.               *)
(***************************************************************************)
LEMMA PipeMoves ==
  ASSUME Shape, FamilyInv, PipeShape, WritersInv, Next
  PROVE  PipeMove
<1>1. ASSUME UNCHANGED <<fds, pipe>> PROVE PipeMove
  BY <1>1 DEF PipeMove
<1>2. CASE Spawn \/ LaunchService \/ Key \/ Handled
  BY <1>1, <1>2 DEF Spawn, LaunchService, SpawnProcess, Key, Handled, PushInput, CtrlC,
     WakeBlockedReader, ConsoleUnchanged, procVars
<1>3. ASSUME NEW p \in Pids,
             \/ Execve(p) \/ Wait4(p) \/ Sigreturn(p) \/ Sigaction(p) \/ Sigprocmask(p)
             \/ Kill(p) \/ ConsoleRead(p)
      PROVE  PipeMove
  BY <1>1, <1>3 DEF Execve, Wait4, Wait4Unchanged, Sigreturn, Sigaction, Sigprocmask, SignalCall,
     Kill, ConsoleRead, ConsoleUnchanged, procVars
<1>4. ASSUME NEW p \in Pids,
             \/ CloneReturns(p) \/ FileRead(p) \/ ExecveFails(p) \/ Dies(p) \/ Wait4Again(p)
             \/ Return(p) \/ YieldReturns(p) \/ ConsoleReadAgain(p)
      PROVE  PipeMove
  BY <1>1, <1>4 DEF CloneReturns, FileRead, ExecveFails, Dies, Wait4Again, Wait4Unchanged,
     Return, CheckPendingSignals, YieldReturns, ConsoleReadAgain, ConsoleUnchanged, procVars
<1>5. ASSUME NEW p \in Pids, Fault(p) \/ WaitAndReap(p) PROVE PipeMove
  BY <1>1, <1>5 DEF Fault, KillUserProcess, WaitAndReap
<1>6. ASSUME NEW p \in Pids, Exit(p) \/ ReturnTerminates(p) PROVE PipeMove
  BY <1>6, TerminateCloses DEF Exit, ReturnTerminates
<1>7. ASSUME NEW p \in Pids, Write(p) PROVE PipeMove
  <2>1. pipe.reader # 0 => pipe.reader \in Pids /\ Slot(pipe.reader) = {pipe.reader}
    BY ProcessAssumption DEF PipeShape, PipeTypes, Pids, Slot
  <2>2. Writes
    BY <1>7, <2>1, UnblockedThreads DEF Write, Writes
  <2> QED
    BY <2>2 DEF PipeMove
<1>8. ASSUME NEW p \in Pids, Reads(p) PROVE PipeMove
  BY <1>8 DEF PipeMove
<1> QED
  BY <1>2, <1>3, <1>4, <1>5, <1>6, <1>7, <1>8, CloneOpens, ExecveCloses, DescriptorMoves
     DEF Next, SystemCall, Proceed, Reads

-----------------------------------------------------------------------------
(***************************************************************************)
(* Every step keeps the writer count exact, and end of file where it       *)
(* belongs.                                                                *)
(***************************************************************************)
LEMMA WritersKept ==
  ASSUME Shape, PipeShape, WritersInv, PipeMove, Next,
         \A q \in Pids : status'[q] = "none" => status[q] = "none"
  PROVE  PipeShape' /\ WritersInv'
<1> DEFINE N == Cardinality(WriteEnds(fds))
<1>0. /\ fds \in [Pids -> Tables] /\ pipe \in PipeTypes /\ pipe.writer_count = N
      /\ pipe.write_closed <=> (pipe.made /\ pipe.writer_count = 0)
      /\ ~pipe.made => pipe.writer_count = 0
      /\ \A q \in Pids : status[q] = "none" => Opened(fds[q], "pipe_w") = {}
  BY DEF PipeShape, WritersInv
<1>1. pipe.writer_count \in Nat /\ pipe.bytes \in Nat /\ pipe.reader \in 0 .. MaxPid
      /\ 0 \in 0 .. MaxPid
  BY <1>0, ProcessAssumption DEF PipeTypes
\* A step that leaves the tables alone.
<1>2. ASSUME UNCHANGED fds, NEW b \in Nat, NEW r \in 0 .. MaxPid,
             pipe' = [pipe EXCEPT !.bytes = b, !.reader = r]
      PROVE  PipeShape' /\ WritersInv'
  <2>1. /\ pipe' \in PipeTypes /\ pipe'.writer_count = pipe.writer_count
        /\ pipe'.made = pipe.made /\ pipe'.write_closed = pipe.write_closed
    BY <1>0, <1>2 DEF PipeTypes
  <2> QED
    BY <1>0, <1>2, <2>1 DEF PipeShape, WritersInv
<1>3. pipe = [pipe EXCEPT !.bytes = pipe.bytes, !.reader = pipe.reader]
  BY <1>0 DEF PipeTypes
<1>4. CASE UNCHANGED <<fds, pipe>>
  BY <1>1, <1>2, <1>3, <1>4
<1>5. CASE Writes
  <2>1. pipe' = [pipe EXCEPT !.bytes = pipe.bytes + 1, !.reader = 0] /\ UNCHANGED fds
        /\ pipe.bytes + 1 \in Nat
    BY <1>1, <1>5 DEF Writes
  <2> QED
    BY <1>1, <1>2, <2>1
<1>6. ASSUME NEW p \in Pids, Reads(p) PROVE PipeShape' /\ WritersInv'
  <2>1. ReadTurn(p) /\ UNCHANGED fds /\ p \in 0 .. MaxPid
    BY <1>6 DEF Reads, Read, ReadAgain, Pids
  <2>2. CASE pipe.bytes > 0 /\ pipe' = [pipe EXCEPT !.bytes = pipe.bytes - 1]
    <3>1. pipe.bytes - 1 \in Nat
      BY <1>1, <2>2
    <3>2. pipe' = [pipe EXCEPT !.bytes = pipe.bytes - 1, !.reader = pipe.reader]
      BY <1>0, <2>2 DEF PipeTypes
    <3> QED
      BY <1>1, <1>2, <2>1, <3>1, <3>2
  <2>3. CASE pipe' = pipe
    BY <1>1, <1>2, <1>3, <2>1, <2>3
  <2>4. CASE pipe' = [pipe EXCEPT !.reader = p]
    <3>1. pipe' = [pipe EXCEPT !.bytes = pipe.bytes, !.reader = p]
      BY <1>0, <2>4 DEF PipeTypes
    <3> QED
      BY <1>1, <1>2, <2>1, <3>1
  <2> QED
    BY <2>1, <2>2, <2>3, <2>4 DEF ReadTurn
<1>7. ASSUME NEW p \in Pids, NEW t \in Tables
      PROVE  /\ N \in Nat /\ Writers(fds[p]) \in Nat /\ Writers(t) \in Nat
             /\ Writers(fds[p]) <= N
  BY <1>0, Recount, EndsOfTable
\* A step that gives one process a new table.
<1>8. ASSUME NEW p, NEW t, NewTable(p, t), NEW w \in Nat,
             w + Writers(fds[p]) = N + Writers(t),
             pipe' \in PipeTypes, pipe'.writer_count = w,
             pipe'.write_closed <=> (pipe'.made /\ w = 0), ~pipe'.made => w = 0
      PROVE  PipeShape' /\ WritersInv'
  <2>1. /\ p \in Pids /\ t \in Tables /\ status'[p] # "none"
        /\ fds' \in [Pids -> Tables] /\ fds'[p] = t /\ \A q \in Pids \ {p} : fds'[q] = fds[q]
    BY <1>0, <1>8 DEF NewTable
  <2>2. /\ N \in Nat /\ Writers(fds[p]) \in Nat /\ Writers(t) \in Nat
        /\ Cardinality(WriteEnds(fds')) \in Nat
        /\ Cardinality(WriteEnds(fds')) + Writers(fds[p]) = N + Writers(t)
    BY <1>0, <2>1, Recount
  <2>3. Cardinality(WriteEnds(fds')) = w
    BY <1>8, <2>2
  <2>4. \A q \in Pids : status'[q] = "none" => Opened(fds'[q], "pipe_w") = {}
    BY <1>0, <2>1
  <2>5. WriteEnds(fds)' = WriteEnds(fds')
    BY DEF WriteEnds
  <2>6. WritersInv'
    BY <1>8, <2>3, <2>4, <2>5 DEF WritersInv
  <2> QED
    BY <1>8, <2>1, <2>6 DEF PipeShape
<1>9. ASSUME NEW p \in Pids, NEW t \in Tables, Creates(p, t)
      PROVE  PipeShape' /\ WritersInv'
  <2>1. /\ NewTable(p, t) /\ Writers(t) = Writers(fds[p]) + 1
        /\ ~pipe.made /\ pipe' = [pipe EXCEPT !.made = TRUE, !.writer_count = 1]
    BY <1>9 DEF Creates
  <2>2. /\ pipe' \in PipeTypes /\ pipe'.writer_count = 1 /\ pipe'.made
        /\ pipe'.write_closed = pipe.write_closed
    BY <1>0, <2>1 DEF PipeTypes
  <2>3. N = 0 /\ ~pipe.write_closed
    BY <1>0, <2>1
  <2>4. 1 + Writers(fds[p]) = N + Writers(t)
    BY <1>7, <2>1, <2>3
  <2> HIDE DEF N
  <2> QED
    BY <1>8, <2>1, <2>2, <2>3, <2>4
<1>10. ASSUME NEW p \in Pids, NEW t \in Tables, NEW n \in Nat, Opens(p, t, n)
       PROVE  PipeShape' /\ WritersInv'
  <2>1. /\ NewTable(p, t) /\ Writers(t) = Writers(fds[p]) + n
        /\ pipe' = [pipe EXCEPT !.writer_count = pipe.writer_count + n]
        /\ n > 0 => \E q \in Pids : Writers(fds[q]) > 0
    BY <1>10 DEF Opens, DuppedWriters
  <2>2. /\ pipe' \in PipeTypes /\ pipe'.writer_count = N + n /\ pipe'.made = pipe.made
        /\ pipe'.write_closed = pipe.write_closed /\ N + n \in Nat
    BY <1>0, <1>1, <2>1 DEF PipeTypes
  <2>3. n > 0 => N > 0
    BY <1>7, <2>1
  <2>4. (N + n) + Writers(fds[p]) = N + Writers(t)
    BY <1>7, <2>1
  <2>5. N + n = 0 <=> N = 0
    BY <1>7, <2>3
  <2> HIDE DEF N
  <2> QED
    BY <1>0, <1>8, <2>1, <2>2, <2>4, <2>5
<1>11. ASSUME NEW p \in Pids, NEW t \in Tables, NEW n \in Nat, Closes(p, t, n)
       PROVE  PipeShape' /\ WritersInv'
  <2>1. /\ NewTable(p, t) /\ Writers(t) = Writers(fds[p]) - n /\ pipe' = ClosedWriters(n)
    BY <1>11 DEF Closes
  <2>2. n <= N /\ N - n \in Nat
    BY <1>7, <2>1
  <2>3. /\ pipe' \in PipeTypes /\ pipe'.writer_count = N - n /\ pipe'.made = pipe.made
        /\ pipe'.write_closed <=> (pipe.write_closed \/ (n > 0 /\ N = n))
    BY <1>0, <1>1, <2>1, <2>2 DEF PipeTypes, ClosedWriters
  <2>4. (N - n) + Writers(fds[p]) = N + Writers(t)
    BY <1>7, <2>1, <2>2
  <2>5. /\ pipe'.write_closed <=> (pipe'.made /\ N - n = 0)
        /\ ~pipe'.made => N - n = 0
    <3>1. N \in Nat
      BY <1>7
    <3> HIDE DEF N
    <3>2. N = 0 => n = 0
      BY <2>2, <3>1
    <3>3. N - n = 0 <=> N = n
      BY <2>2, <3>1
    <3>4. n > 0 \/ n = 0
      OBVIOUS
    <3> QED
      BY <1>0, <2>3, <3>2, <3>3, <3>4
  <2> HIDE DEF N
  <2> QED
    BY <1>8, <2>1, <2>2, <2>3, <2>4, <2>5
<1> QED
  BY <1>4, <1>5, <1>6, <1>9, <1>10, <1>11 DEF PipeMove

(***************************************************************************)
(* A process asleep in a pipe read: whoever writes, or closes the last     *)
(* write end, wakes it, and nobody else reads.                             *)
(***************************************************************************)
LEMMA ReaderKept ==
  ASSUME Shape, Shape', FamilyInv, PipeShape, ReaderInv, PipeMove, Kind
  PROVE  ReaderInv'
<1>0. /\ sig \in [Pids -> SignalState] /\ pc \in [Pids -> Places]
      /\ signalThread \in [Pids -> BOOLEAN] /\ ready \in [Pids -> BOOLEAN]
      /\ pipe \in PipeTypes /\ \A q \in Pids : q # 0
  BY PidNumbers DEF Shape, PipeShape
<1>1. ASSUME NEW q \in Pids, pc'[q] = "read"
      PROVE  \/ Reads(q)
             \/ /\ pc[q] = "read" /\ signalThread'[q] = signalThread[q] /\ (ready[q] => ready'[q])
                /\ SIGKILL \in Deliverable(sig'[q]) =>
                      SIGKILL \in Deliverable(sig[q]) \/ (signalThread[q] => ready'[q])
  <2>1. CASE \E A \in SUBSET Pids : Calm(A)
    BY <1>1, <2>1 DEF Calm, Stays, NotKilled
  <2>2. CASE \E p \in Pids : \E t : Sleeps(p, t)
    BY <1>1, <2>2 DEF Sleeps, Stays
  <2>3. CASE \E p \in Pids : \E t : Forks(p, t)
    BY <1>1, <2>3 DEF Forks, Stays
  <2>4. CASE \E c \in Pids : Born(c)
    BY <1>1, <2>4 DEF Born, Stays
  <2>5. ASSUME NEW p \in Pids, Ends(p)
        PROVE  /\ pc[q] = "read" /\ signalThread'[q] = signalThread[q] /\ (ready[q] => ready'[q])
               /\ SIGKILL \in Deliverable(sig'[q]) => SIGKILL \in Deliverable(sig[q])
    <3>1. q # p /\ Stays({p}) /\ ParentTold(p)
      BY <1>1, <2>5 DEF Ends
    <3>2. sig'[q] = sig[q] \/ sig'[q] = Queue(sig[q], SIGCHLD)
      BY <3>1, ToldTypes
    <3>3. SIGCHLD \in Signals /\ SIGKILL # SIGCHLD
      BY DEF Signals, SIGKILL, SIGCHLD
    <3>4. Deliverable(Queue(sig[q], SIGCHLD)) \subseteq Deliverable(sig[q]) \cup {SIGCHLD}
      BY <1>0, <3>3, SignalStates
    <3> QED
      BY <1>1, <3>1, <3>2, <3>3, <3>4 DEF Stays
  <2> QED
    BY <2>1, <2>2, <2>3, <2>4, <2>5 DEF Kind
\* Where the reader was before, and who else is in a read.
<1>2. ASSUME NEW q \in Pids, Reads(q)
      PROVE  /\ \A r \in Pids \ {q} : pc[r] # "read"
             /\ ReadTurn(q) /\ UNCHANGED sig
  <2>1. CASE Read(q)
    BY <2>1 DEF Read, FdUnchanged
  <2>2. CASE ReadAgain(q)
    BY <2>2 DEF ReadAgain, Resumes, FdUnchanged, ReaderInv
  <2> QED
    BY <1>2, <2>1, <2>2 DEF Reads
<1>3. ASSUME NEW p \in Pids, NEW q \in Pids, pc'[p] = "read", pc'[q] = "read" PROVE p = q
  <2>1. Reads(p) => \A r \in Pids \ {p} : pc[r] # "read"
    BY <1>2
  <2>2. Reads(p) /\ Reads(q) => p = q
    BY <1>0, <1>2, <1>3 DEF ReadTurn, ToReturn, Blocks
  <2> QED
    BY <1>1, <1>2, <1>3, <2>2 DEF ReaderInv
<1>4. ASSUME NEW q \in Pids, pc'[q] = "read", ~ready'[q]
      PROVE  /\ pipe'.bytes = 0 /\ ~pipe'.write_closed /\ pipe'.reader = q
             /\ signalThread'[q] /\ SIGKILL \notin Deliverable(sig'[q])
  <2>1. CASE Reads(q)
    <3>1. ReadTurn(q) /\ UNCHANGED sig
      BY <1>2, <2>1
    <3>2. /\ pipe.bytes = 0 /\ ~pipe.write_closed /\ Deliverable(sig[q]) = {}
          /\ pipe' = [pipe EXCEPT !.reader = q]
          /\ signalThread' = [signalThread EXCEPT ![q] = TRUE]
      BY <1>0, <1>4, <3>1 DEF ReadTurn, ToReturn
    <3> QED
      BY <1>0, <3>1, <3>2 DEF PipeTypes
  <2>2. CASE ~Reads(q)
    <3>1. /\ Asleep(q, "read") /\ signalThread'[q] = signalThread[q]
          /\ SIGKILL \in Deliverable(sig'[q]) =>
                SIGKILL \in Deliverable(sig[q]) \/ (signalThread[q] => ready'[q])
      BY <1>1, <1>4, <2>2 DEF Asleep
    <3>2. /\ pipe.bytes = 0 /\ ~pipe.write_closed /\ pipe.reader = q
          /\ signalThread[q] /\ SIGKILL \notin Deliverable(sig[q])
      BY <3>1 DEF ReaderInv
    <3>3. signalThread'[q] /\ SIGKILL \notin Deliverable(sig'[q])
      BY <1>4, <3>1, <3>2
    <3>4. ~Writes
      BY <1>0, <1>4, <3>2 DEF Writes
    <3>5. ASSUME NEW p \in Pids PROVE ~Reads(p)
      BY <1>2, <2>2, <3>1 DEF Asleep
    <3>6. ASSUME NEW p, NEW t, NEW n, Closes(p, t, n)
          PROVE  /\ pipe'.bytes = pipe.bytes /\ pipe'.write_closed = pipe.write_closed
                 /\ pipe'.reader = pipe.reader
      <4>1. ~(n > 0 /\ pipe.writer_count = n)
        BY <1>0, <1>4, <3>2, <3>6 DEF Closes, WokenByClose, Slot
      <4> QED
        BY <1>0, <3>6, <4>1 DEF Closes, ClosedWriters, PipeTypes
    <3>7. ASSUME NEW p, NEW t, NEW n, Opens(p, t, n) \/ Creates(p, t)
          PROVE  /\ pipe'.bytes = pipe.bytes /\ pipe'.write_closed = pipe.write_closed
                 /\ pipe'.reader = pipe.reader
      BY <1>0, <3>7 DEF Opens, Creates, DuppedWriters, PipeTypes
    <3>8. /\ pipe'.bytes = pipe.bytes /\ pipe'.write_closed = pipe.write_closed
          /\ pipe'.reader = pipe.reader
      BY <3>4, <3>5, <3>6, <3>7 DEF PipeMove
    <3> QED
      BY <3>2, <3>3, <3>8
  <2> QED
    BY <2>1, <2>2
<1> QED
  BY <1>3, <1>4 DEF ReaderInv, Asleep

(***************************************************************************)
(* The pipe is in order at the start: there is none.                       *)
(***************************************************************************)
LEMMA PipeInitially ==
  ASSUME Init
  PROVE  PipeInv
<1>1. default_fd_table \in Tables /\ Opened(default_fd_table, "pipe_w") = {}
  <2>1. Entry("console", FALSE) \in Slots /\ Entry("console", FALSE).object # "pipe_w"
    BY DEF Entry, Slots, FdEntry, Objects
  <2>2. default_fd_table \in [1 .. 3 -> Slots]
    BY <2>1 DEF default_fd_table
  <2>3. ASSUME NEW n \in Nat, NEW u \in [1 .. n -> Slots] PROVE u \in Seq(Slots) /\ Len(u) = n
    OBVIOUS
  <2>4. default_fd_table \in Tables
    <3> DEFINE u == default_fd_table
    <3>1. u \in Seq(Slots) /\ Len(u) = 3
      BY <2>2, <2>3
    <3>2. 3 \in 3 .. MAX_FDS
      BY MaxFdsAssumption
    <3> HIDE DEF u
    <3>3. u \in Tables
      BY <3>1, <3>2 DEF Tables
    <3> QED
      BY <3>3 DEF u
  <2>5. Opened(default_fd_table, "pipe_w") = {}
    BY <2>1 DEF Opened, default_fd_table
  <2> QED
    BY <2>4, <2>5
<1>2. fds \in [Pids -> Tables] /\ \A p \in Pids : Opened(fds[p], "pipe_w") = {}
  BY <1>1 DEF Init
<1>3. WriteEnds(fds) = {}
  BY <1>2 DEF WriteEnds
<1>4. PipeShape
  BY <1>2, ProcessAssumption DEF Init, PipeShape, PipeTypes
<1>5. WritersInv
  BY <1>2, <1>3, FS_EmptySet DEF Init, WritersInv
<1>6. ReaderInv
  BY DEF Init, ReaderInv, Asleep
<1> QED
  BY <1>4, <1>5, <1>6 DEF PipeInv

(***************************************************************************)
(* Every step keeps the pipe in order.                                     *)
(***************************************************************************)
LEMMA PipeStep ==
  ASSUME ProcessInv, ProcessInv', PipeInv, [Next]_vars
  PROVE  PipeInv'
<1>1. CASE Next
  <2>1. Shape /\ Shape' /\ FamilyInv /\ PipeShape /\ WritersInv /\ ReaderInv
    BY DEF ProcessInv, PipeInv
  <2>2. Kind /\ PipeMove
    BY <1>1, <2>1, Kinds, PipeMoves
  <2>3. \A q \in Pids : status'[q] = "none" => status[q] = "none"
    <3>1. status \in [Pids -> {"none", "running", "zombie", "reaped"}]
      BY <2>1 DEF Shape
    <3> QED
      BY <2>2, <3>1 DEF Kind, Calm, Sleeps, Forks, Born, Ends, Reaped
  <2>4. PipeShape' /\ WritersInv'
    BY <1>1, <2>1, <2>2, <2>3, WritersKept
  <2> QED
    BY <2>1, <2>2, <2>4, ReaderKept DEF PipeInv
<1>2. CASE UNCHANGED vars
  <2>1. UNCHANGED <<fds, pipe, status, pc, ready, signalThread, sig>>
    BY <1>2 DEF vars, procVars, threadVars
  <2> QED
    BY <2>1 DEF PipeInv, PipeShape, WritersInv, WriteEnds, ReaderInv, Asleep
<1> QED
  BY <1>1, <1>2

(***************************************************************************)
(* Whatever the processes do, the pipe stays in order.                     *)
(***************************************************************************)
LEMMA PipeSafe == Spec => []PipeInv
<1>1. Init => PipeInv
  BY PipeInitially
<1>2. ProcessInv /\ ProcessInv' /\ PipeInv /\ [Next]_vars => PipeInv'
  BY PipeStep
<1> QED
  BY <1>1, <1>2, ProcessSafe, PTL DEF Spec

(***************************************************************************)
(* PipeWriter::close and clone keep the count of writers: the pipe is at   *)
(* end of file exactly when no table holds a write end, and a process      *)
(* asleep in PipeReader::read has nothing to read and will be woken.       *)
(***************************************************************************)
THEOREM PipeEnds == Spec => []EndOfFile
<1>1. PipeInv => EndOfFile
  <2> SUFFICES ASSUME PipeInv PROVE EndOfFile
    OBVIOUS
  <2>1. fds \in [Pids -> Tables]
    BY DEF PipeInv, PipeShape
  <2>2. pipe.writer_count = 0 <=> WriteEnds(fds) = {}
    <3>1. IsFiniteSet(WriteEnds(fds))
      BY <2>1, CountByProcess, ProcessAssumption DEF Pids
    <3> QED
      BY <3>1, FS_EmptySet DEF PipeInv, WritersInv
  <2>3. WriteEnds(fds) = {} <=> \A p \in Pids : Opened(fds[p], "pipe_w") = {}
    <3>1. ASSUME NEW p \in Pids, NEW i \in Opened(fds[p], "pipe_w") PROVE <<p, i>> \in WriteEnds(fds)
      <4>1. i \in Nat
        BY <2>1, EndsOfTable
      <4> QED
        BY <4>1 DEF WriteEnds
    <3>2. ASSUME NEW e \in WriteEnds(fds) PROVE e[1] \in Pids /\ e[2] \in Opened(fds[e[1]], "pipe_w")
      BY DEF WriteEnds
    <3> QED
      BY <3>1, <3>2
  <2> QED
    BY <2>2, <2>3 DEF PipeInv, WritersInv, ReaderInv, EndOfFile
<1> QED
  BY <1>1, PipeSafe, PTL

-----------------------------------------------------------------------------
(***************************************************************************)
(* The console.                                                            *)
(***************************************************************************)
ConsoleTypes == [bytes : Nat, reader : 0 .. MaxPid, foreground : 0 .. MaxPid]

ConsoleInv ==
  /\ con \in ConsoleTypes
  /\ \A p \in Pids : pc[p] = "console" => May("console")
  /\ \A p, q \in Pids : pc[p] = "console" /\ pc[q] = "console" => p = q
  /\ \A p \in Pids : Asleep(p, "console") =>
       /\ con.bytes = 0 /\ con.reader = p
       /\ SIGINT \in Deliverable(sig[p]) => p \in killed \/ kbd = Waking(p)

(***************************************************************************)
(* A behaviour keeps to its mix of operations.                             *)
(***************************************************************************)
LEMMA WorkloadFixed ==
  ASSUME Next
  PROVE  workload' = workload
<1>1. CASE Spawn \/ LaunchService \/ Key \/ Handled
  BY <1>1 DEF Spawn, LaunchService, SpawnProcess, Key, Handled, PushInput, CtrlC,
     WakeBlockedReader
<1>2. ASSUME NEW p \in Pids, SystemCall(p) \/ Kill(p) PROVE workload' = workload
  BY <1>2 DEF SystemCall, Clone, Execve, Exit, Wait4, Sigreturn, Sigaction, Sigprocmask,
     SignalCall, Kill, Pipe2, Close, Dup2, SetCloexec, Read, Write, ConsoleRead, Enters
<1>3. ASSUME NEW p \in Pids, Proceed(p) \/ Fault(p) \/ WaitAndReap(p)
      PROVE  workload' = workload
  BY <1>3 DEF Proceed, CloneReturns, FileRead, ExecveFails, ExecveSucceeds, Dies, Wait4Again,
     Return, ReturnTerminates, YieldReturns, ReadAgain, ConsoleReadAgain, Resumes, Fault,
     WaitAndReap
<1> QED
  BY <1>1, <1>2, <1>3 DEF Next

(***************************************************************************)
(* The kinds of steps, as the console sees them.  A handover of the        *)
(* foreground throws input away.  Who has a SIGINT in its console read has *)
(* it from kill or is about to be woken; or this was not so before.        *)
(***************************************************************************)
Excused(p) == p \in killed \/ kbd = Waking(p)

NotInterrupted ==
  \A q \in Pids : pc[q] = "console" /\ SIGINT \in Deliverable(sig'[q]) =>
                     Excused(q)' \/ (SIGINT \in Deliverable(sig[q]) /\ ~Excused(q))

Handover == con' = con \/ \E v \in 0 .. MaxPid : con' = Foreground(v)

Keyed ==
  /\ \E b \in Nat : con' = [con EXCEPT !.bytes = b, !.reader = 0]
  /\ UNCHANGED pc
  /\ con.reader # 0 => ready'[con.reader]
  /\ \A q \in Pids : ready[q] => ready'[q]

ConsoleMove ==
  /\ UNCHANGED workload
  /\ (NotInterrupted /\ Handover) \/ Keyed \/ \E p \in Pids : ConsoleReads(p)

(***************************************************************************)
(* What the keyboard actor and kill have no part in is of one of these     *)
(* kinds.                                                                  *)
(***************************************************************************)
LEMMA OtherConsoleMoves ==
  ASSUME Shape, ConsoleInv, UNCHANGED <<kbd, killed>>,
         \/ Spawn \/ LaunchService
         \/ \E p \in Pids : SystemCall(p) \/ Proceed(p) \/ Fault(p) \/ WaitAndReap(p)
  PROVE  ConsoleMove
<1>0. /\ sig \in [Pids -> SignalState] /\ pc \in [Pids -> Places] /\ con \in ConsoleTypes
      /\ 0 \in 0 .. MaxPid /\ \A q \in Pids : q \in 0 .. MaxPid
  <2>1. 0 \in 0 .. MaxPid /\ \A q \in Pids : q \in 0 .. MaxPid
    BY ProcessAssumption DEF Pids
  <2> QED
    BY <2>1 DEF Shape, ConsoleInv
<1>1. ASSUME NEW p \in Pids, pc[p] # "console", \A q \in Pids \ {p} : sig'[q] = sig[q]
      PROVE  NotInterrupted
  BY <1>1 DEF NotInterrupted, Excused
<1>2. ASSUME sig' = sig PROVE NotInterrupted
  BY <1>2 DEF NotInterrupted, Excused
<1>3. ASSUME NEW p \in Pids, ParentTold(p) PROVE NotInterrupted
  <2>1. \A q \in Pids : sig'[q] = sig[q] \/ sig'[q] = Queue(sig[q], SIGCHLD)
    BY <1>3, ToldTypes
  <2>2. SIGCHLD \in Signals /\ SIGINT # SIGCHLD
    BY DEF Signals, SIGINT, SIGCHLD
  <2>3. \A q \in Pids : Deliverable(Queue(sig[q], SIGCHLD)) \subseteq
                           Deliverable(sig[q]) \cup {SIGCHLD}
    BY <1>0, <2>2, SignalStates
  <2> QED
    BY <2>1, <2>2, <2>3 DEF NotInterrupted, Excused
<1>4. CASE Spawn \/ LaunchService
  <2>1. NextPid \in Pids
    BY <1>4, NewPid DEF Spawn, LaunchService
  <2> QED
    BY <1>0, <1>2, <1>4, <2>1 DEF Spawn, LaunchService, SpawnProcess, ConsoleMove, Handover
<1>5. ASSUME NEW p \in Pids,
             \/ Clone(p) \/ Execve(p) \/ Pipe2(p) \/ Close(p) \/ Dup2(p) \/ SetCloexec(p)
             \/ Read(p) \/ Write(p) \/ CloneReturns(p) \/ FileRead(p) \/ ExecveFails(p) \/ Dies(p)
             \/ YieldReturns(p) \/ ReadAgain(p)
      PROVE  ConsoleMove
  <2>1. UNCHANGED <<sig, con, workload>>
    BY <1>5 DEF Clone, Execve, Pipe2, Close, Dup2, SetCloexec, Read, Write, CloneReturns, FileRead,
       ExecveFails, Dies, YieldReturns, ReadAgain, Enters, Resumes, FdUnchanged, procVars
  <2> QED
    BY <1>2, <2>1 DEF ConsoleMove, Handover
<1>6. ASSUME NEW p \in Pids, ExecveSucceeds(p) PROVE ConsoleMove
  <2>1. UNCHANGED <<sig, workload>> /\ (con' = con \/ con' = Foreground(p))
    BY <1>6 DEF ExecveSucceeds, Resumes
  <2> QED
    BY <1>0, <1>2, <2>1 DEF ConsoleMove, Handover
<1>7. ASSUME NEW p \in Pids, Wait4(p) \/ Wait4Again(p) PROVE ConsoleMove
  <2>1. UNCHANGED <<sig, workload>> /\ (con' = con \/ con' = Foreground(p))
    BY <1>7 DEF Wait4, Wait4Again, Wait4Turn, Wait4Unchanged, Enters, Resumes
  <2> QED
    BY <1>0, <1>2, <2>1 DEF ConsoleMove, Handover
<1>8. ASSUME NEW p \in Pids, Exit(p) \/ ReturnTerminates(p) PROVE ConsoleMove
  <2>1. UNCHANGED <<con, workload>> /\ ParentTold(p)
    BY <1>8 DEF Exit, ReturnTerminates, Terminate, Enters
  <2> QED
    BY <1>3, <2>1 DEF ConsoleMove, Handover
<1>9. ASSUME NEW p \in Pids, Fault(p) PROVE ConsoleMove
  <2>1. UNCHANGED <<con, workload>> /\ pc[p] = "user"
        /\ (ParentTold(p) \/ \E st : sig' = [sig EXCEPT ![p] = st])
    BY <1>9 DEF Fault, KillUserProcess
  <2> QED
    BY <1>0, <1>1, <1>3, <2>1 DEF ConsoleMove, Handover
<1>10. ASSUME NEW p \in Pids, Return(p) \/ Sigreturn(p) \/ Sigaction(p) \/ Sigprocmask(p)
       PROVE  ConsoleMove
  <2>1. UNCHANGED <<con, workload>> /\ pc[p] # "console"
    BY <1>10 DEF Return, Sigreturn, Sigaction, Sigprocmask, SignalCall, Enters
  <2>2. \A q \in Pids \ {p} : sig'[q] = sig[q]
    <3>1. CASE Return(p)
      BY <1>0, <3>1 DEF Return, CheckPendingSignals, procVars
    <3>2. CASE Sigreturn(p) \/ Sigaction(p) \/ Sigprocmask(p)
      BY <1>0, <3>2 DEF Sigreturn, Sigaction, Sigprocmask, SignalCall
    <3> QED
      BY <1>10, <3>1, <3>2
  <2> QED
    BY <1>1, <2>1, <2>2 DEF ConsoleMove, Handover
<1>11. ASSUME NEW p \in Pids, WaitAndReap(p) PROVE ConsoleMove
  <2>1. UNCHANGED <<sig, workload>> /\ con' = Foreground(0)
    BY <1>11 DEF WaitAndReap, KERNEL
  <2> QED
    BY <1>0, <1>2, <2>1 DEF ConsoleMove, Handover
<1>12. ASSUME NEW p \in Pids, ConsoleReads(p) PROVE ConsoleMove
  BY <1>12 DEF ConsoleMove, ConsoleReads, ConsoleRead, ConsoleReadAgain, Enters, Resumes
<1> QED
  BY <1>4, <1>5, <1>6, <1>7, <1>8, <1>9, <1>10, <1>11, <1>12
     DEF SystemCall, Proceed, ConsoleReads

(***************************************************************************)
(* Every step of the specification is of one of these kinds.               *)
(***************************************************************************)
LEMMA ConsoleMoves ==
  ASSUME Shape, ConsoleInv, Next
  PROVE  ConsoleMove
<1>0. /\ sig \in [Pids -> SignalState] /\ con \in ConsoleTypes /\ workload' = workload
  BY WorkloadFixed DEF Shape, ConsoleInv
<1>1. CASE PushInput \/ WakeBlockedReader
  <2>1. \E b \in Nat : con' = [con EXCEPT !.bytes = b, !.reader = 0]
    <3>1. con.bytes \in Nat /\ con.bytes + 1 \in Nat
      BY <1>0 DEF ConsoleTypes
    <3>2. [con EXCEPT !.reader = 0] = [con EXCEPT !.bytes = con.bytes, !.reader = 0]
      BY <1>0 DEF ConsoleTypes
    <3> QED
      BY <1>1, <3>1, <3>2 DEF PushInput, WakeBlockedReader
  <2>2. ready' = Unblocked(Slot(con.reader)) /\ UNCHANGED pc
    BY <1>1 DEF PushInput, WakeBlockedReader
  <2>3. con.reader # 0 => con.reader \in Pids /\ Slot(con.reader) = {con.reader}
    BY <1>0, PidNumbers DEF ConsoleTypes, Slot
  <2> QED
    BY <1>0, <2>1, <2>2, <2>3, UnblockedThreads DEF Keyed, ConsoleMove
<1>2. CASE Key /\ UNCHANGED killed
  <2>1. UNCHANGED <<sig, con>> /\ kbd = NoKey
    BY <1>2 DEF Key, procVars
  <2>2. \A q \in Pids : kbd # Waking(q)
    BY <2>1 DEF NoKey, Waking
  <2>3. NotInterrupted
    BY <1>2, <2>1, <2>2 DEF NotInterrupted, Excused
  <2> QED
    BY <1>0, <2>1, <2>3 DEF ConsoleMove, Handover
<1>3. CASE CtrlC /\ UNCHANGED killed
  <2>1. /\ UNCHANGED con /\ kbd.at = "signal" /\ kbd' = Waking(kbd.pid)
        /\ \A q \in Pids : sig'[q] = sig[q] \/ q = kbd.pid
    BY <1>0, <1>3 DEF CtrlC, SigintQueued, InTable
  <2>2. \A q \in Pids : kbd # Waking(q)
    BY <2>1 DEF Waking
  <2>3. NotInterrupted
    BY <1>3, <2>1, <2>2 DEF NotInterrupted, Excused
  <2> QED
    BY <1>0, <2>1, <2>3 DEF ConsoleMove, Handover
<1>4. ASSUME NEW p \in Pids, Kill(p), UNCHANGED kbd PROVE ConsoleMove
  <2>1. UNCHANGED con
    BY <1>4 DEF Kill
  <2>2. PICK q \in Pids, s \in {SIGINT, SIGKILL} :
           /\ sig' = [sig EXCEPT ![q] = Queue(sig[q], s)]
           /\ killed' = IF s = SIGINT THEN killed \cup {q} ELSE killed
    BY <1>0, <1>4 DEF Kill, InTable
  <2>3. NotInterrupted
    <3>1. CASE s = SIGINT
      BY <1>0, <1>4, <2>2, <3>1 DEF NotInterrupted, Excused
    <3>2. CASE s # SIGINT
      <4>1. SIGKILL \in Signals /\ SIGINT # SIGKILL /\ s = SIGKILL
        BY <3>2 DEF Signals, SIGINT, SIGKILL
      <4>2. Deliverable(Queue(sig[q], s)) \subseteq Deliverable(sig[q]) \cup {SIGKILL}
        BY <1>0, <4>1, SignalStates
      <4> QED
        BY <1>0, <1>4, <2>2, <4>1, <4>2 DEF NotInterrupted, Excused
    <3> QED
      BY <3>1, <3>2
  <2> QED
    BY <1>0, <2>1, <2>3 DEF ConsoleMove, Handover
<1> QED
  BY <1>1, <1>2, <1>3, <1>4, OtherConsoleMoves DEF Next, Handled

(***************************************************************************)
(* A process asleep in a console read: the next key or Ctrl+C wakes it,    *)
(* and nobody else takes its slot.                                         *)
(***************************************************************************)
LEMMA ConsoleKept ==
  ASSUME Shape, ConsoleInv, Kind, ConsoleMove
  PROVE  ConsoleInv'
<1>0. /\ pc \in [Pids -> Places] /\ ready \in [Pids -> BOOLEAN] /\ con \in ConsoleTypes
      /\ workload' = workload /\ 0 \in 0 .. MaxPid
      /\ \A q \in Pids : q # 0 /\ q \in 0 .. MaxPid
  <2>1. 0 \in 0 .. MaxPid /\ \A q \in Pids : q # 0 /\ q \in 0 .. MaxPid
    BY ProcessAssumption DEF Pids
  <2> QED
    BY <2>1 DEF Shape, ConsoleInv, ConsoleMove
<1>1. ASSUME NEW q \in Pids, pc'[q] = "console"
      PROVE  ConsoleReads(q) \/ (pc[q] = "console" /\ (ready[q] => ready'[q]))
  <2>1. CASE \E A \in SUBSET Pids : Calm(A)
    BY <1>1, <2>1 DEF Calm, Stays
  <2>2. CASE \E p \in Pids : \E t : Sleeps(p, t) \/ Forks(p, t)
    BY <1>1, <2>2 DEF Sleeps, Forks, Stays
  <2>3. CASE \E c \in Pids : Born(c) \/ Ends(c)
    BY <1>1, <2>3 DEF Born, Ends, Stays
  <2> QED
    BY <2>1, <2>2, <2>3 DEF Kind
<1>2. ASSUME NEW q \in Pids, ConsoleReads(q)
      PROVE  /\ \A r \in Pids \ {q} : pc[r] # "console"
             /\ ConsoleTurn(q) /\ UNCHANGED sig /\ May("console")
  <2>1. CASE ConsoleRead(q)
    BY <2>1 DEF ConsoleRead, Enters
  <2>2. CASE ConsoleReadAgain(q)
    BY <2>2 DEF ConsoleReadAgain, Resumes, ConsoleInv
  <2> QED
    BY <1>2, <2>1, <2>2 DEF ConsoleReads
<1>3. con' \in ConsoleTypes
  <2>1. CASE Handover
    <3>1. ASSUME NEW v \in 0 .. MaxPid PROVE [con EXCEPT !.foreground = v, !.bytes = 0] \in ConsoleTypes
      BY <1>0 DEF ConsoleTypes
    <3> QED
      BY <1>0, <2>1, <3>1 DEF Handover, Foreground
  <2>2. CASE Keyed
    <3>1. PICK b \in Nat : con' = [con EXCEPT !.bytes = b, !.reader = 0]
      BY <2>2 DEF Keyed
    <3> QED
      BY <1>0, <3>1 DEF ConsoleTypes
  <2>3. ASSUME NEW p \in Pids, ConsoleReads(p) PROVE con' \in ConsoleTypes
    <3>1. ConsoleTurn(p)
      BY <1>2, <2>3
    <3>2. con.bytes \in Nat /\ (con.bytes > 0 => con.bytes - 1 \in Nat)
      BY <1>0 DEF ConsoleTypes
    <3>3. CASE con.bytes > 0 /\ con' = [con EXCEPT !.bytes = con.bytes - 1]
      BY <1>0, <3>2, <3>3 DEF ConsoleTypes
    <3>4. CASE con' = con
      BY <1>0, <3>4
    <3>5. CASE con' = [con EXCEPT !.reader = p]
      BY <1>0, <3>5 DEF ConsoleTypes
    <3> QED
      BY <3>1, <3>3, <3>4, <3>5 DEF ConsoleTurn
  <2> QED
    BY <2>1, <2>2, <2>3 DEF ConsoleMove
<1>4. ASSUME NEW q \in Pids, pc'[q] = "console" PROVE May("console")'
  BY <1>0, <1>1, <1>2, <1>4 DEF ConsoleInv, May
<1>5. ASSUME NEW p \in Pids, NEW q \in Pids, pc'[p] = "console", pc'[q] = "console" PROVE p = q
  <2>1. ConsoleReads(p) /\ ConsoleReads(q) => p = q
    BY <1>0, <1>2, <1>5 DEF ConsoleTurn, ToReturn, Blocks
  <2> QED
    BY <1>1, <1>2, <1>5, <2>1 DEF ConsoleInv
<1>6. ASSUME NEW q \in Pids, pc'[q] = "console", ~ready'[q]
      PROVE  /\ con'.bytes = 0 /\ con'.reader = q
             /\ SIGINT \in Deliverable(sig'[q]) => Excused(q)'
  <2>1. CASE ConsoleReads(q)
    <3>1. ConsoleTurn(q) /\ UNCHANGED sig
      BY <1>2, <2>1
    <3>2. con.bytes = 0 /\ Deliverable(sig[q]) = {} /\ con' = [con EXCEPT !.reader = q]
      BY <1>0, <1>6, <3>1 DEF ConsoleTurn, ToReturn
    <3> QED
      BY <1>0, <3>1, <3>2 DEF ConsoleTypes
  <2>2. CASE ~ConsoleReads(q)
    <3>1. Asleep(q, "console")
      BY <1>1, <1>6, <2>2 DEF Asleep
    <3>2. /\ con.bytes = 0 /\ con.reader = q /\ pc[q] = "console"
          /\ SIGINT \in Deliverable(sig[q]) => Excused(q)
      BY <3>1 DEF ConsoleInv, Asleep, Excused
    <3>3. \A p \in Pids : ~ConsoleReads(p)
      BY <1>2, <2>2, <3>2
    <3>4. ~Keyed
      BY <1>0, <1>6, <3>2 DEF Keyed
    <3>5. NotInterrupted /\ Handover
      BY <3>3, <3>4 DEF ConsoleMove
    <3>6. con'.bytes = 0 /\ con'.reader = q
      BY <1>0, <3>2, <3>5 DEF Handover, Foreground, ConsoleTypes
    <3> QED
      BY <3>2, <3>5, <3>6 DEF NotInterrupted
  <2> QED
    BY <2>1, <2>2
<1> QED
  BY <1>3, <1>4, <1>5, <1>6 DEF ConsoleInv, Asleep, Excused

(***************************************************************************)
(* Nobody reads the console at the start.                                  *)
(***************************************************************************)
LEMMA ConsoleInitially ==
  ASSUME Init
  PROVE  ConsoleInv
BY ProcessAssumption DEF Init, ConsoleInv, ConsoleTypes, KERNEL, Asleep

(***************************************************************************)
(* Every step keeps the console in order.                                  *)
(***************************************************************************)
LEMMA ConsoleStep ==
  ASSUME ProcessInv, ConsoleInv, [Next]_vars
  PROVE  ConsoleInv'
<1>1. CASE Next
  <2>1. Shape /\ FamilyInv
    BY DEF ProcessInv
  <2> QED
    BY <1>1, <2>1, Kinds, ConsoleMoves, ConsoleKept
<1>2. CASE UNCHANGED vars
  <2>1. UNCHANGED <<con, kbd, killed, pc, ready, sig, workload>>
    BY <1>2 DEF vars, procVars, threadVars
  <2> QED
    BY <2>1 DEF ConsoleInv, Asleep, May
<1> QED
  BY <1>1, <1>2

(***************************************************************************)
(* read_input: a foreground process that sleeps has no input waiting and   *)
(* is in the slot that the next key and Ctrl+C look at; between the queued *)
(* SIGINT and the wake-up the keyboard actor is on its way to it, and      *)
(* nobody else leaves it with a SIGINT but kill.                           *)
(***************************************************************************)
THEOREM ConsoleServes == Spec => []ConsoleReaderServed
<1>1. Init => ConsoleInv
  BY ConsoleInitially
<1>2. ProcessInv /\ ConsoleInv /\ [Next]_vars => ConsoleInv'
  BY ConsoleStep
<1>3. ConsoleInv => ConsoleReaderServed
  BY DEF ConsoleInv, ConsoleReaderServed
<1> QED
  BY <1>1, <1>2, <1>3, ProcessSafe, PTL DEF Spec

-----------------------------------------------------------------------------
(***************************************************************************)
(* A vfork parent sleeps until its child is done with its stack.  A        *)
(* process that survives an interrupted wait stays registered where it     *)
(* waited and may be woken inside clone; only handlers (or SIG_IGN) let it *)
(* survive, so this is about the programs that clone and install none.     *)
(***************************************************************************)
NoHandlers == ~(May("clone") /\ May("handlers"))

\* SIGKILL has been queued, or worse.
Doomed(p) ==
  \/ pc[p] \in {"dying", "dead"}
  \/ pc[p] \in {"wait4", "read", "return"} /\ SIGKILL \in Deliverable(sig[p])

SignalsInv ==
  \A p \in Pids : /\ \A s \in Signals : sig[p].actions[s] = "SIG_DFL"
                  /\ sig[p].blocked \subseteq {SIGINT}
                  /\ sig[p].pending \subseteq {SIGINT, SIGKILL, SIGCHLD}

\* Who is registered somewhere sleeps there, or is about to end.
RegisteredInv ==
  \A p \in Pids : /\ signalThread[p] => pc[p] \in {"wait4", "read"}
                  /\ waitThread[p] => Asleep(p, "wait4") \/ Doomed(p)
                  /\ pipe.reader = p => Asleep(p, "read") \/ Doomed(p)
                  /\ con.reader = p => Asleep(p, "console")

\* The parent of a child that runs on its stack sleeps, and has one such child.
SuspendedInv ==
  /\ \A c \in Pids : status[c] = "none" => ~shared[c] /\ pc[c] = "none"
  /\ \A c \in Pids : status[c] = "running" /\ shared[c] =>
                        parent[c] # 0 /\ vforkParent[c] = parent[c]
  /\ \A c \in Pids : status[c] = "running" /\ vforkParent[c] # 0 => Asleep(vforkParent[c], "clone")
  /\ \A c, d \in Pids : status[c] = "running" /\ status[d] = "running" /\ vforkParent[c] # 0
                           /\ vforkParent[c] = vforkParent[d] => c = d

VforkInv ==
  /\ shared \in [Pids -> BOOLEAN]
  /\ May("clone") /\ NoHandlers => SignalsInv /\ ConsoleInv /\ RegisteredInv /\ SuspendedInv
  /\ ~May("clone") => \A c \in Pids : ~shared[c]

(***************************************************************************)
(* What a step does to the signal state of each process.                   *)
(***************************************************************************)
SignalMove(q) ==
  \/ sig'[q] = sig[q]
  \/ \E s \in {SIGINT, SIGKILL, SIGCHLD} : sig'[q] = Queue(sig[q], s)
  \/ \E how \in {"SIG_BLOCK", "SIG_UNBLOCK", "SIG_SETMASK"} :
        sig'[q] = SetMask(sig[q], how, {SIGINT, SIGKILL})
  \/ SIGKILL \notin sig[q].pending /\ sig'[q] = Dequeue(sig[q])

(***************************************************************************)
(* Without handlers, a process that SIGKILL waits for does not go back to  *)
(* user code.                                                              *)
(***************************************************************************)
LEMMA KilledEnds ==
  ASSUME Shape, SignalsInv, NEW p \in Pids, Return(p)
  PROVE  SIGKILL \notin sig[p].pending /\ SignalMove(p)
<1> DEFINE st == sig[p]
           D == Deliverable(st)
           s == NextSignal(st)
<1>1. /\ st \in SignalState /\ st.blocked \subseteq {SIGINT}
      /\ st.pending \subseteq {SIGINT, SIGKILL, SIGCHLD}
      /\ \A x \in Signals : st.actions[x] = "SIG_DFL"
  BY DEF Shape, SignalsInv
<1>2. D \subseteq {SIGINT, SIGKILL, SIGCHLD} /\ D \subseteq Signals /\ D \subseteq Nat
  BY <1>1 DEF Deliverable, Signals, SIGINT, SIGKILL, SIGCHLD
<1>3. ASSUME D # {} PROVE s \in D /\ \A y \in D : s <= y
  <2> HIDE DEF D
  <2>1. Min(D) \in D /\ \A y \in D : Min(D) <= y
    BY <1>2, <1>3, MinInSet
  <2> QED
    BY <2>1 DEF NextSignal, D
<1>4. ASSUME D # {} PROVE Outcome(st, s) # "deliver"
  BY <1>1, <1>2, <1>3, <1>4 DEF Outcome
<1>5. ASSUME D # {}, SIGKILL \in D PROVE Outcome(st, s) = "terminate"
  <2>1. s \in {SIGINT, SIGKILL, SIGCHLD} /\ s \in Signals /\ s <= SIGKILL
    BY <1>2, <1>3, <1>5
  <2>2. s \in {SIGINT, SIGKILL}
    BY <2>1 DEF SIGINT, SIGKILL, SIGCHLD
  <2> HIDE DEF s, st
  <2> QED
    BY <1>1, <2>1, <2>2 DEF Outcome, IsDefaultTerminate
<1>6. \/ D = {} /\ sig' = sig
      \/ D # {} /\ Outcome(st, s) = "drop" /\ sig' = [sig EXCEPT ![p] = Dequeue(st)]
  BY <1>4 DEF Return, CheckPendingSignals, procVars
<1>7. SIGKILL \notin D
  BY <1>5, <1>6
<1>8. SIGKILL \notin st.pending
  BY <1>1, <1>7 DEF Deliverable, SIGINT, SIGKILL
<1>9. sig'[p] = st \/ sig'[p] = Dequeue(st)
  BY <1>6 DEF Shape
<1> QED
  BY <1>8, <1>9 DEF SignalMove

(***************************************************************************)
(* Queueing keeps the signal state simple, and SIGKILL is never unqueued.  *)
(***************************************************************************)
LEMMA SignalsKept ==
  ASSUME Shape, SignalsInv, \A q \in Pids : SignalMove(q)
  PROVE  /\ SignalsInv'
         /\ \A q \in Pids : SIGKILL \in Deliverable(sig[q]) => SIGKILL \in Deliverable(sig'[q])
         /\ \A q \in Pids : SIGKILL \in sig'[q].pending => SIGKILL \in Deliverable(sig'[q])
<1>1. SUFFICES ASSUME NEW q \in Pids
               PROVE  /\ \A s \in Signals : sig'[q].actions[s] = "SIG_DFL"
                      /\ sig'[q].blocked \subseteq {SIGINT}
                      /\ sig'[q].pending \subseteq {SIGINT, SIGKILL, SIGCHLD}
                      /\ SIGKILL \in sig[q].pending => SIGKILL \in sig'[q].pending
  <2>1. SIGKILL # SIGINT
    BY DEF SIGINT, SIGKILL
  <2> QED
    BY <1>1, <2>1 DEF SignalsInv, Deliverable
<1> DEFINE st == sig[q]
<1>2. /\ st \in SignalState /\ \A s \in Signals : st.actions[s] = "SIG_DFL"
      /\ st.blocked \subseteq {SIGINT} /\ st.pending \subseteq {SIGINT, SIGKILL, SIGCHLD}
  BY DEF Shape, SignalsInv
<1> HIDE DEF st
<1>3. CASE sig'[q] = st
  BY <1>2, <1>3 DEF st
<1>4. ASSUME NEW s \in {SIGINT, SIGKILL, SIGCHLD}, sig'[q] = Queue(st, s)
      PROVE  /\ sig'[q].actions = st.actions /\ sig'[q].blocked = st.blocked
             /\ sig'[q].pending = st.pending \cup {s}
  BY <1>2, <1>4 DEF Queue, SignalState
<1>5. ASSUME NEW how \in {"SIG_BLOCK", "SIG_UNBLOCK", "SIG_SETMASK"},
             sig'[q] = SetMask(st, how, {SIGINT, SIGKILL})
      PROVE  /\ sig'[q].actions = st.actions /\ sig'[q].blocked \subseteq {SIGINT}
             /\ sig'[q].pending = st.pending
  <2> DEFINE b == CASE how = "SIG_BLOCK"   -> st.blocked \cup ({SIGINT, SIGKILL} \ Unblockable)
                    [] how = "SIG_UNBLOCK" -> st.blocked \ {SIGINT, SIGKILL}
                    [] how = "SIG_SETMASK" -> {SIGINT, SIGKILL} \ Unblockable
  <2>1. sig'[q] = [st EXCEPT !.blocked = b]
    BY <1>5 DEF SetMask
  <2>2. b \subseteq {SIGINT}
    BY <1>2 DEF Unblockable
  <2> HIDE DEF b
  <2> QED
    BY <1>2, <2>1, <2>2 DEF SignalState
<1>6. ASSUME SIGKILL \notin st.pending, sig'[q] = Dequeue(st)
      PROVE  /\ sig'[q].actions = st.actions /\ sig'[q].blocked = st.blocked
             /\ sig'[q].pending \subseteq st.pending
  BY <1>2, <1>6 DEF Dequeue, SignalState
<1>7. SignalMove(q)
  OBVIOUS
<1> QED
  BY <1>2, <1>3, <1>4, <1>5, <1>6, <1>7 DEF SignalMove, st

(***************************************************************************)
(* How a step finds a process.  One looks on: it may be woken and taken    *)
(* off wait_thread.  Or it acts: it was ready, or in the return path, or   *)
(* is created.                                                             *)
(***************************************************************************)
LooksOn(q) ==
  /\ pc'[q] = pc[q] /\ signalThread'[q] = signalThread[q]
  /\ waitThread'[q] => waitThread[q]

Acts(q) ==
  /\ ready[q] \/ pc[q] \in {"none", "return"}
  /\ status'[q] # "none"
  /\ signalThread'[q] => signalThread[q] \/ pc'[q] \in {"wait4", "read"}
  /\ waitThread'[q] => waitThread[q] \/ (pc'[q] = "wait4" /\ ~ready'[q])
  /\ pc[q] \in {"wait4", "read"} =>
       pc'[q] = pc[q] \/ (pc'[q] = "return" /\ ~signalThread'[q])
  /\ pc[q] = "return" => pc'[q] = "dying" \/ SIGKILL \notin sig[q].pending
  /\ pc[q] \in {"dying", "dead"} => pc'[q] \in {"dying", "dead"}

\* Why a thread is unblocked.
Woken(q) ==
  \/ status[q] = "none" \/ pc[q] = "vfs"
  \/ waitThread[q] /\ ~waitThread'[q]
  \/ signalThread[q] /\ SIGKILL \in sig'[q].pending
  \/ pipe.reader = q /\ pipe'.reader # q
  \/ con.reader = q /\ con'.reader # q
  \/ \E c \in Pids : status[c] = "running" /\ vforkParent[c] = q /\ vforkParent'[c] = 0

ThreadMove(q) ==
  /\ LooksOn(q) \/ Acts(q)
  /\ ready'[q] => ready[q] \/ Woken(q)

(***************************************************************************)
(* The slots of the pipe and the console get who goes to sleep there.      *)
(***************************************************************************)
LEMMA SlotsTaken ==
  ASSUME Shape, PipeShape, ConsoleInv, PipeMove, ConsoleMove, NEW q \in Pids
  PROVE  /\ pipe'.reader = q => pipe.reader = q \/ (pc'[q] = "read" /\ ~ready'[q])
         /\ con'.reader = q => con.reader = q \/ (pc'[q] = "console" /\ ~ready'[q])
<1>0. /\ pc \in [Pids -> Places] /\ ready \in [Pids -> BOOLEAN]
      /\ pipe \in PipeTypes /\ con \in ConsoleTypes /\ q # 0
  BY PidNumbers DEF Shape, PipeShape, ConsoleInv
<1>1. ASSUME pipe'.reader = q PROVE pipe.reader = q \/ (pc'[q] = "read" /\ ~ready'[q])
  <2>1. ASSUME NEW p \in Pids, Reads(p)
        PROVE  pipe.reader = q \/ (pc'[q] = "read" /\ ~ready'[q])
    <3>1. ReadTurn(p)
      BY <2>1 DEF Reads, Read, ReadAgain
    <3>2. CASE pipe' = [pipe EXCEPT !.bytes = @ - 1] \/ pipe' = pipe
      BY <1>0, <1>1, <3>2 DEF PipeTypes
    <3>3. CASE /\ pipe' = [pipe EXCEPT !.reader = p]
               /\ ready' = [ready EXCEPT ![p] = FALSE] /\ Blocks(p, "read")
      BY <1>0, <1>1, <3>3 DEF PipeTypes, Blocks
    <3> QED
      BY <3>1, <3>2, <3>3 DEF ReadTurn
  <2>2. CASE Writes
    BY <1>0, <1>1, <2>2 DEF Writes, PipeTypes
  <2>3. ASSUME NEW p, NEW t, NEW n, Creates(p, t) \/ Opens(p, t, n) \/ Closes(p, t, n)
        PROVE  pipe.reader = q
    BY <1>0, <1>1, <2>3 DEF Creates, Opens, Closes, DuppedWriters, ClosedWriters, PipeTypes
  <2> QED
    BY <1>1, <2>1, <2>2, <2>3 DEF PipeMove
<1>2. ASSUME con'.reader = q PROVE con.reader = q \/ (pc'[q] = "console" /\ ~ready'[q])
  <2>1. ASSUME NEW p \in Pids, ConsoleReads(p)
        PROVE  con.reader = q \/ (pc'[q] = "console" /\ ~ready'[q])
    <3>1. ConsoleTurn(p)
      BY <2>1 DEF ConsoleReads, ConsoleRead, ConsoleReadAgain
    <3>2. CASE con' = [con EXCEPT !.bytes = @ - 1] \/ con' = con
      BY <1>0, <1>2, <3>2 DEF ConsoleTypes
    <3>3. CASE /\ con' = [con EXCEPT !.reader = p]
               /\ ready' = [ready EXCEPT ![p] = FALSE] /\ Blocks(p, "console")
      BY <1>0, <1>2, <3>3 DEF ConsoleTypes, Blocks
    <3> QED
      BY <3>1, <3>2, <3>3 DEF ConsoleTurn
  <2>2. CASE Handover
    BY <1>0, <1>2, <2>2 DEF Handover, Foreground, ConsoleTypes
  <2>3. CASE Keyed
    BY <1>0, <1>2, <2>3 DEF Keyed, ConsoleTypes
  <2> QED
    BY <2>1, <2>2, <2>3 DEF ConsoleMove
<1> QED
  BY <1>1, <1>2

(***************************************************************************)
(* Who is registered sleeps or is about to end, after any step.            *)
(***************************************************************************)
LEMMA RegisteredKept ==
  ASSUME Shape, Shape', SignalsInv, RegisteredInv, SuspendedInv, \A q \in Pids : SignalMove(q),
         \A q \in Pids : ThreadMove(q), PipeShape, ConsoleInv, PipeMove, ConsoleMove
  PROVE  RegisteredInv'
<1>0. SUFFICES ASSUME NEW q \in Pids
               PROVE  /\ signalThread'[q] => pc'[q] \in {"wait4", "read"}
                      /\ waitThread'[q] => Asleep(q, "wait4")' \/ Doomed(q)'
                      /\ pipe'.reader = q => Asleep(q, "read")' \/ Doomed(q)'
                      /\ con'.reader = q => Asleep(q, "console")'
  BY DEF RegisteredInv
<1>1. /\ pc[q] \in Places /\ ready[q] \in BOOLEAN /\ ready'[q] \in BOOLEAN /\ q # 0
      /\ signalThread[q] \in BOOLEAN /\ waitThread[q] \in BOOLEAN
  BY PidNumbers DEF Shape
<1>2. /\ SIGKILL \in Deliverable(sig[q]) => SIGKILL \in Deliverable(sig'[q])
      /\ SIGKILL \in sig'[q].pending => SIGKILL \in Deliverable(sig'[q])
      /\ SIGKILL \in Deliverable(sig[q]) => SIGKILL \in sig[q].pending
  BY SignalsKept DEF Deliverable
<1>3. /\ signalThread[q] => pc[q] \in {"wait4", "read"}
      /\ waitThread[q] => Asleep(q, "wait4") \/ Doomed(q)
      /\ pipe.reader = q => Asleep(q, "read") \/ Doomed(q)
      /\ con.reader = q => Asleep(q, "console")
      /\ status[q] = "none" => pc[q] = "none"
      /\ \A c \in Pids : status[c] = "running" /\ vforkParent[c] = q => Asleep(q, "clone")
  BY <1>1 DEF RegisteredInv, SuspendedInv
<1>4. /\ pipe'.reader = q => pipe.reader = q \/ (pc'[q] = "read" /\ ~ready'[q])
      /\ con'.reader = q => con.reader = q \/ (pc'[q] = "console" /\ ~ready'[q])
  BY SlotsTaken
<1>5. (LooksOn(q) \/ Acts(q)) /\ (ready'[q] => ready[q] \/ Woken(q))
  BY DEF ThreadMove
<1>6. Doomed(q) => Doomed(q)'
  BY <1>2, <1>5 DEF Doomed, LooksOn, Acts
<1>7. signalThread'[q] => pc'[q] \in {"wait4", "read"}
  BY <1>3, <1>5 DEF LooksOn, Acts
<1>8. ASSUME Acts(q), NEW at, Asleep(q, at), at \in {"wait4", "read", "console"} PROVE FALSE
  BY <1>8 DEF Acts, Asleep
<1>9. ASSUME LooksOn(q), Asleep(q, "wait4"), waitThread'[q] PROVE Asleep(q, "wait4")' \/ Doomed(q)'
  <2>1. CASE ~ready'[q]
    BY <1>9, <2>1 DEF LooksOn, Asleep
  <2>2. CASE ready'[q]
    <3>1. Woken(q) /\ pc[q] = "wait4"
      BY <1>5, <1>9, <2>2 DEF Asleep
    <3>2. CASE SIGKILL \in sig'[q].pending
      BY <1>2, <1>9, <3>1, <3>2 DEF Doomed, LooksOn
    <3>3. CASE pipe.reader = q
      BY <1>3, <1>6, <3>1, <3>3 DEF Asleep
    <3> QED
      BY <1>3, <1>9, <3>1, <3>2, <3>3 DEF Woken, Asleep
  <2> QED
    BY <2>1, <2>2
<1>10. ASSUME LooksOn(q), Asleep(q, "read"), pipe'.reader = q, pipe.reader = q
       PROVE  Asleep(q, "read")' \/ Doomed(q)'
  <2>1. CASE ~ready'[q]
    BY <1>10, <2>1 DEF LooksOn, Asleep
  <2>2. CASE ready'[q]
    <3>1. Woken(q) /\ pc[q] = "read"
      BY <1>5, <1>10, <2>2 DEF Asleep
    <3>2. CASE SIGKILL \in sig'[q].pending
      BY <1>2, <1>10, <3>1, <3>2 DEF Doomed, LooksOn
    <3>3. CASE waitThread[q]
      BY <1>3, <1>6, <3>1, <3>3 DEF Asleep
    <3> QED
      BY <1>3, <1>10, <3>1, <3>2, <3>3 DEF Woken, Asleep
  <2> QED
    BY <2>1, <2>2
<1>11. ASSUME LooksOn(q), Asleep(q, "console"), con'.reader = q, con.reader = q
       PROVE  Asleep(q, "console")'
  <2>1. pc[q] = "console" /\ ~Doomed(q) /\ ~ready[q]
    BY <1>11 DEF Doomed, Asleep
  <2>2. ~Woken(q)
    BY <1>3, <1>11, <2>1 DEF Woken, Asleep
  <2> QED
    BY <1>5, <1>11, <2>1, <2>2 DEF LooksOn, Asleep
<1>12. ASSUME waitThread'[q] PROVE Asleep(q, "wait4")' \/ Doomed(q)'
  <2>1. waitThread[q] \/ Asleep(q, "wait4")'
    BY <1>5, <1>12 DEF LooksOn, Acts, Asleep
  <2> QED
    BY <1>3, <1>5, <1>6, <1>8, <1>9, <1>12, <2>1
<1>13. ASSUME pipe'.reader = q PROVE Asleep(q, "read")' \/ Doomed(q)'
  <2>1. pipe.reader = q \/ Asleep(q, "read")'
    BY <1>4, <1>13 DEF Asleep
  <2> QED
    BY <1>3, <1>5, <1>6, <1>8, <1>10, <1>13, <2>1
<1>14. ASSUME con'.reader = q PROVE Asleep(q, "console")'
  <2>1. con.reader = q \/ Asleep(q, "console")'
    BY <1>4, <1>14 DEF Asleep
  <2> QED
    BY <1>3, <1>5, <1>8, <1>11, <1>14, <2>1
<1> QED
  BY <1>7, <1>12, <1>13, <1>14

(***************************************************************************)
(* Every step of the specification treats signals in one of these ways,    *)
(* where processes install no handlers.                                    *)
(***************************************************************************)
LEMMA SignalMoves ==
  ASSUME Shape, SignalsInv, ~May("handlers"), Next, NEW q \in Pids
  PROVE  SignalMove(q)
<1>0. sig \in [Pids -> SignalState]
  BY DEF Shape
<1>1. ASSUME sig'[q] = sig[q] PROVE SignalMove(q)
  BY <1>1 DEF SignalMove
<1>2. ASSUME NEW p \in Pids, ParentTold(p) PROVE SignalMove(q)
  <2>1. sig'[q] = sig[q] \/ sig'[q] = Queue(sig[q], SIGCHLD)
    BY <1>2, ToldTypes
  <2> QED
    BY <2>1 DEF SignalMove
<1>3. CASE Spawn \/ LaunchService \/ Key \/ PushInput \/ WakeBlockedReader
  BY <1>1, <1>3 DEF Spawn, LaunchService, SpawnProcess, Key, PushInput, WakeBlockedReader, procVars
<1>4. CASE CtrlC
  <2>1. sig'[q] = sig[q] \/ sig'[q] = Queue(sig[q], SIGINT)
    BY <1>0, <1>4 DEF CtrlC, SigintQueued, InTable
  <2> QED
    BY <2>1 DEF SignalMove
<1>5. ASSUME NEW p \in Pids,
             \/ Clone(p) \/ Execve(p) \/ Wait4(p) \/ Wait4Again(p) \/ CloneReturns(p)
             \/ FileRead(p) \/ ExecveFails(p) \/ ExecveSucceeds(p) \/ Dies(p) \/ YieldReturns(p)
      PROVE  SignalMove(q)
  BY <1>1, <1>5 DEF Clone, Execve, Wait4, Wait4Again, Wait4Unchanged, CloneReturns, FileRead,
     ExecveFails, ExecveSucceeds, Dies, YieldReturns, procVars
<1>6. ASSUME NEW p \in Pids,
             \/ Pipe2(p) \/ Close(p) \/ Dup2(p) \/ SetCloexec(p) \/ Read(p) \/ ReadAgain(p)
             \/ Write(p) \/ ConsoleRead(p) \/ ConsoleReadAgain(p) \/ WaitAndReap(p)
      PROVE  SignalMove(q)
  BY <1>1, <1>6 DEF Pipe2, Close, Dup2, SetCloexec, Read, ReadAgain, Write, FdUnchanged,
     ConsoleRead, ConsoleReadAgain, WaitAndReap
<1>7. ASSUME NEW p \in Pids, Exit(p) \/ ReturnTerminates(p) PROVE SignalMove(q)
  BY <1>2, <1>7 DEF Exit, ReturnTerminates, Terminate
<1>8. ASSUME NEW p \in Pids, Fault(p) PROVE SignalMove(q)
  <2>1. sig[p].actions[SIGSEGV] = "SIG_DFL"
    BY DEF SignalsInv, Signals
  <2>2. KillUserProcess(p)
    BY <1>8, <2>1 DEF Fault
  <2> QED
    BY <1>2, <2>2 DEF KillUserProcess
<1>9. ASSUME NEW p \in Pids, Return(p) PROVE SignalMove(q)
  <2>1. CASE q = p
    BY <1>9, <2>1, KilledEnds
  <2>2. CASE q # p
    BY <1>0, <1>1, <1>9, <2>2 DEF Return, CheckPendingSignals, procVars
  <2> QED
    BY <2>1, <2>2
<1>10. ASSUME NEW p \in Pids, Sigreturn(p) \/ Sigaction(p) PROVE SignalMove(q)
  BY <1>10 DEF Sigreturn, Sigaction, SignalCall, Enters
<1>11. ASSUME NEW p \in Pids, Sigprocmask(p) PROVE SignalMove(q)
  <2>1. PICK how \in {"SIG_BLOCK", "SIG_UNBLOCK", "SIG_SETMASK"} :
           sig' = [sig EXCEPT ![p] = SetMask(sig[p], how, {SIGINT, SIGKILL})]
    BY <1>11 DEF Sigprocmask, SignalCall
  <2>2. sig'[q] = sig[q] \/ sig'[q] = SetMask(sig[q], how, {SIGINT, SIGKILL})
    BY <1>0, <2>1
  <2> QED
    BY <2>2 DEF SignalMove
<1>12. ASSUME NEW p \in Pids, Kill(p) PROVE SignalMove(q)
  <2>1. PICK u \in Pids, s \in {SIGINT, SIGKILL} : sig' = [sig EXCEPT ![u] = Queue(sig[u], s)]
    BY <1>0, <1>12 DEF Kill, InTable
  <2>2. sig'[q] = sig[q] \/ sig'[q] = Queue(sig[q], s)
    BY <1>0, <2>1
  <2> QED
    BY <2>2 DEF SignalMove
<1> QED
  BY <1>3, <1>4, <1>5, <1>6, <1>7, <1>8, <1>9, <1>10, <1>11, <1>12
     DEF Next, Handled, SystemCall, Proceed

(***************************************************************************)
(* Every step of the specification moves and wakes threads in one of these *)
(* ways, where processes install no handlers.                              *)
(***************************************************************************)
LEMMA ThreadMoves ==
  ASSUME Shape, FamilyInv, SignalsInv, SuspendedInv, PipeShape, ConsoleInv, ~May("handlers"), Next
  PROVE  \A q \in Pids : ThreadMove(q)
<1>0. /\ status \in [Pids -> {"none", "running", "zombie", "reaped"}]
      /\ vforkParent \in [Pids -> 0 .. MaxPid]
      /\ waitThread \in [Pids -> BOOLEAN] /\ signalThread \in [Pids -> BOOLEAN]
      /\ ready \in [Pids -> BOOLEAN] /\ pc \in [Pids -> Places] /\ sig \in [Pids -> SignalState]
      /\ pipe \in PipeTypes /\ con \in ConsoleTypes
      /\ \A q \in Pids : q # 0 /\ (status[q] = "none" => pc[q] = "none")
  BY PidNumbers DEF Shape, PipeShape, ConsoleInv, SuspendedInv
<1>1. ASSUME NEW p \in Pids, NEW at, pc' = [pc EXCEPT ![p] = at]
      PROVE  pc'[p] = at /\ \A q \in Pids \ {p} : pc'[q] = pc[q]
  BY <1>0, <1>1
\* A thread goes on in a system call that wakes nobody.
<1>2. ASSUME NEW p \in Pids, NEW at, pc' = [pc EXCEPT ![p] = at],
             UNCHANGED <<status, waitThread, signalThread>>,
             pc[p] \notin {"none", "wait4", "read"}, ready[p] \/ pc[p] = "return",
             pc[p] = "return" => SIGKILL \notin sig[p].pending,
             pc[p] = "dead" => at = "dead", pc[p] = "dying" => at = "dead"
      PROVE  \A q \in Pids : LooksOn(q) \/ Acts(q)
  <2>1. Acts(p)
    BY <1>0, <1>1, <1>2 DEF Acts
  <2>2. \A q \in Pids \ {p} : LooksOn(q)
    BY <1>1, <1>2 DEF LooksOn
  <2> QED
    BY <2>1, <2>2
<1>3. ASSUME NEW S, ready' = Unblocked(S), NEW q \in Pids, ready'[q]
      PROVE  ready[q] \/ q \in S
  BY <1>3 DEF Unblocked
<1>4. ASSUME NEW n, pipe' = ClosedWriters(n), NEW q \in Pids, q \in WokenByClose(n) PROVE Woken(q)
  <2>1. n > 0 /\ pipe.writer_count = n /\ pipe.reader = q
    BY <1>4 DEF WokenByClose, Slot
  <2>2. pipe'.reader = 0
    BY <1>0, <1>4, <2>1 DEF ClosedWriters, PipeTypes
  <2> QED
    BY <1>0, <2>1, <2>2 DEF Woken
<1>5. ASSUME MayCreate, SpawnProcess(NextPid) PROVE \A q \in Pids : ThreadMove(q)
  <2> DEFINE c == NextPid
  <2>1. c \in Pids /\ status[c] = "none"
    BY <1>5, NewPid
  <2>2. /\ pc' = [pc EXCEPT ![c] = "user"] /\ ready' = [ready EXCEPT ![c] = TRUE]
        /\ UNCHANGED <<waitThread, signalThread>> /\ status' = [ReapZombies EXCEPT ![c] = "running"]
    BY <1>5 DEF SpawnProcess
  <2> HIDE DEF c
  <2>3. status'[c] = "running"
    BY <2>1, <2>2 DEF ReapZombies
  <2>4. Acts(c) /\ Woken(c)
    BY <1>0, <1>1, <2>1, <2>2, <2>3 DEF Acts, Woken
  <2>5. \A q \in Pids \ {c} : LooksOn(q) /\ ready'[q] = ready[q]
    BY <1>0, <1>1, <2>1, <2>2 DEF LooksOn
  <2> QED
    BY <2>4, <2>5 DEF ThreadMove
<1>6. CASE Spawn \/ LaunchService
  BY <1>5, <1>6 DEF Spawn, LaunchService
<1>7. CASE Key \/ Handled
  <2>1. UNCHANGED <<pc, waitThread, signalThread>>
    BY <1>7 DEF Key, Handled, PushInput, CtrlC, WakeBlockedReader, ConsoleUnchanged, procVars,
       threadVars
  <2>2. CASE Key \/ CtrlC
    BY <2>1, <2>2 DEF Key, CtrlC, threadVars, ThreadMove, LooksOn
  <2>3. CASE PushInput \/ WakeBlockedReader
    <3>1. ready' = Unblocked(Slot(con.reader)) /\ con'.reader = 0
      BY <1>0, <2>3 DEF PushInput, WakeBlockedReader, ConsoleTypes
    <3>2. ASSUME NEW q \in Pids, q \in Slot(con.reader) PROVE Woken(q)
      BY <1>0, <3>1, <3>2 DEF Woken, Slot
    <3> QED
      BY <1>3, <2>1, <3>1, <3>2 DEF ThreadMove, LooksOn
  <2> QED
    BY <1>7, <2>2, <2>3 DEF Handled
<1>8. ASSUME NEW p \in Pids, Clone(p) PROVE \A q \in Pids : ThreadMove(q)
  <2> DEFINE c == NextPid
  <2>1. /\ c \in Pids /\ status[c] = "none" /\ status[p] = "running" /\ p # c
        /\ pc[p] = "user" /\ ready[p]
        /\ status' = [status EXCEPT ![c] = "running"]
        /\ pc' = [pc EXCEPT ![p] = "clone", ![c] = "user"]
        /\ ready' = [ready EXCEPT ![p] = FALSE, ![c] = TRUE]
        /\ UNCHANGED <<waitThread, signalThread>>
    BY <1>8, NewPid DEF Clone, Enters
  <2> HIDE DEF c
  <2>2. status'[p] = "running" /\ status'[c] = "running"
    BY <1>0, <2>1
  <2>3. /\ pc'[p] = "clone" /\ pc'[c] = "user" /\ ready'[p] = FALSE
        /\ \A q \in Pids \ {p, c} : pc'[q] = pc[q] /\ ready'[q] = ready[q]
    BY <1>0, <2>1
  <2>4. Acts(p) /\ Acts(c) /\ Woken(c)
    BY <1>0, <2>1, <2>2, <2>3 DEF Acts, Woken
  <2>5. \A q \in Pids \ {p, c} : LooksOn(q)
    BY <2>1, <2>3 DEF LooksOn
  <2> QED
    BY <2>3, <2>4, <2>5 DEF ThreadMove
<1>9. ASSUME NEW p \in Pids,
             \/ CloneReturns(p) \/ ExecveFails(p) \/ Dies(p) \/ YieldReturns(p) \/ Execve(p)
      PROVE  \A q \in Pids : ThreadMove(q)
  <2>1. /\ UNCHANGED <<status, waitThread, signalThread>> /\ ready[p]
        /\ pc[p] \in {"clone", "vfs", "dying", "yielded", "user"}
        /\ \E at : pc' = [pc EXCEPT ![p] = at] /\ (pc[p] = "dying" => at = "dead")
    BY <1>9 DEF CloneReturns, ExecveFails, Dies, YieldReturns, Execve, Resumes, Enters,
       ToReturn, Blocks, procVars
  <2>2. \A q \in Pids : ready'[q] => ready[q]
    BY <1>0, <1>9 DEF CloneReturns, ExecveFails, Dies, YieldReturns, Execve
  <2> QED
    BY <1>2, <2>1, <2>2 DEF ThreadMove
<1>10. ASSUME NEW p \in Pids, Return(p) PROVE \A q \in Pids : ThreadMove(q)
  <2>1. /\ pc' = [pc EXCEPT ![p] = "user"] /\ pc[p] = "return"
        /\ UNCHANGED <<status, waitThread, signalThread, ready>>
    BY <1>10 DEF Return, CheckPendingSignals, procVars
  <2>2. SIGKILL \notin sig[p].pending
    BY <1>10, KilledEnds
  <2> QED
    BY <1>2, <2>1, <2>2 DEF ThreadMove
<1>11. ASSUME NEW p \in Pids,
              \/ Sigreturn(p) \/ Sigaction(p) \/ Sigprocmask(p) \/ Pipe2(p) \/ Dup2(p)
              \/ SetCloexec(p)
       PROVE  \A q \in Pids : ThreadMove(q)
  <2>1. /\ pc' = [pc EXCEPT ![p] = "return"] /\ pc[p] = "user" /\ ready[p]
        /\ UNCHANGED <<status, waitThread, signalThread, ready>>
    BY <1>11 DEF Sigreturn, Sigaction, Sigprocmask, SignalCall, Pipe2, Dup2, SetCloexec,
       FdUnchanged, Enters, ToReturn
  <2> QED
    BY <1>2, <2>1 DEF ThreadMove
<1>12. ASSUME NEW p \in Pids, FileRead(p) PROVE \A q \in Pids : ThreadMove(q)
  <2>1. /\ UNCHANGED <<pc, waitThread, signalThread>> /\ ready' = Unblocked({p}) /\ pc[p] = "vfs"
    BY <1>12 DEF FileRead, procVars
  <2> QED
    BY <1>3, <2>1 DEF ThreadMove, LooksOn, Woken
<1>13. ASSUME NEW p \in Pids, ExecveSucceeds(p) PROVE \A q \in Pids : ThreadMove(q)
  <2>1. PICK n : pipe' = ClosedWriters(n)
                 /\ ready' = Unblocked(WokenByClose(n) \cup Slot(vforkParent[p]))
    BY <1>13 DEF ExecveSucceeds
  <2>2. /\ pc' = [pc EXCEPT ![p] = "user"] /\ pc[p] = "vfs" /\ ready[p]
        /\ UNCHANGED <<status, waitThread, signalThread>>
        /\ vforkParent' = [vforkParent EXCEPT ![p] = 0]
    BY <1>13 DEF ExecveSucceeds, Resumes
  <2>3. ASSUME NEW q \in Pids, q \in Slot(vforkParent[p]) PROVE Woken(q)
    <3>1. status[p] = "running" /\ vforkParent[p] = q /\ vforkParent'[p] = 0
      BY <1>0, <2>2, <2>3 DEF FamilyInv, Alive, Slot
    <3> QED
      BY <3>1 DEF Woken
  <2>4. \A q \in Pids : ready'[q] => ready[q] \/ Woken(q)
    BY <1>3, <1>4, <2>1, <2>3
  <2> QED
    BY <1>2, <2>2, <2>4 DEF ThreadMove
<1>14. ASSUME NEW p \in Pids, ParentTold(p), NEW q \in Pids, q \in WaitingParent(p)
       PROVE  Woken(q)
  <2>1. q = parent[p] /\ InTable(q) /\ waitThread[q]
    BY <1>14 DEF WaitingParent
  <2>2. waitThread' = [waitThread EXCEPT ![q] = FALSE]
    BY <1>14, <2>1 DEF ParentTold
  <2> QED
    BY <1>0, <2>1, <2>2 DEF Woken
<1>15. ASSUME NEW p \in Pids, ParentTold(p), NEW q \in Pids, waitThread'[q]
       PROVE  waitThread[q]
  BY <1>0, <1>15, ToldTypes DEF WaitingParent
<1>16. ASSUME NEW p \in Pids, NEW at \in {"dying", "dead"}, pc' = [pc EXCEPT ![p] = at],
              pc[p] = "user" \/ (pc[p] = "return" /\ at = "dying"), ready[p] \/ pc[p] = "return",
              status' = [status EXCEPT ![p] = "zombie"], signalThread' = signalThread, ParentTold(p)
       PROVE  \A q \in Pids : LooksOn(q) \/ Acts(q)
  <2>1. status'[p] = "zombie"
    BY <1>0, <1>16
  <2>2. Acts(p)
    BY <1>1, <1>15, <1>16, <2>1 DEF Acts
  <2>3. \A q \in Pids \ {p} : LooksOn(q)
    BY <1>1, <1>15, <1>16 DEF LooksOn
  <2> QED
    BY <2>2, <2>3
<1>17. ASSUME NEW p \in Pids, Exit(p) \/ ReturnTerminates(p) PROVE \A q \in Pids : ThreadMove(q)
  <2>1. Terminate(p) /\ ((pc[p] = "user" /\ ready[p]) \/ pc[p] = "return")
    BY <1>17 DEF Exit, ReturnTerminates, Enters
  <2>2. PICK n : pipe' = ClosedWriters(n)
                 /\ ready' = Unblocked(Slot(vforkParent[p]) \cup WokenByClose(n) \cup WaitingParent(p))
    BY <2>1 DEF Terminate, VforkRelease
  <2>3. /\ pc' = [pc EXCEPT ![p] = "dying"] /\ status' = [status EXCEPT ![p] = "zombie"]
        /\ signalThread' = signalThread /\ ParentTold(p)
        /\ vforkParent' = [vforkParent EXCEPT ![p] = 0]
    BY <2>1 DEF Terminate
  <2>4. ASSUME NEW q \in Pids, q \in Slot(vforkParent[p]) PROVE Woken(q)
    <3>1. status[p] = "running" /\ vforkParent[p] = q /\ vforkParent'[p] = 0
      BY <1>0, <2>1, <2>3, <2>4 DEF FamilyInv, Alive, Slot
    <3> QED
      BY <3>1 DEF Woken
  <2>5. ASSUME NEW q \in Pids, ready'[q] PROVE ready[q] \/ Woken(q)
    <3>1. ready[q] \/ q \in Slot(vforkParent[p]) \cup WokenByClose(n) \cup WaitingParent(p)
      BY <1>3, <2>2, <2>5
    <3>2. q \in WokenByClose(n) => Woken(q)
      BY <1>4, <2>2
    <3>3. q \in WaitingParent(p) => Woken(q)
      BY <1>14, <2>3
    <3> QED
      BY <2>4, <3>1, <3>2, <3>3
  <2>6. \A q \in Pids : LooksOn(q) \/ Acts(q)
    BY <1>16, <2>1, <2>3
  <2> QED
    BY <2>5, <2>6 DEF ThreadMove
<1>18. ASSUME NEW p \in Pids, Fault(p) PROVE \A q \in Pids : ThreadMove(q)
  <2>1. CASE KillUserProcess(p)
    <3>1. /\ pc' = [pc EXCEPT ![p] = "dead"] /\ status' = [status EXCEPT ![p] = "zombie"]
          /\ signalThread' = signalThread /\ ParentTold(p) /\ pc[p] = "user" /\ ready[p]
          /\ ready' = Unblocked(WaitingParent(p))
      BY <1>18, <2>1 DEF Fault, KillUserProcess
    <3>2. \A q \in Pids : ready'[q] => ready[q] \/ Woken(q)
      BY <1>3, <1>14, <3>1
    <3>3. \A q \in Pids : LooksOn(q) \/ Acts(q)
      BY <1>16, <3>1
    <3> QED
      BY <3>2, <3>3 DEF ThreadMove
  <2>2. CASE ~KillUserProcess(p)
    <3>1. UNCHANGED <<pc, ready, waitThread, signalThread>>
      BY <1>18, <2>2 DEF Fault
    <3> QED
      BY <3>1 DEF ThreadMove, LooksOn
  <2> QED
    BY <2>1, <2>2
<1>19. ASSUME NEW p \in Pids, Wait4(p) \/ Wait4Again(p) PROVE \A q \in Pids : ThreadMove(q)
  <2>1. PICK t : Wait4Turn(p, t)
    BY <1>19 DEF Wait4, Wait4Again
  <2>2. ready[p] /\ pc[p] \in {"user", "wait4"}
    BY <1>19 DEF Wait4, Wait4Again, Enters, Resumes
  <2>3. status'[p] # "none"
    <3>1. Kind
      BY Kinds
    <3>2. status[p] # "none"
      BY <1>0, <2>2
    <3> QED
      BY <1>0, <3>1, <3>2 DEF Kind, Calm, Sleeps, Forks, Born, Ends, Reaped
  <2>4. CASE /\ pc' = [pc EXCEPT ![p] = "return"]
             /\ signalThread' = [signalThread EXCEPT ![p] = FALSE] /\ UNCHANGED <<waitThread, ready>>
    <3>1. /\ signalThread'[p] = FALSE
          /\ \A q \in Pids \ {p} : signalThread'[q] = signalThread[q]
      BY <1>0, <2>4
    <3>2. Acts(p) /\ \A q \in Pids \ {p} : LooksOn(q)
      BY <1>1, <2>2, <2>3, <2>4, <3>1 DEF Acts, LooksOn
    <3> QED
      BY <2>4, <3>2 DEF ThreadMove
  <2>5. CASE /\ pc' = [pc EXCEPT ![p] = "wait4"]
             /\ signalThread' = [signalThread EXCEPT ![p] = TRUE]
             /\ waitThread' = [waitThread EXCEPT ![p] = TRUE]
             /\ ready' = [ready EXCEPT ![p] = FALSE]
    <3>1. /\ ready'[p] = FALSE
          /\ \A q \in Pids \ {p} : /\ signalThread'[q] = signalThread[q]
                                   /\ waitThread'[q] = waitThread[q] /\ ready'[q] = ready[q]
      BY <1>0, <2>5
    <3>2. Acts(p) /\ \A q \in Pids \ {p} : LooksOn(q)
      BY <1>1, <2>2, <2>3, <2>5, <3>1 DEF Acts, LooksOn
    <3> QED
      BY <3>1, <3>2 DEF ThreadMove
  <2> QED
    BY <2>1, <2>4, <2>5 DEF Wait4Turn, ToReturn, Blocks
<1>20. ASSUME NEW p \in Pids, Kill(p) PROVE \A q \in Pids : ThreadMove(q)
  <2>1. PICK u \in Pids : /\ sig' = [sig EXCEPT ![u] = Queue(sig[u], SIGKILL)]
                          /\ ready' = Unblocked(Interrupts(u))
    BY <1>20 DEF Kill, InTable
  <2>2. /\ pc' = [pc EXCEPT ![p] = "return"] /\ pc[p] = "user" /\ ready[p]
        /\ UNCHANGED <<status, waitThread, signalThread>>
    BY <1>20 DEF Kill, Enters, ToReturn
  <2>3. SIGKILL \in sig'[u].pending
    BY <1>0, <2>1 DEF Queue, SignalState
  <2>4. ASSUME NEW q \in Pids, q \in Interrupts(u) PROVE Woken(q)
    BY <2>3, <2>4 DEF Interrupts, Woken
  <2>5. \A q \in Pids : ready'[q] => ready[q] \/ Woken(q)
    BY <1>3, <2>1, <2>4
  <2> QED
    BY <1>2, <2>2, <2>5 DEF ThreadMove
<1>21. ASSUME NEW p \in Pids, Close(p) \/ Write(p) PROVE \A q \in Pids : ThreadMove(q)
  <2>1. /\ \E at : pc' = [pc EXCEPT ![p] = at]
        /\ pc[p] = "user" /\ ready[p] /\ UNCHANGED <<status, waitThread, signalThread>>
    BY <1>21 DEF Close, Write, FdUnchanged, Enters, YieldsIf, ToReturn
  <2>2. ASSUME NEW q \in Pids, ready'[q] PROVE ready[q] \/ Woken(q)
    <3>1. CASE Close(p)
      <4>1. PICK n : pipe' = ClosedWriters(n) /\ ready' = Unblocked(WokenByClose(n))
        BY <3>1 DEF Close
      <4> QED
        BY <1>3, <1>4, <2>2, <4>1
    <3>2. CASE Write(p)
      <4>1. ready' = Unblocked(Slot(pipe.reader)) /\ pipe'.reader = 0
        BY <1>0, <3>2 DEF Write, PipeTypes
      <4>2. ASSUME q \in Slot(pipe.reader) PROVE Woken(q)
        BY <1>0, <4>1, <4>2 DEF Slot, Woken
      <4> QED
        BY <1>3, <2>2, <4>1, <4>2
    <3> QED
      BY <1>21, <3>1, <3>2
  <2> QED
    BY <1>2, <2>1, <2>2 DEF ThreadMove
<1>22. ASSUME NEW p \in Pids, Read(p) \/ ReadAgain(p) PROVE \A q \in Pids : ThreadMove(q)
  <2>1. ReadTurn(p) /\ ready[p] /\ pc[p] \in {"user", "read"} /\ UNCHANGED <<status, waitThread>>
    BY <1>22 DEF Read, ReadAgain, Enters, Resumes, FdUnchanged
  <2>2. status'[p] # "none"
    BY <1>0, <2>1
  <2>3. CASE /\ pc' = [pc EXCEPT ![p] = "return"]
             /\ signalThread' = [signalThread EXCEPT ![p] = FALSE] /\ UNCHANGED ready
    <3>1. /\ signalThread'[p] = FALSE
          /\ \A q \in Pids \ {p} : signalThread'[q] = signalThread[q]
      BY <1>0, <2>3
    <3>2. Acts(p) /\ \A q \in Pids \ {p} : LooksOn(q)
      BY <1>1, <2>1, <2>2, <2>3, <3>1 DEF Acts, LooksOn
    <3> QED
      BY <2>3, <3>2 DEF ThreadMove
  <2>4. CASE /\ pc' = [pc EXCEPT ![p] = "read"]
             /\ signalThread' = [signalThread EXCEPT ![p] = TRUE]
             /\ ready' = [ready EXCEPT ![p] = FALSE]
    <3>1. /\ ready'[p] = FALSE
          /\ \A q \in Pids \ {p} : signalThread'[q] = signalThread[q] /\ ready'[q] = ready[q]
      BY <1>0, <2>4
    <3>2. Acts(p) /\ \A q \in Pids \ {p} : LooksOn(q)
      BY <1>1, <2>1, <2>2, <2>4, <3>1 DEF Acts, LooksOn
    <3> QED
      BY <3>1, <3>2 DEF ThreadMove
  <2> QED
    BY <2>1, <2>3, <2>4 DEF ReadTurn, ToReturn, Blocks
<1>23. ASSUME NEW p \in Pids, ConsoleRead(p) \/ ConsoleReadAgain(p)
       PROVE  \A q \in Pids : ThreadMove(q)
  <2>1. /\ ConsoleTurn(p) /\ ready[p] /\ pc[p] \in {"user", "console"}
        /\ UNCHANGED <<status, waitThread, signalThread>>
    BY <1>23 DEF ConsoleRead, ConsoleReadAgain, Enters, Resumes, ConsoleUnchanged
  <2>2. \E at : pc' = [pc EXCEPT ![p] = at]
    BY <2>1 DEF ConsoleTurn, ToReturn, Blocks
  <2>3. \A q \in Pids : ready'[q] => ready[q]
    BY <1>0, <2>1 DEF ConsoleTurn
  <2> QED
    BY <1>2, <2>1, <2>2, <2>3 DEF ThreadMove
<1>24. ASSUME NEW p \in Pids, WaitAndReap(p) PROVE \A q \in Pids : ThreadMove(q)
  BY <1>24 DEF WaitAndReap, threadVars, ThreadMove, LooksOn
<1> QED
  BY <1>6, <1>7, <1>8, <1>9, <1>10, <1>11, <1>12, <1>13, <1>17, <1>18, <1>19, <1>20, <1>21,
     <1>22, <1>23, <1>24 DEF Next, SystemCall, Proceed

(***************************************************************************)
(* How a step changes the ties between a vfork child and its parent.       *)
(***************************************************************************)
Ties ==
  \/ UNCHANGED <<shared, vforkParent>>
  \/ \E p \in Pids : /\ shared' = shared /\ vforkParent' = [vforkParent EXCEPT ![p] = 0]
                     /\ status'[p] = "zombie"
  \/ \E p \in Pids : /\ shared' = [shared EXCEPT ![p] = FALSE]
                     /\ vforkParent' = [vforkParent EXCEPT ![p] = 0]

(***************************************************************************)
(* clone makes such a tie; execve, exit and deadly signals cut it.         *)
(***************************************************************************)
LEMMA TiesMove ==
  ASSUME Shape, Next, \A p \in Pids : ~Clone(p)
  PROVE  Ties /\ UNCHANGED parent
<1>1. ASSUME UNCHANGED <<shared, vforkParent, parent>> PROVE Ties /\ UNCHANGED parent
  BY <1>1 DEF Ties
<1>2. CASE Spawn \/ LaunchService \/ Key \/ Handled
  BY <1>1, <1>2 DEF Spawn, LaunchService, SpawnProcess, Key, Handled, PushInput, CtrlC,
     WakeBlockedReader, ConsoleUnchanged, procVars
<1>3. ASSUME NEW p \in Pids,
             \/ Execve(p) \/ Wait4(p) \/ Sigreturn(p) \/ Sigaction(p) \/ Sigprocmask(p)
             \/ Kill(p) \/ ConsoleRead(p)
      PROVE  Ties /\ UNCHANGED parent
  BY <1>1, <1>3 DEF Execve, Wait4, Wait4Unchanged, Sigreturn, Sigaction, Sigprocmask, SignalCall,
     Kill, ConsoleRead, ConsoleUnchanged, procVars
<1>4. ASSUME NEW p \in Pids,
             \/ CloneReturns(p) \/ FileRead(p) \/ ExecveFails(p) \/ Dies(p) \/ Wait4Again(p)
             \/ Return(p) \/ YieldReturns(p) \/ ConsoleReadAgain(p)
      PROVE  Ties /\ UNCHANGED parent
  BY <1>1, <1>4 DEF CloneReturns, FileRead, ExecveFails, Dies, Wait4Again, Wait4Unchanged,
     Return, CheckPendingSignals, YieldReturns, ConsoleReadAgain, ConsoleUnchanged, procVars
<1>5. ASSUME NEW p \in Pids,
             \/ Pipe2(p) \/ Close(p) \/ Dup2(p) \/ SetCloexec(p) \/ Read(p) \/ ReadAgain(p)
             \/ Write(p) \/ Fault(p) \/ WaitAndReap(p)
      PROVE  Ties /\ UNCHANGED parent
  BY <1>1, <1>5 DEF Pipe2, Close, Dup2, SetCloexec, Read, ReadAgain, Write, FdUnchanged, Fault,
     KillUserProcess, WaitAndReap
<1>6. ASSUME NEW p \in Pids, Exit(p) \/ ReturnTerminates(p) PROVE Ties /\ UNCHANGED parent
  <2>1. /\ shared' = shared /\ vforkParent' = [vforkParent EXCEPT ![p] = 0] /\ parent' = parent
        /\ status' = [status EXCEPT ![p] = "zombie"]
    BY <1>6 DEF Exit, ReturnTerminates, Terminate
  <2>2. status'[p] = "zombie"
    BY <2>1 DEF Shape
  <2> QED
    BY <2>1, <2>2 DEF Ties
<1>7. ASSUME NEW p \in Pids, ExecveSucceeds(p) PROVE Ties /\ UNCHANGED parent
  BY <1>7 DEF ExecveSucceeds, Ties
<1> QED
  BY <1>2, <1>3, <1>4, <1>5, <1>6, <1>7 DEF Next, SystemCall, Proceed

(***************************************************************************)
(* The parent of a vfork child stays asleep until the tie is cut.          *)
(***************************************************************************)
LEMMA SuspendedKept ==
  ASSUME Shape, FamilyInv, RegisteredInv, SuspendedInv, shared \in [Pids -> BOOLEAN],
         \A q \in Pids : ThreadMove(q), Kind, Next
  PROVE  SuspendedInv'
<1>0. /\ status \in [Pids -> {"none", "running", "zombie", "reaped"}]
      /\ vforkParent \in [Pids -> 0 .. MaxPid] /\ parent \in [Pids -> 0 .. MaxPid]
      /\ pc \in [Pids -> Places] /\ ready \in [Pids -> BOOLEAN]
      /\ \A q \in Pids : vforkParent[q] # 0 => vforkParent[q] \in Pids
      /\ \A q \in Pids : q # 0
  <2>1. \A q \in Pids : vforkParent[q] \in 0 .. MaxPid
    BY DEF Shape
  <2> QED
    BY <2>1, PidNumbers DEF Shape
<1>1. \A q \in Pids : /\ status'[q] = "running" => status[q] \in {"running", "none"}
                      /\ status'[q] = "none" => status[q] = "none"
  BY <1>0 DEF Kind, Calm, Sleeps, Forks, Born, Ends, Reaped
<1>2. ASSUME NEW c \in Pids, status'[c] = "none" PROVE pc'[c] = "none"
  BY <1>1, <1>2 DEF SuspendedInv, ThreadMove, LooksOn, Acts
\* Who sleeps in clone goes on sleeping, unless its child lets it go.
<1>3. ASSUME NEW q \in Pids, Asleep(q, "clone"),
             \A c \in Pids : status[c] = "running" /\ vforkParent[c] = q => vforkParent'[c] = q
      PROVE  Asleep(q, "clone")'
  <2>1. pc[q] = "clone" /\ ~ready[q] /\ status[q] = "running"
    BY <1>3 DEF Asleep, FamilyInv, Alive
  <2>2. /\ ~waitThread[q] /\ ~signalThread[q] /\ pipe.reader # q /\ con.reader # q
    BY <2>1 DEF RegisteredInv, Asleep, Doomed
  <2>3. ~Woken(q)
    BY <1>0, <1>3, <2>1, <2>2 DEF Woken
  <2>4. LooksOn(q) /\ ~ready'[q]
    BY <2>1, <2>3 DEF ThreadMove, Acts
  <2> QED
    BY <2>1, <2>4 DEF LooksOn, Asleep
<1>4. ASSUME NEW p \in Pids, Clone(p) PROVE SuspendedInv'
  <2> DEFINE c == NextPid
  <2>1. /\ c \in Pids /\ status[c] = "none" /\ status[p] = "running" /\ p # c
        /\ pc[p] = "user"
        /\ status' = [status EXCEPT ![c] = "running"] /\ parent' = [parent EXCEPT ![c] = p]
        /\ vforkParent' = [vforkParent EXCEPT ![c] = p] /\ shared' = [shared EXCEPT ![c] = TRUE]
        /\ pc' = [pc EXCEPT ![p] = "clone", ![c] = "user"]
        /\ ready' = [ready EXCEPT ![p] = FALSE, ![c] = TRUE]
    BY <1>4, NewPid DEF Clone, Enters
  <2> HIDE DEF c
  <2>2. /\ status'[c] = "running" /\ parent'[c] = p /\ vforkParent'[c] = p /\ shared'[c] = TRUE
        /\ pc'[p] = "clone" /\ ready'[p] = FALSE
        /\ \A d \in Pids \ {c} : /\ status'[d] = status[d] /\ parent'[d] = parent[d]
                                 /\ vforkParent'[d] = vforkParent[d] /\ shared'[d] = shared[d]
    BY <1>0, <2>1
  <2>3. \A d \in Pids : status[d] = "running" => vforkParent[d] # p
    BY <1>0, <2>1 DEF SuspendedInv, Asleep
  <2>4. \A d \in Pids : status'[d] = "none" => ~shared'[d] /\ pc'[d] = "none"
    BY <1>2, <2>2 DEF SuspendedInv
  <2>5. \A d \in Pids : status'[d] = "running" /\ shared'[d] =>
                           parent'[d] # 0 /\ vforkParent'[d] = parent'[d]
    BY <1>0, <2>2 DEF SuspendedInv
  <2>6. ASSUME NEW d \in Pids, status'[d] = "running", vforkParent'[d] # 0
        PROVE  (pc'[vforkParent'[d]] = "clone" /\ ~ready'[vforkParent'[d]])
    <3>1. CASE d = c
      BY <2>2, <3>1
    <3>2. CASE d # c
      <4>1. PICK q \in Pids : Asleep(q, "clone") /\ vforkParent'[d] = q
        BY <1>0, <2>2, <2>6, <3>2 DEF SuspendedInv
      <4>2. \A e \in Pids : status[e] = "running" /\ vforkParent[e] = q => vforkParent'[e] = q
        BY <2>1, <2>2
      <4>3. Asleep(q, "clone")'
        BY <1>3, <4>1, <4>2
      <4> QED
        BY <4>1, <4>3 DEF Asleep
    <3> QED
      BY <3>1, <3>2
  <2>7. \A d, e \in Pids : status'[d] = "running" /\ status'[e] = "running" /\ vforkParent'[d] # 0
                              /\ vforkParent'[d] = vforkParent'[e] => d = e
    BY <2>2, <2>3 DEF SuspendedInv
  <2> QED
    BY <2>4, <2>5, <2>6, <2>7 DEF SuspendedInv, Asleep
<1>5. ASSUME \A p \in Pids : ~Clone(p) PROVE SuspendedInv'
  <2>1. Ties /\ UNCHANGED parent
    BY <1>5, TiesMove
  <2>2. \A d \in Pids : /\ shared'[d] => shared[d]
                        /\ \/ vforkParent'[d] = vforkParent[d]
                           \/ vforkParent'[d] = 0 /\ ~(shared'[d] /\ status'[d] = "running")
    BY <1>0, <2>1 DEF Ties
  <2>3. \A d \in Pids : status'[d] = "none" => ~shared'[d] /\ pc'[d] = "none"
    BY <1>1, <1>2, <2>2 DEF SuspendedInv
  <2>4. \A d \in Pids : status'[d] = "running" /\ shared'[d] =>
                           parent'[d] # 0 /\ vforkParent'[d] = parent'[d]
    BY <1>1, <2>1, <2>2 DEF SuspendedInv
  <2>5. \A d \in Pids : status'[d] = "running" /\ vforkParent'[d] # 0 =>
                           status[d] = "running" /\ vforkParent'[d] = vforkParent[d]
    BY <1>1, <2>2 DEF FamilyInv
  <2>6. \A d, e \in Pids : status'[d] = "running" /\ status'[e] = "running" /\ vforkParent'[d] # 0
                              /\ vforkParent'[d] = vforkParent'[e] => d = e
    BY <2>5 DEF SuspendedInv
  <2>7. ASSUME NEW d \in Pids, status'[d] = "running", vforkParent'[d] # 0
        PROVE  pc'[vforkParent'[d]] = "clone" /\ ~ready'[vforkParent'[d]]
    <3>1. PICK q \in Pids : /\ Asleep(q, "clone") /\ q # 0 /\ status[d] = "running"
                            /\ vforkParent[d] = q /\ vforkParent'[d] = q
      BY <1>0, <2>5, <2>7 DEF SuspendedInv
    <3>2. \A e \in Pids : status[e] = "running" /\ vforkParent[e] = q => e = d
      BY <3>1 DEF SuspendedInv
    <3>3. Asleep(q, "clone")'
      BY <1>3, <3>1, <3>2
    <3> QED
      BY <3>1, <3>3 DEF Asleep
  <2> QED
    BY <2>3, <2>4, <2>6, <2>7 DEF SuspendedInv, Asleep
<1> QED
  BY <1>4, <1>5

(***************************************************************************)
(* At the start there is no process.                                       *)
(***************************************************************************)
LEMMA VforkInitially ==
  ASSUME Init
  PROVE  VforkInv
<1>1. SignalsInv
  BY DEF Init, SignalsInv, NewSignalState
<1>2. RegisteredInv
  BY PidNumbers DEF Init, RegisteredInv
<1>3. SuspendedInv /\ shared \in [Pids -> BOOLEAN] /\ \A c \in Pids : ~shared[c]
  BY DEF Init, SuspendedInv
<1> QED
  BY <1>1, <1>2, <1>3, ConsoleInitially DEF VforkInv

(***************************************************************************)
(* Every step keeps vfork parents asleep.                                  *)
(***************************************************************************)
LEMMA VforkStep ==
  ASSUME ProcessInv, ProcessInv', PipeInv, VforkInv, [Next]_vars
  PROVE  VforkInv'
<1>0. Shape /\ Shape' /\ FamilyInv /\ PipeShape /\ WritersInv
  BY DEF ProcessInv, PipeInv
<1>1. CASE Next
  <2>1. workload' = workload
    BY <1>1, WorkloadFixed
  <2>2. shared' \in [Pids -> BOOLEAN]
    <3>1. CASE \A p \in Pids : ~Clone(p)
      BY <1>0, <1>1, <3>1, TiesMove DEF Ties, VforkInv
    <3>2. CASE \E p \in Pids : Clone(p)
      BY <3>2 DEF Clone, VforkInv
    <3> QED
      BY <3>1, <3>2
  <2>3. CASE May("clone") /\ NoHandlers
    <3>1. SignalsInv /\ ConsoleInv /\ RegisteredInv /\ SuspendedInv /\ shared \in [Pids -> BOOLEAN]
      BY <2>3 DEF VforkInv
    <3>2. ~May("handlers")
      BY <2>3 DEF NoHandlers
    <3>3. Kind /\ PipeMove /\ ConsoleMove
      BY <1>0, <1>1, <3>1, <3>2, Kinds, PipeMoves, ConsoleMoves
    <3>4. \A q \in Pids : SignalMove(q)
      BY <1>0, <1>1, <3>1, <3>2, SignalMoves
    <3>5. \A q \in Pids : ThreadMove(q)
      BY <1>0, <1>1, <3>1, <3>2, ThreadMoves
    <3>6. SignalsInv'
      BY <1>0, <3>1, <3>4, SignalsKept
    <3>7. ConsoleInv'
      BY <1>0, <3>1, <3>3, ConsoleKept
    <3>8. RegisteredInv'
      BY <1>0, <3>1, <3>3, <3>4, <3>5, RegisteredKept
    <3>9. SuspendedInv'
      BY <1>0, <1>1, <3>1, <3>3, <3>5, SuspendedKept
    <3> QED
      BY <2>1, <2>2, <2>3, <3>6, <3>7, <3>8, <3>9 DEF VforkInv, May
  <2>4. CASE ~May("clone")
    <3>1. shared \in [Pids -> BOOLEAN] /\ \A c \in Pids : ~shared[c]
      BY <2>4 DEF VforkInv
    <3>2. Ties
      BY <1>0, <1>1, <2>4, TiesMove DEF Clone, Enters
    <3>3. \A c \in Pids : ~shared'[c]
      BY <3>1, <3>2 DEF Ties
    <3> QED
      BY <2>1, <2>2, <2>4, <3>3 DEF VforkInv, May
  <2>5. CASE May("clone") /\ ~NoHandlers
    BY <2>1, <2>2, <2>5 DEF VforkInv, NoHandlers, May
  <2> QED
    BY <2>3, <2>4, <2>5
<1>2. CASE UNCHANGED vars
  <2>1. UNCHANGED <<status, parent, waitThread, signalThread, vforkParent, shared, sig, pc, ready,
                    pipe, con, kbd, killed, workload>>
    BY <1>2 DEF vars, procVars, threadVars
  <2> QED
    BY <2>1 DEF VforkInv, SignalsInv, ConsoleInv, RegisteredInv, SuspendedInv, Asleep, Doomed, May,
       NoHandlers
<1> QED
  BY <1>1, <1>2

(***************************************************************************)
(* sys_clone: where no program installs handlers, the parent of a vfork    *)
(* child that runs on its stack stays asleep in clone, whoever is killed,  *)
(* exits or wakes others meanwhile.                                        *)
(***************************************************************************)
THEOREM ParentSuspended == Spec => [](NoHandlers => VforkParentWaits)
<1>1. Init => VforkInv
  BY VforkInitially
<1>2. ProcessInv /\ ProcessInv' /\ PipeInv /\ VforkInv /\ [Next]_vars => VforkInv'
  BY VforkStep
<1>3. VforkInv => (NoHandlers => VforkParentWaits)
  BY DEF VforkInv, NoHandlers, SuspendedInv, VforkParentWaits
<1> QED
  BY <1>1, <1>2, <1>3, ProcessSafe, PipeSafe, PTL DEF Spec

=============================================================================
