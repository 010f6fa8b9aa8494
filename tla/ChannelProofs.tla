--------------------------- MODULE ChannelProofs ---------------------------
(***************************************************************************)
(* Safety of an IPC channel for any capacity and any number of messages:   *)
(* a blocked thread is registered, no message is lost or received twice,   *)
(* messages arrive in order, and a port operation stays registered.  The   *)
(* channel has one slot for a blocked sender and one for a blocked         *)
(* receiver, so these need one thread at each end.                         *)
(***************************************************************************)
EXTENDS Channel, QueueLemmas

OneEach ==
    /\ \A s, t \in Senders : s = t
    /\ \A s, t \in Receivers : s = t

(***************************************************************************)
(* A send through a port that shares its completions with another thread   *)
(* does not donate to the receiver it has handed its message to.  On a     *)
(* rendezvous channel the next send would then replace that message.       *)
(***************************************************************************)
RendezvousDonates == 0 \notin PortShared

(***************************************************************************)
(* Who is in which call: a sender in a send, a receiver in a receive; and  *)
(* a message not yet sent has no outcome.                                  *)
(***************************************************************************)
Sending(t) == call[t].fn \in {"send_block", "send_retry"}

CallsInv ==
    /\ \A t \in Threads :
          /\ Sending(t) => t \in Senders /\ call[t].msg \in 1 .. nmsgs
          /\ call[t].fn = "recv" => t \in Receivers
          /\ call[t].fn = "send_retry" => capacity > 0
    /\ \A m \in Msgs : m > nmsgs => outcome[m] = "unsent" /\ async[m] = None

(***************************************************************************)
(* The slots name blocked threads, and the message of a rendezvous is that *)
(* of the blocked sender or has been handed to the receiver that runs next.*)
(***************************************************************************)
SlotsInv ==
    /\ blocked_sender # None =>
          sched[blocked_sender] = "Blocked" /\ Sending(blocked_sender)
    /\ blocked_receiver # None => Blocked(blocked_receiver, "recv")
    /\ pending_send # None => capacity = 0
    /\ pending_send # None /\ ~recv_closed =>
          \/ \E t \in Senders : Blocked(t, "send_block")
          \/ \E t \in Receivers : donee = t /\ call[t].fn = "recv"

(***************************************************************************)
(* A message is in one place, and only messages that have been sent are.   *)
(***************************************************************************)
Slots == {pending_send, pending_send_port} \ {None}

PlaceInv ==
    /\ IsInjective(delivered) /\ IsInjective(queue)
    /\ Range(delivered) \cap Range(queue) = {}
    /\ Slots \cap (Range(delivered) \cup Range(queue)) = {}
    /\ pending_send # None => pending_send # pending_send_port
    /\ \A t \in Threads : call[t].fn = "send_retry" =>
          call[t].msg \notin Range(delivered) \cup Range(queue) \cup Slots
    /\ Range(delivered) \cup Range(queue) \cup Slots \subseteq 1 .. nmsgs

(***************************************************************************)
(* The message of a sender in its call is pending, and so is that of a     *)
(* registered OP_IPC_SEND.                                                 *)
(***************************************************************************)
OutcomeInv ==
    /\ \A t \in Threads : Sending(t) =>
          outcome[call[t].msg] = "pending" /\ async[call[t].msg] = None
    /\ pending_send_port # None =>
          outcome[pending_send_port] = "pending" /\ async[pending_send_port] # None

(***************************************************************************)
(* The messages of ipc_send are on their way in the order of their sends.  *)
(***************************************************************************)
Sync(m) == async[m] = None

OrderInv ==
    /\ \A i, j \in DOMAIN queue :
          i < j /\ Sync(queue[i]) /\ Sync(queue[j]) => queue[i] < queue[j]
    /\ \A m \in Range(delivered), n \in Range(queue) \cup ({pending_send} \ {None}) :
          Sync(m) /\ Sync(n) => m < n
    /\ \A t \in Threads : call[t].fn = "send_retry" =>
          \A m \in Range(delivered) \cup Range(queue) : Sync(m) => m < call[t].msg

-----------------------------------------------------------------------------
CallRecord == [fn : {"user", "send_block", "send_retry", "recv", "gone"},
               msg : Msgs \cup {None}]

(***************************************************************************)
(* The types of the variables, one by one.                                 *)
(***************************************************************************)
LEMMA Types ==
    ASSUME TypeOK
    PROVE  /\ capacity \in Nat /\ queue \in Seq(Msgs) /\ Len(queue) \in Nat
           /\ Len(queue) <= capacity /\ pending_send \in Msgs \cup {None}
           /\ blocked_sender \in Senders \cup {None}
           /\ blocked_receiver \in Receivers \cup {None}
           /\ pending_port \in Receivers \cup {None}
           /\ pending_send_port \in Msgs \cup {None}
           /\ fds \in [Threads -> Nat] /\ sched \in [Threads -> {"Runnable", "Blocked"}]
           /\ call \in [Threads -> CallRecord] /\ donee \in Threads \cup {None}
           /\ nmsgs \in Nat /\ nmsgs <= MaxMsgs /\ outcome \in [Msgs -> Outcomes]
           /\ armed \subseteq Receivers /\ async \in [Msgs -> Senders \cup {None}]
           /\ delivered \in Seq(Msgs) /\ MaxMsgs \in Nat
           /\ forgotten \subseteq Receivers \cup Msgs
BY LenProperties, ChannelAssumption DEF TypeOK, CallRecord

(***************************************************************************)
(* Messages, threads and the absence of either differ.                     *)
(***************************************************************************)
LEMMA Kinds ==
    /\ None \notin Msgs /\ None \notin Threads /\ Senders \subseteq Threads
    /\ Receivers \subseteq Threads /\ Senders \cap Receivers = {}
    /\ Threads = Senders \cup Receivers /\ Msgs \subseteq Nat
BY ChannelAssumption DEF Threads, Msgs

(***************************************************************************)
(* scheduler::unblock makes its thread runnable and touches no other.      *)
(***************************************************************************)
LEMMA UnblockedThread ==
    ASSUME TypeOK, NEW t
    PROVE  /\ Unblocked(t) \in [Threads -> {"Runnable", "Blocked"}]
           /\ \A s \in Threads : Unblocked(t)[s] = IF s = t THEN "Runnable" ELSE sched[s]
BY Types DEF Unblocked

(***************************************************************************)
(* try_send and arm_send keep the buffer within its capacity.              *)
(***************************************************************************)
LEMMA OfferTypes ==
    ASSUME TypeOK, NEW m \in Msgs, Offer(m)
    PROVE  /\ queue' \in Seq(Msgs) /\ Len(queue') <= capacity
           /\ pending_send' \in Msgs \cup {None}
           /\ blocked_receiver' \in Receivers \cup {None}
           /\ pending_port' \in Receivers \cup {None}
           /\ sched' \in [Threads -> {"Runnable", "Blocked"}]
           /\ armed' \subseteq Receivers /\ delivered' \in Seq(Msgs)
<1>1. /\ queue \in Seq(Msgs) /\ Len(queue) \in Nat /\ Len(queue) <= capacity
      /\ capacity \in Nat /\ pending_send \in Msgs \cup {None}
      /\ sched \in [Threads -> {"Runnable", "Blocked"}] /\ armed \subseteq Receivers
      /\ delivered \in Seq(Msgs) /\ pending_port \in Receivers \cup {None}
      /\ blocked_receiver \in Receivers \cup {None}
  BY Types
<1> DEFINE Q == Append(queue, m)
<1>2. Q \in Seq(Msgs) /\ Len(Q) = Len(queue) + 1 /\ Q # <<>>
  BY <1>1, AppendProperties
<1>3. CASE HandOver(m)
  <2>1. queue' \in Seq(Msgs) /\ Len(queue') <= capacity /\ pending_send' \in Msgs \cup {None}
    <3>1. CASE capacity = 0
      BY <1>1, <1>3, <3>1 DEF HandOver
    <3>2. CASE capacity # 0
      <4>1. queue' = Q /\ pending_send' = pending_send /\ Len(queue) < capacity
        BY <1>3, <3>2 DEF HandOver, Offer, CanOffer, Accepting
      <4> HIDE DEF Q
      <4> QED
        BY <1>1, <1>2, <4>1
    <3> QED
      BY <3>1, <3>2
  <2> QED
    BY <1>1, <1>3, <2>1, UnblockedThread DEF HandOver
<1>4. CASE ToPort(m)
  <2>1. /\ queue' = Tail(Q) /\ delivered' = Append(delivered, Head(Q))
        /\ armed' \subseteq armed /\ pending_port' = None
        /\ UNCHANGED <<pending_send, blocked_receiver, sched>>
    BY <1>4 DEF ToPort
  <2> HIDE DEF Q
  <2>2. Head(Q) \in Msgs /\ Tail(Q) \in Seq(Msgs) /\ Len(Tail(Q)) = Len(Q) - 1
    BY <1>2, HeadTailProperties
  <2>3. Append(delivered, Head(Q)) \in Seq(Msgs)
    BY <1>1, <2>2, AppendProperties
  <2>4. Len(Tail(Q)) <= capacity
    BY <1>1, <1>2, <2>2
  <2> QED
    BY <1>1, <2>1, <2>2, <2>3, <2>4
<1>5. CASE Enqueue(m)
  <2>1. /\ queue' = Q /\ Len(queue) < capacity
        /\ UNCHANGED <<pending_send, blocked_receiver, pending_port, sched, armed, delivered>>
    BY <1>1, <1>5 DEF Enqueue, Offer, CanOffer, Accepting
  <2> HIDE DEF Q
  <2> QED
    BY <1>1, <1>2, <2>1
<1> QED
  BY <1>3, <1>4, <1>5 DEF Offer

(***************************************************************************)
(* try_recv and arm_recv keep the types.                                   *)
(***************************************************************************)
LEMMA TakeTypes ==
    ASSUME TypeOK, Take
    PROVE  /\ queue' \in Seq(Msgs) /\ Len(queue') <= capacity
           /\ pending_send' \in Msgs \cup {None} /\ blocked_sender' \in Senders \cup {None}
           /\ pending_send_port' \in Msgs \cup {None}
           /\ sched' \in [Threads -> {"Runnable", "Blocked"}]
           /\ outcome' \in [Msgs -> Outcomes] /\ delivered' \in Seq(Msgs)
<1>1. /\ queue \in Seq(Msgs) /\ Len(queue) \in Nat /\ Len(queue) <= capacity
      /\ capacity \in Nat /\ pending_send \in Msgs \cup {None}
      /\ blocked_sender \in Senders \cup {None}
      /\ pending_send_port \in Msgs \cup {None}
      /\ sched \in [Threads -> {"Runnable", "Blocked"}]
      /\ delivered \in Seq(Msgs) /\ outcome \in [Msgs -> Outcomes]
  BY Types
<1>2. \A m \in Msgs : [outcome EXCEPT ![m] = "ok"] \in [Msgs -> Outcomes]
  BY <1>1 DEF Outcomes
<1>3. CASE TakePending
  <2>1. Append(delivered, pending_send) \in Seq(Msgs)
    BY <1>1, <1>3, AppendProperties DEF TakePending
  <2> QED
    BY <1>1, <1>3, <2>1, UnblockedThread DEF TakePending, WakeSender
<1>4. CASE TakeFromPort
  <2>1. Append(delivered, pending_send_port) \in Seq(Msgs) /\ pending_send_port \in Msgs
    BY <1>1, <1>4, AppendProperties DEF TakeFromPort
  <2> QED
    BY <1>1, <1>2, <1>4, <2>1 DEF TakeFromPort, Settle
<1>5. CASE Dequeue
  <2>1. /\ Head(queue) \in Msgs /\ Tail(queue) \in Seq(Msgs)
        /\ Len(Tail(queue)) = Len(queue) - 1
    BY <1>1, <1>5, HeadTailProperties DEF Dequeue
  <2>2. Append(delivered, Head(queue)) \in Seq(Msgs)
    BY <1>1, <2>1, AppendProperties
  <2>3. delivered' \in Seq(Msgs) /\ pending_send' = pending_send
    BY <1>5, <2>2 DEF Dequeue
  <2>4. /\ blocked_sender' \in Senders \cup {None}
        /\ sched' \in [Threads -> {"Runnable", "Blocked"}]
    BY <1>1, <1>5, UnblockedThread DEF Dequeue, WakeSender
  <2>5. /\ queue' \in Seq(Msgs) /\ Len(queue') <= capacity
        /\ pending_send_port' \in Msgs \cup {None} /\ outcome' \in [Msgs -> Outcomes]
    <3>1. CASE blocked_sender = None /\ pending_send_port # None
      <4>1. /\ queue' = Append(Tail(queue), pending_send_port) /\ pending_send_port' = None
            /\ outcome' = [outcome EXCEPT ![pending_send_port] = "ok"]
            /\ pending_send_port \in Msgs
        BY <1>1, <1>5, <3>1 DEF Dequeue, Settle
      <4>2. queue' \in Seq(Msgs) /\ Len(queue') = Len(Tail(queue)) + 1
        BY <2>1, <4>1, AppendProperties
      <4> QED
        BY <1>1, <1>2, <2>1, <4>1, <4>2
    <3>2. CASE ~(blocked_sender = None /\ pending_send_port # None)
      <4>1. queue' = Tail(queue) /\ UNCHANGED <<pending_send_port, outcome>>
        BY <1>5, <3>2 DEF Dequeue
      <4>2. Len(queue') <= capacity
        BY <1>1, <2>1, <4>1
      <4> QED
        BY <1>1, <2>1, <4>1, <4>2
    <3> QED
      BY <3>1, <3>2
  <2> QED
    BY <1>1, <2>3, <2>4, <2>5
<1> QED
  BY <1>3, <1>4, <1>5 DEF Take

(***************************************************************************)
(* Closing the last descriptor of an end keeps the types.                  *)
(***************************************************************************)
LEMMA CloseTypes ==
    ASSUME TypeOK, NEW t \in Threads, NEW notify \in BOOLEAN, CloseLast(t, notify)
    PROVE  /\ queue' = queue /\ pending_send' = pending_send
           /\ blocked_sender' \in Senders \cup {None}
           /\ blocked_receiver' \in Receivers \cup {None}
           /\ pending_port' \in Receivers \cup {None}
           /\ pending_send_port' \in Msgs \cup {None}
           /\ send_closed' \in BOOLEAN /\ recv_closed' \in BOOLEAN
           /\ sched' \in [Threads -> {"Runnable", "Blocked"}]
           /\ outcome' \in [Msgs -> Outcomes] /\ armed' \subseteq Receivers
<1>1. send_closed \in BOOLEAN /\ recv_closed \in BOOLEAN
  BY DEF TypeOK
<1>2. \A m \in Msgs : [outcome EXCEPT ![m] = "EPIPE"] \in [Msgs -> Outcomes]
  BY Types DEF Outcomes
<1>3. CASE CloseSendLast(notify)
  BY <1>1, <1>3, Types, UnblockedThread DEF CloseSendLast
<1>4. CASE CloseRecvLast(notify)
  BY <1>1, <1>2, <1>4, Types, UnblockedThread DEF CloseRecvLast, Settle
<1> QED
  BY <1>3, <1>4 DEF CloseLast

-----------------------------------------------------------------------------
(***************************************************************************)
(* The system calls share their outcomes.  A sender, at its first turn or  *)
(* a later one, fails, is accepted, waits, or leaves an OP_IPC_SEND; a     *)
(* receiver takes a message, waits, or leaves an OP_IPC_RECV; the last     *)
(* descriptor of an end is closed; or the channel is left alone.           *)
(***************************************************************************)
OnCpu(t, fns) ==
    sched[t] = "Runnable" /\ donee \in {None, t} /\ call[t].fn \in fns

CallBecomes(t, fns) ==
    /\ call' \in [Threads -> CallRecord] /\ call'[t].fn \in fns
    /\ \A s \in Threads \ {t} : call'[s] = call[s]

SendsNew(t, m, a) ==
    /\ call[t].fn = "user" /\ m = nmsgs + 1 /\ nmsgs' = nmsgs + 1
    /\ a \in {None, t} /\ async' = [async EXCEPT ![m] = a]

SendsAgain(t, m, a) ==
    /\ call[t].fn = "send_retry" /\ m = call[t].msg /\ nmsgs' = nmsgs
    /\ a = None /\ async' = async

Attempts(t, m, a) ==
    /\ t \in Senders /\ m \in Msgs /\ OnCpu(t, {"user", "send_retry"})
    /\ SendsNew(t, m, a) \/ SendsAgain(t, m, a)
    /\ UNCHANGED <<ends, capacity>>

Fails(t, m, a) ==
    /\ Attempts(t, m, a)
    /\ Settle(m, "EPIPE") \/ Settle(m, "EAGAIN")
    /\ CallBecomes(t, {"user"}) /\ donee' = None
    /\ UNCHANGED <<chan, armed, delivered, sched>>

Accepts(t, m, a) ==
    /\ Attempts(t, m, a) /\ SendAccepted(m) /\ CallBecomes(t, {"user"})
    /\ DonateIfHandedOver \/ (capacity \in PortShared /\ donee' = None)

Waits(t, m, a) ==
    Attempts(t, m, a) /\ a = None /\ SendBlocks(t, m) /\ donee' = None

Arms(t, m, a) ==
    /\ Attempts(t, m, a) /\ a = t /\ SendsNew(t, m, a) /\ SendArmed(m)
    /\ \A n \in Msgs : async[n] = t => outcome[n] # "pending"
    /\ call' = call /\ donee' = None

Receiving(t) ==
    /\ t \in Receivers /\ OnCpu(t, {"user", "recv"}) /\ donee' = None
    /\ UNCHANGED <<ends, capacity, nmsgs, async>>

Receives(t) == Receiving(t) /\ Take /\ CallBecomes(t, {"user"}) /\ UNCHANGED armed

Sleeps(t) == Receiving(t) /\ RecvBlocks(t) /\ UNCHANGED armed

ArmsRecv(t) == Receiving(t) /\ t \notin armed /\ RecvArmed(t) /\ call' = call

Idles(t) ==
    /\ OnCpu(t, {"user", "recv"}) /\ (call[t].fn = "recv" => ~MessageReady)
    /\ CallBecomes(t, {"user", "gone"}) /\ donee' = None /\ fds' \in [Threads -> Nat]
    /\ UNCHANGED <<chan, send_closed, recv_closed, forgotten, sched, ops, capacity>>

Closes(t, notify) ==
    /\ OnCpu(t, {"user"}) /\ CloseLast(t, notify) /\ fds' \in [Threads -> Nat]
    /\ CallBecomes(t, IF notify THEN {"user"} ELSE {"gone"})
    /\ donee' \in {None, Peer(t)}
    /\ forgotten' = forgotten \cup (IF notify /\ Peer(t) = None THEN {} ELSE Registered(t))
    /\ UNCHANGED <<capacity, nmsgs, async, delivered>>

Step(t) ==
    \/ \E m \in Msgs, a \in {None, t} :
          Fails(t, m, a) \/ Accepts(t, m, a) \/ Waits(t, m, a) \/ Arms(t, m, a)
    \/ SendResumes(t) /\ UNCHANGED capacity
    \/ Receives(t) \/ Sleeps(t) \/ ArmsRecv(t)
    \/ Idles(t)
    \/ \E notify \in BOOLEAN : Closes(t, notify)

(***************************************************************************)
(* Every step of the specification is one of these.                        *)
(***************************************************************************)
LEMMA Steps ==
    ASSUME TypeOK, CallsInv, Next
    PROVE  \E t \in Threads : Step(t)
<1>0. /\ call \in [Threads -> CallRecord] /\ fds \in [Threads -> Nat] /\ nmsgs \in Nat
      /\ async \in [Msgs -> Senders \cup {None}] /\ MaxMsgs \in Nat /\ nmsgs <= MaxMsgs
  BY Types
<1>1. InUser \in CallRecord /\ InUser.fn = "user"
  BY DEF InUser, CallRecord
<1>2. ASSUME NEW t \in Threads, Returns(t) PROVE CallBecomes(t, {"user"})
  BY <1>0, <1>1, <1>2 DEF Returns, CallBecomes
<1>3. PICK t \in Threads :
         /\ \/ Resumes(t)
            \/ \E nonblock \in BOOLEAN : Send(t, nonblock) \/ Recv(t, nonblock)
            \/ ArmSend(t) \/ ArmRecv(t)
            \/ \E u \in Threads : Dup(t, u)
            \/ Close(t) \/ Exit(t)
         /\ capacity' = capacity
  BY DEF Next
<1>4. ASSUME NEW m \in Msgs, NEW nonblock \in BOOLEAN, TrySend(t, m, nonblock),
             Attempts(t, m, None)
      PROVE  Step(t)
  <2>1. CASE (SendRefused(m) \/ SendWouldBlock(m)) /\ Returns(t)
    <3>1. donee' = None
      BY <1>4, <2>1 DEF SendRefused, SendWouldBlock, TrySend, DonateIfHandedOver, chan
    <3>2. Fails(t, m, None)
      BY <1>2, <1>4, <2>1, <3>1 DEF Fails, SendRefused, SendWouldBlock
    <3> QED
      BY <3>2 DEF Step
  <2>2. CASE SendAccepted(m) /\ Returns(t)
    <3>1. Accepts(t, m, None)
      BY <1>2, <1>4, <2>2 DEF Accepts, TrySend
    <3> QED
      BY <3>1 DEF Step
  <2>3. CASE SendBlocks(t, m)
    <3>1. donee' = None
      BY <1>4, <2>3 DEF SendBlocks, TrySend, DonateIfHandedOver
    <3>2. Waits(t, m, None)
      BY <1>4, <2>3, <3>1 DEF Waits
    <3> QED
      BY <3>2 DEF Step
  <2> QED
    BY <1>4, <2>1, <2>2, <2>3 DEF TrySend
<1>5. ASSUME NEW nonblock \in BOOLEAN, TryRecv(t, nonblock), t \in Receivers,
             OnCpu(t, {"user", "recv"})
      PROVE  Step(t)
  <2>1. Receiving(t) /\ UNCHANGED armed
    BY <1>3, <1>5 DEF TryRecv, Receiving
  <2>2. CASE Take /\ Returns(t)
    BY <1>2, <2>1, <2>2 DEF Receives, Step
  <2>3. CASE RecvBlocks(t)
    BY <2>1, <2>3 DEF Sleeps, Step
  <2>4. CASE RecvRefused(t, nonblock)
    <3>1. Idles(t)
      BY <1>0, <1>2, <1>3, <1>5, <2>4
         DEF RecvRefused, TryRecv, Idles, ops, ends, CallBecomes
    <3> QED
      BY <3>1 DEF Step
  <2> QED
    BY <1>5, <2>2, <2>3, <2>4 DEF TryRecv
<1>6. CASE Resumes(t)
  <2>1. CASE SendResumes(t)
    BY <1>3, <2>1 DEF Step
  <2>2. CASE SendRetries(t)
    <3>1. t \in Senders /\ call[t].msg \in Msgs
      BY <1>0, <2>2 DEF SendRetries, Runs, CallsInv, Sending, Msgs
    <3>2. Attempts(t, call[t].msg, None) /\ TrySend(t, call[t].msg, FALSE)
      BY <1>3, <2>2, <3>1 DEF SendRetries, Runs, Attempts, OnCpu, SendsAgain, TrySend
    <3> QED
      BY <1>4, <3>1, <3>2
  <2>3. CASE RecvResumes(t)
    <3>1. t \in Receivers /\ OnCpu(t, {"user", "recv"}) /\ TryRecv(t, FALSE)
      BY <2>3 DEF RecvResumes, Runs, OnCpu, CallsInv
    <3> QED
      BY <1>5, <3>1
  <2> QED
    BY <1>6, <2>1, <2>2, <2>3 DEF Resumes
<1>7. ASSUME NEW nonblock \in BOOLEAN, Send(t, nonblock) PROVE Step(t)
  <2>1. nmsgs + 1 \in Msgs
    BY <1>0, <1>7 DEF Send, Msgs
  <2>2. async' = async /\ async[nmsgs + 1] = None /\ TrySend(t, nmsgs + 1, nonblock)
    BY <1>0, <1>7, <2>1 DEF Send, TrySend, CallsInv
  <2>3. async' = [async EXCEPT ![nmsgs + 1] = None]
    BY <1>0, <2>1, <2>2
  <2>4. Attempts(t, nmsgs + 1, None)
    BY <1>3, <1>7, <2>1, <2>2, <2>3 DEF Send, Runs, SendsNew, Attempts, OnCpu, TrySend
  <2> QED
    BY <1>4, <2>1, <2>2, <2>4
<1>8. ASSUME NEW nonblock \in BOOLEAN, Recv(t, nonblock) PROVE Step(t)
  <2>1. t \in Receivers /\ OnCpu(t, {"user", "recv"}) /\ TryRecv(t, nonblock)
    BY <1>8 DEF Recv, Runs, OnCpu
  <2> QED
    BY <1>5, <2>1
<1>9. CASE ArmSend(t)
  <2> DEFINE m == nmsgs + 1
  <2>1. m \in Msgs
    BY <1>0, <1>9 DEF ArmSend, Msgs
  <2>2. Attempts(t, m, t) /\ SendsNew(t, m, t) /\ t \in Senders
    BY <1>3, <1>9, <2>1 DEF ArmSend, Runs, SendsNew, Attempts, OnCpu
  <2>3. call' = call /\ CallBecomes(t, {"user"})
    BY <1>0, <1>9 DEF ArmSend, Runs, CallBecomes
  <2>4. \A n \in Msgs : async[n] = t => outcome[n] # "pending"
    BY <1>9 DEF ArmSend
  <2>5. /\ SendRefused(m) \/ SendAccepted(m) \/ SendArmed(m)
        /\ DonateIfHandedOver \/ (capacity \in PortShared /\ donee' = None)
    BY <1>9 DEF ArmSend
  <2> HIDE DEF m
  <2>6. CASE SendRefused(m)
    <3>1. donee' = None
      BY <2>5, <2>6 DEF SendRefused, DonateIfHandedOver, chan
    <3>2. Fails(t, m, t)
      BY <2>2, <2>3, <2>6, <3>1 DEF Fails, SendRefused
    <3> QED
      BY <2>1, <3>2 DEF Step
  <2>7. CASE SendAccepted(m)
    <3>1. Accepts(t, m, t)
      BY <2>2, <2>3, <2>5, <2>7 DEF Accepts
    <3> QED
      BY <2>1, <3>1 DEF Step
  <2>8. CASE SendArmed(m)
    <3>1. donee' = None
      BY <2>5, <2>8 DEF SendArmed, DonateIfHandedOver
    <3>2. Arms(t, m, t)
      BY <2>2, <2>3, <2>4, <2>8, <3>1 DEF Arms
    <3> QED
      BY <2>1, <3>2 DEF Step
  <2> QED
    BY <2>5, <2>6, <2>7, <2>8
<1>10. CASE ArmRecv(t)
  <2>1. Receiving(t) /\ t \notin armed /\ call' = call /\ CallBecomes(t, {"user"})
    BY <1>0, <1>3, <1>10 DEF ArmRecv, Runs, OnCpu, Receiving, CallBecomes
  <2>2. CASE Take /\ UNCHANGED armed
    BY <2>1, <2>2 DEF Receives, Step
  <2>3. CASE RecvArmed(t)
    BY <2>1, <2>3 DEF ArmsRecv, Step
  <2>4. CASE RecvArmRefused
    <3>1. fds' \in [Threads -> Nat] /\ UNCHANGED <<chan, send_closed, recv_closed, forgotten, sched, ops>>
      BY <1>0, <1>10, <2>4 DEF ArmRecv, RecvArmRefused, ops, ends
    <3>2. OnCpu(t, {"user", "recv"}) /\ call[t].fn = "user" /\ donee' = None
      BY <1>10 DEF ArmRecv, Runs, OnCpu
    <3>3. CallBecomes(t, {"user", "gone"})
      BY <2>1 DEF CallBecomes
    <3>4. Idles(t)
      BY <1>3, <3>1, <3>2, <3>3 DEF Idles
    <3> QED
      BY <3>4 DEF Step
  <2> QED
    BY <1>10, <2>2, <2>3, <2>4 DEF ArmRecv
<1>11. ASSUME NEW u \in Threads, Dup(t, u) PROVE Step(t)
  <2>1. fds' \in [Threads -> Nat]
    BY <1>0, <1>11 DEF Dup
  <2>2. OnCpu(t, {"user", "recv"}) /\ call[t].fn = "user" /\ CallBecomes(t, {"user", "gone"})
    BY <1>0, <1>11 DEF Dup, Runs, OnCpu, CallBecomes
  <2>3. Idles(t)
    BY <1>3, <1>11, <2>1, <2>2 DEF Dup, Idles
  <2> QED
    BY <2>3 DEF Step
<1>12. CASE Close(t)
  <2>1. fds' \in [Threads -> Nat]
    BY <1>0, <1>12 DEF Close
  <2>2. /\ OnCpu(t, {"user"}) /\ OnCpu(t, {"user", "recv"}) /\ call[t].fn = "user"
        /\ CallBecomes(t, {"user"}) /\ CallBecomes(t, {"user", "gone"})
        /\ UNCHANGED <<nmsgs, async, delivered>>
    BY <1>0, <1>12 DEF Close, Runs, OnCpu, CallBecomes
  <2>3. CASE fds[t] = 1 /\ ~OthersHold(t)
    <3>1. /\ CloseLast(t, TRUE) /\ donee' \in {None, Peer(t)}
          /\ forgotten' = forgotten \cup (IF Peer(t) = None THEN {} ELSE Registered(t))
      BY <1>12, <2>3 DEF Close
    <3>2. Closes(t, TRUE)
      BY <1>3, <2>1, <2>2, <3>1 DEF Closes
    <3> QED
      BY <3>2 DEF Step
  <2>4. CASE ~(fds[t] = 1 /\ ~OthersHold(t))
    <3>1. UNCHANGED <<chan, send_closed, recv_closed, forgotten, sched, outcome, armed>> /\ donee' = None
      BY <1>12, <2>4 DEF Close
    <3>2. Idles(t)
      BY <1>3, <2>1, <2>2, <3>1 DEF Idles, ops
    <3> QED
      BY <3>2 DEF Step
  <2> QED
    BY <2>3, <2>4
<1>13. CASE Exit(t)
  <2>1. fds' \in [Threads -> Nat]
    BY <1>0, <1>13 DEF Exit
  <2> DEFINE g == [call[t] EXCEPT !.fn = "gone"]
  <2>2. g \in CallRecord /\ g.fn = "gone"
    BY <1>0 DEF CallRecord
  <2>3. call' = [call EXCEPT ![t] = g]
    BY <1>0, <1>13 DEF Exit
  <2> HIDE DEF g
  <2>4. CallBecomes(t, {"gone"}) /\ CallBecomes(t, {"user", "gone"})
    BY <1>0, <2>2, <2>3 DEF CallBecomes
  <2>5. /\ OnCpu(t, {"user"}) /\ OnCpu(t, {"user", "recv"}) /\ call[t].fn = "user"
        /\ UNCHANGED <<nmsgs, async, delivered>> /\ donee' = None
    BY <1>13 DEF Exit, Runs, OnCpu
  <2>6. CASE fds[t] > 0 /\ ~OthersHold(t)
    <3>1. CloseLast(t, FALSE) /\ forgotten' = forgotten \cup Registered(t)
      BY <1>13, <2>6 DEF Exit
    <3>2. Closes(t, FALSE)
      BY <1>3, <2>1, <2>4, <2>5, <3>1 DEF Closes
    <3> QED
      BY <3>2 DEF Step
  <2>7. CASE ~(fds[t] > 0 /\ ~OthersHold(t))
    <3>1. UNCHANGED <<chan, send_closed, recv_closed, forgotten, sched, outcome, armed>>
      BY <1>13, <2>7 DEF Exit
    <3>2. Idles(t)
      BY <1>3, <2>1, <2>4, <2>5, <3>1 DEF Idles, ops
    <3> QED
      BY <3>2 DEF Step
  <2> QED
    BY <2>6, <2>7
<1> QED
  BY <1>3, <1>6, <1>7, <1>8, <1>9, <1>10, <1>11, <1>12, <1>13

(***************************************************************************)
(* What an attempt to send changes besides the channel.                    *)
(***************************************************************************)
LEMMA AttemptFacts ==
    ASSUME TypeOK, CallsInv, NEW t \in Threads, NEW m \in Msgs, NEW a \in {None, t},
           Attempts(t, m, a)
    PROVE  /\ t \in Senders /\ nmsgs' \in Nat /\ nmsgs <= nmsgs' /\ nmsgs' <= MaxMsgs
           /\ m <= nmsgs' /\ m \in 1 .. nmsgs' /\ async' \in [Msgs -> Senders \cup {None}]
           /\ \A n \in Msgs \ {m} : async'[n] = async[n]
           /\ capacity' = capacity /\ fds' = fds
           /\ UNCHANGED <<send_closed, recv_closed, forgotten>>
           /\ call[t].fn \in {"user", "send_retry"} /\ sched[t] = "Runnable"
           /\ donee \in {None, t}
           /\ SendsNew(t, m, a) => m > nmsgs /\ async[m] = None /\ async'[m] = a
<1>0. nmsgs \in Nat /\ nmsgs <= MaxMsgs /\ MaxMsgs \in Nat
      /\ async \in [Msgs -> Senders \cup {None}]
  BY Types
<1>1. /\ t \in Senders /\ capacity' = capacity /\ fds' = fds
      /\ UNCHANGED <<send_closed, recv_closed, forgotten>>
      /\ call[t].fn \in {"user", "send_retry"} /\ sched[t] = "Runnable"
      /\ donee \in {None, t}
  BY DEF Attempts, OnCpu, ends
<1>2. m \in Nat /\ m <= MaxMsgs /\ m > 0
  BY <1>0 DEF Msgs
<1>3. CASE SendsNew(t, m, a)
  <2>1. /\ m = nmsgs + 1 /\ nmsgs' = nmsgs + 1 /\ async' = [async EXCEPT ![m] = a]
    BY <1>3 DEF SendsNew
  <2>2. m > nmsgs /\ async[m] = None
    BY <1>0, <2>1 DEF CallsInv
  <2>3. /\ async' \in [Msgs -> Senders \cup {None}] /\ async'[m] = a
        /\ \A n \in Msgs \ {m} : async'[n] = async[n]
    BY <1>0, <1>1, <2>1
  <2>4. nmsgs' \in Nat /\ nmsgs <= nmsgs' /\ nmsgs' <= MaxMsgs /\ m <= nmsgs'
        /\ m \in 1 .. nmsgs'
    BY <1>0, <1>2, <2>1
  <2>5. SendsNew(t, m, a) => m > nmsgs /\ async[m] = None /\ async'[m] = a
    BY <2>2, <2>3
  <2> QED
    BY <1>1, <2>3, <2>4, <2>5
<1>4. CASE SendsAgain(t, m, a)
  <2>1. nmsgs' = nmsgs /\ async' = async /\ m = call[t].msg /\ call[t].fn = "send_retry"
    BY <1>4 DEF SendsAgain
  <2>2. m \in 1 .. nmsgs
    BY <2>1 DEF CallsInv, Sending
  <2>3. ~SendsNew(t, m, a)
    BY <1>0, <2>1 DEF SendsNew
  <2>4. nmsgs' \in Nat /\ nmsgs <= nmsgs' /\ nmsgs' <= MaxMsgs /\ m <= nmsgs'
        /\ m \in 1 .. nmsgs'
    BY <1>0, <2>1, <2>2
  <2>5. async' \in [Msgs -> Senders \cup {None}] /\ \A n \in Msgs \ {m} : async'[n] = async[n]
    BY <1>0, <2>1
  <2> QED
    BY <1>1, <2>3, <2>4, <2>5
<1> QED
  BY <1>3, <1>4 DEF Attempts

(***************************************************************************)
(* Every step keeps the types.                                             *)
(***************************************************************************)
LEMMA TypesKept ==
    ASSUME TypeOK, CallsInv, NEW t \in Threads, Step(t)
    PROVE  TypeOK'
<1>0. /\ call \in [Threads -> CallRecord] /\ outcome \in [Msgs -> Outcomes]
      /\ sched \in [Threads -> {"Runnable", "Blocked"}] /\ nmsgs \in Nat
      /\ blocked_receiver \in Receivers \cup {None} /\ Receivers \subseteq Threads
      /\ blocked_sender \in Senders \cup {None} /\ Senders \subseteq Threads
      /\ fds \in [Threads -> Nat]
  BY Types, Kinds
<1>1. \A m \in Msgs, o \in Outcomes : [outcome EXCEPT ![m] = o] \in [Msgs -> Outcomes]
  BY <1>0
<1>2. ASSUME NEW m \in Msgs, NEW a \in {None, t}, Fails(t, m, a) PROVE TypeOK'
  <2>1. outcome' \in [Msgs -> Outcomes]
    BY <1>1, <1>2 DEF Fails, Settle, Outcomes
  <2>2. call' \in [Threads -> CallRecord] /\ donee' = None
        /\ UNCHANGED <<chan, armed, delivered, sched>> /\ Attempts(t, m, a)
    BY <1>2 DEF Fails, CallBecomes
  <2> QED
    BY <1>0, <2>1, <2>2, AttemptFacts, Types DEF TypeOK, chan, CallRecord
<1>3. ASSUME NEW m \in Msgs, NEW a \in {None, t}, Accepts(t, m, a) PROVE TypeOK'
  <2>1. outcome' \in [Msgs -> Outcomes] /\ Offer(m) /\ Attempts(t, m, a)
    BY <1>1, <1>3 DEF Accepts, SendAccepted, Settle, Outcomes
  <2>2. call' \in [Threads -> CallRecord] /\ donee' \in Threads \cup {None}
    BY <1>0, <1>3 DEF Accepts, CallBecomes, DonateIfHandedOver
  <2>3. UNCHANGED <<blocked_sender, pending_send_port>>
    BY <2>1 DEF Offer
  <2> QED
    BY SMTT(30), <1>0, <2>1, <2>2, <2>3, AttemptFacts, OfferTypes, Types DEF TypeOK, CallRecord
<1>4. ASSUME NEW m \in Msgs, NEW a \in {None, t}, Waits(t, m, a) PROVE TypeOK'
  <2>1. outcome' \in [Msgs -> Outcomes] /\ Attempts(t, m, a) /\ SendBlocks(t, m)
    BY <1>1, <1>4 DEF Waits, SendBlocks, Settle, Outcomes
  <2>2. /\ call' \in [Threads -> CallRecord] /\ donee' = None
        /\ sched' \in [Threads -> {"Runnable", "Blocked"}]
        /\ pending_send' \in Msgs \cup {None} /\ blocked_sender' = t
    <3>1. \A f \in {"send_block", "send_retry"} : [fn |-> f, msg |-> m] \in CallRecord
      BY DEF CallRecord
    <3>2. \E f \in {"send_block", "send_retry"} : Blocks(t, f, m)
      BY <2>1 DEF SendBlocks
    <3>3. /\ call' \in [Threads -> CallRecord]
          /\ sched' \in [Threads -> {"Runnable", "Blocked"}]
      BY <1>0, <3>1, <3>2 DEF Blocks
    <3>4. pending_send' \in Msgs \cup {None} /\ blocked_sender' = t /\ donee' = None
      BY <1>4, <2>1, Types DEF Waits, SendBlocks
    <3> QED
      BY <3>3, <3>4
  <2>3. UNCHANGED <<queue, blocked_receiver, pending_port, pending_send_port, armed, delivered>>
    BY <2>1 DEF SendBlocks
  <2> QED
    BY <1>0, <2>1, <2>2, <2>3, AttemptFacts, Types DEF TypeOK, CallRecord
<1>5. ASSUME NEW m \in Msgs, NEW a \in {None, t}, Arms(t, m, a) PROVE TypeOK'
  <2>1. outcome' \in [Msgs -> Outcomes] /\ Attempts(t, m, a) /\ SendArmed(m)
    BY <1>1, <1>5 DEF Arms, SendArmed, Settle, Outcomes
  <2>2. /\ call' = call /\ donee' = None /\ pending_send_port' = m
        /\ UNCHANGED <<queue, pending_send, blocked_sender, blocked_receiver,
                       pending_port, sched, armed, delivered>>
    BY <1>5, <2>1 DEF Arms, SendArmed
  <2> QED
    BY <1>0, <2>1, <2>2, AttemptFacts, Types DEF TypeOK, CallRecord
<1>6. CASE SendResumes(t) /\ UNCHANGED capacity
  <2>1. outcome' \in [Msgs -> Outcomes]
    BY <1>0, <1>6 DEF SendResumes, Settle, Outcomes
  <2>2. call' \in [Threads -> CallRecord]
    BY <1>0, <1>6 DEF SendResumes, Returns, InUser, CallRecord
  <2> QED
    BY <1>6, <2>1, <2>2, Types
       DEF SendResumes, chan, ends, TypeOK, CallRecord
<1>7. CASE Receives(t)
  <2>1. call' \in [Threads -> CallRecord] /\ donee' = None /\ Take
        /\ UNCHANGED <<ends, capacity, nmsgs, async, armed, blocked_receiver, pending_port>>
    BY <1>7 DEF Receives, Receiving, CallBecomes, Take
  <2> QED
    BY <2>1, TakeTypes, Types DEF TypeOK, CallRecord, ends
<1>8. CASE Sleeps(t)
  <2>1. /\ t \in Receivers /\ RecvBlocks(t) /\ donee' = None
        /\ UNCHANGED <<ends, capacity, nmsgs, async, armed>>
    BY <1>8 DEF Sleeps, Receiving
  <2>2. /\ call' \in [Threads -> CallRecord] /\ blocked_receiver' = t
        /\ sched' \in [Threads -> {"Runnable", "Blocked"}]
    BY <1>0, <2>1 DEF RecvBlocks, Blocks, CallRecord
  <2> QED
    BY <2>1, <2>2, Types DEF RecvBlocks, TypeOK, CallRecord, ends
<1>9. CASE ArmsRecv(t)
  <2>1. /\ t \in Receivers /\ RecvArmed(t) /\ donee' = None /\ call' = call
        /\ UNCHANGED <<ends, capacity, nmsgs, async>>
    BY <1>9 DEF ArmsRecv, Receiving
  <2> QED
    BY <2>1, Types DEF RecvArmed, TypeOK, CallRecord, ends
<1>10. CASE Idles(t)
  <2>1. /\ call' \in [Threads -> CallRecord] /\ donee' = None /\ fds' \in [Threads -> Nat]
        /\ UNCHANGED <<chan, send_closed, recv_closed, forgotten, sched, ops, capacity>>
    BY <1>10 DEF Idles, CallBecomes
  <2> QED
    BY <2>1, Types DEF TypeOK, CallRecord, chan, ops
<1>11. ASSUME NEW notify \in BOOLEAN, Closes(t, notify) PROVE TypeOK'
  <2>1. /\ call' \in [Threads -> CallRecord] /\ fds' \in [Threads -> Nat]
        /\ CloseLast(t, notify) /\ UNCHANGED <<capacity, nmsgs, async, delivered>>
    BY <1>11 DEF Closes, CallBecomes
  <2>2. donee' \in Threads \cup {None} /\ forgotten' \subseteq Receivers \cup Msgs
    <3>1. Registered(t) \subseteq Receivers \cup Msgs /\ Peer(t) \in Threads \cup {None}
      BY <1>0, Types DEF Registered, Peer
    <3> QED
      BY <1>11, <3>1, Types DEF Closes
  <2> QED
    BY <2>1, <2>2, CloseTypes, Types DEF TypeOK, CallRecord
<1> QED
  BY <1>2, <1>3, <1>4, <1>5, <1>6, <1>7, <1>8, <1>9, <1>10, <1>11 DEF Step

(***************************************************************************)
(* What a step does to the call of another thread: nothing; and what the   *)
(* calls of the threads may become.                                        *)
(***************************************************************************)
LEMMA CallsKept ==
    ASSUME TypeOK, CallsInv, PlaceInv, NEW t \in Threads, Step(t)
    PROVE  CallsInv'
<1>0. /\ call \in [Threads -> CallRecord] /\ nmsgs \in Nat /\ capacity \in Nat
      /\ capacity' = capacity /\ outcome \in [Msgs -> Outcomes]
  BY Types DEF Step, Fails, Accepts, Waits, Arms, Attempts, Receives, Sleeps, ArmsRecv,
     Receiving, Idles, Closes
<1> DEFINE Fresh == \A m \in Msgs : m > nmsgs => outcome[m] = "unsent" /\ async[m] = None
           Fine(s) == /\ Sending(s) => s \in Senders /\ call[s].msg \in 1 .. nmsgs
                      /\ call[s].fn = "recv" => s \in Receivers
                      /\ call[s].fn = "send_retry" => capacity > 0
<1>a. Fresh /\ \A s \in Threads : Fine(s)
  BY DEF CallsInv
<1>b. Msgs \subseteq Nat
  BY Kinds
<1>c. ASSUME Fresh', \A s \in Threads : Fine(s)' PROVE CallsInv'
  BY <1>c DEF CallsInv
<1>1. ASSUME nmsgs' \in Nat, nmsgs <= nmsgs', Fresh', Fine(t)',
             \A s \in Threads \ {t} : call'[s] = call[s]
      PROVE  CallsInv'
  <2>1. \A n \in 1 .. nmsgs : n \in 1 .. nmsgs'
    BY <1>0, <1>1
  <2>2. \A s \in Threads \ {t} : Fine(s)'
    BY <1>0, <1>1, <1>a, <2>1 DEF Sending
  <2> HIDE DEF Fine, Fresh
  <2> QED
    BY <1>1, <1>c, <2>2
<1>2. ASSUME CallBecomes(t, {"user", "gone"})
      PROVE  Fine(t)' /\ \A s \in Threads \ {t} : call'[s] = call[s]
  BY <1>2 DEF CallBecomes, Sending
<1>3. ASSUME NEW m \in Msgs, NEW a \in {None, t}, Attempts(t, m, a), NEW o, Settle(m, o)
      PROVE  Fresh' /\ nmsgs' \in Nat /\ nmsgs <= nmsgs'
  <2>1. /\ nmsgs' \in Nat /\ nmsgs <= nmsgs' /\ m <= nmsgs' /\ m \in Nat
        /\ \A n \in Msgs \ {m} : async'[n] = async[n] /\ outcome'[n] = outcome[n]
    BY <1>0, <1>3, <1>b, AttemptFacts DEF Settle
  <2>2. ASSUME NEW n \in Msgs, n > nmsgs' PROVE n # m /\ n > nmsgs
    BY <1>0, <1>b, <2>1, <2>2
  <2> QED
    BY <1>a, <2>1, <2>2
<1>4. ASSUME NEW m \in Msgs, NEW a \in {None, t},
             Fails(t, m, a) \/ Accepts(t, m, a)
      PROVE  CallsInv'
  <2>1. /\ Attempts(t, m, a) /\ CallBecomes(t, {"user", "gone"})
        /\ Settle(m, "EPIPE") \/ Settle(m, "EAGAIN") \/ Settle(m, "ok")
    BY <1>4 DEF Fails, Accepts, SendAccepted, CallBecomes
  <2> HIDE DEF Fine, Fresh
  <2> QED
    BY <1>1, <1>2, <1>3, <2>1
<1>5. ASSUME NEW m \in Msgs, NEW a \in {None, t}, Waits(t, m, a) PROVE CallsInv'
  <2>1. Attempts(t, m, a) /\ Settle(m, "pending") /\ SendBlocks(t, m)
    BY <1>5 DEF Waits, SendBlocks
  <2>2. m \in 1 .. nmsgs' /\ t \in Senders
    BY <2>1, AttemptFacts
  <2>3. /\ call'[t].msg = m /\ call'[t].fn \in {"send_block", "send_retry"}
        /\ call'[t].fn = "send_retry" => capacity # 0
        /\ \A s \in Threads \ {t} : call'[s] = call[s]
    BY <1>0, <2>1 DEF SendBlocks, Blocks
  <2>4. Fine(t)'
    BY <1>0, <2>2, <2>3 DEF Sending
  <2> HIDE DEF Fine, Fresh
  <2> QED
    BY <1>1, <1>3, <2>1, <2>3, <2>4
<1>6. ASSUME NEW m \in Msgs, NEW a \in {None, t}, Arms(t, m, a) PROVE CallsInv'
  <2>1. /\ Attempts(t, m, a) /\ Settle(m, "pending") /\ call' = call
        /\ call[t].fn = "user"
    BY <1>6 DEF Arms, SendArmed, SendsNew
  <2>2. Fine(t)'
    BY <2>1 DEF Sending
  <2> HIDE DEF Fine, Fresh
  <2> QED
    BY <1>1, <1>3, <2>1, <2>2
<1>7. CASE SendResumes(t)
  <2>1. /\ call[t].fn = "send_block" /\ UNCHANGED <<nmsgs, async>>
        /\ \E o : Settle(call[t].msg, o) /\ Returns(t)
    BY <1>7 DEF SendResumes, Runs
  <2>2. call[t].msg \in 1 .. nmsgs
    BY <1>a, <2>1 DEF Sending
  <2>3. Fresh'
    <3>1. ASSUME NEW n \in Msgs, n > nmsgs PROVE outcome'[n] = outcome[n]
      <4>1. n # call[t].msg
        BY <1>0, <1>b, <2>2, <3>1
      <4> QED
        BY <1>0, <2>1, <4>1 DEF Settle
    <3> QED
      BY <1>a, <2>1, <3>1
  <2>4. Fine(t)' /\ \A s \in Threads \ {t} : call'[s] = call[s]
    BY <1>0, <2>1 DEF Returns, InUser, Sending
  <2> HIDE DEF Fine, Fresh
  <2> QED
    BY <1>0, <1>1, <2>1, <2>3, <2>4
<1>8. ASSUME UNCHANGED <<nmsgs, async>>,
             outcome' = outcome \/ \E o : Settle(pending_send_port, o), Fine(t)',
             \A s \in Threads \ {t} : call'[s] = call[s]
      PROVE  CallsInv'
  <2>0. pending_send_port \in 1 .. nmsgs \cup {None}
    BY DEF PlaceInv, Slots
  <2>1. Fresh'
    <3>1. ASSUME NEW n \in Msgs, n > nmsgs PROVE outcome'[n] = outcome[n]
      <4>1. n # pending_send_port
        BY <1>0, <2>0, <1>b, <3>1, Kinds
      <4> QED
        BY <1>0, <1>8, <4>1 DEF Settle
    <3> QED
      BY <1>a, <1>8, <3>1
  <2> HIDE DEF Fine, Fresh
  <2> QED
    BY <1>0, <1>1, <1>8, <2>1
<1>9. CASE Receives(t)
  <2>1. UNCHANGED <<nmsgs, async>> /\ CallBecomes(t, {"user", "gone"})
    BY <1>9 DEF Receives, Receiving, CallBecomes
  <2>2. outcome' = outcome \/ Settle(pending_send_port, "ok")
    BY <1>9 DEF Receives, Take, TakePending, TakeFromPort, Dequeue
  <2> HIDE DEF Fine, Fresh
  <2> QED
    BY <1>2, <1>8, <2>1, <2>2
<1>10. CASE Sleeps(t)
  <2>1. /\ UNCHANGED <<nmsgs, async, outcome>> /\ t \in Receivers
        /\ call' = [call EXCEPT ![t] = [fn |-> "recv", msg |-> None]]
    BY <1>10 DEF Sleeps, Receiving, RecvBlocks, Blocks
  <2>2. Fine(t)' /\ \A s \in Threads \ {t} : call'[s] = call[s]
    BY <1>0, <2>1 DEF Sending
  <2> HIDE DEF Fine, Fresh
  <2> QED
    BY <1>8, <2>1, <2>2
<1>11. CASE ArmsRecv(t)
  <2>1. UNCHANGED <<nmsgs, async, outcome, call>>
    BY <1>11 DEF ArmsRecv, Receiving, RecvArmed
  <2>2. Fine(t)'
    BY <1>0, <1>a, <2>1 DEF Sending
  <2> HIDE DEF Fine, Fresh
  <2> QED
    BY <1>8, <2>1, <2>2
<1>12. CASE Idles(t)
  <2>1. UNCHANGED <<nmsgs, async, outcome>> /\ CallBecomes(t, {"user", "gone"})
    BY <1>12 DEF Idles, ops
  <2> HIDE DEF Fine, Fresh
  <2> QED
    BY <1>2, <1>8, <2>1
<1>13. ASSUME NEW notify \in BOOLEAN, Closes(t, notify) PROVE CallsInv'
  <2>1. UNCHANGED <<nmsgs, async>> /\ CallBecomes(t, {"user", "gone"})
    BY <1>13 DEF Closes, CallBecomes
  <2>2. outcome' = outcome \/ Settle(pending_send_port, "EPIPE")
    BY <1>13 DEF Closes, CloseLast, CloseSendLast, CloseRecvLast
  <2> HIDE DEF Fine, Fresh
  <2> QED
    BY <1>2, <1>8, <2>1, <2>2
<1> QED
  BY <1>4, <1>5, <1>6, <1>7, <1>9, <1>10, <1>11, <1>12, <1>13 DEF Step

-----------------------------------------------------------------------------
(***************************************************************************)
(* The slots and what the blocked threads wait for, for the sender s and   *)
(* the receiver r of a channel.                                            *)
(***************************************************************************)
SenderInv(s, r) ==
    /\ blocked_sender = s => sched[s] = "Blocked" /\ Sending(s)
    /\ Blocked(s, "send_block") =>
          blocked_sender = s /\ ~recv_closed /\ pending_send = call[s].msg
    /\ Blocked(s, "send_retry") =>
          blocked_sender = s /\ ~recv_closed /\ Len(queue) = capacity

ReceiverInv(r) ==
    /\ blocked_receiver = r => Blocked(r, "recv")
    /\ Blocked(r, "recv") => blocked_receiver = r /\ ~send_closed /\ ~MessageReady

RendezvousInv(s, r) ==
    /\ pending_send # None => capacity = 0
    /\ pending_send # None /\ ~recv_closed =>
          Blocked(s, "send_block") \/ (donee = r /\ call[r].fn = "recv")

PairInv(s, r) == SenderInv(s, r) /\ ReceiverInv(r) /\ RendezvousInv(s, r)

(***************************************************************************)
(* With one thread at each end these are what the invariants say.          *)
(***************************************************************************)
LEMMA Pairs ==
    ASSUME TypeOK, CallsInv, NEW s, NEW r, Senders = {s}, Receivers = {r}
    PROVE  PairInv(s, r) <=> SlotsInv /\ BlockedIsRegistered
<1>1. /\ blocked_sender \in {s, None} /\ blocked_receiver \in {r, None}
      /\ Threads = {s, r} /\ s # r /\ s # None /\ r # None
  BY Types, Kinds
<1>2. ~Sending(r) /\ call[s].fn # "recv"
  BY <1>1 DEF CallsInv
<1>3. call[r].fn # "send_block" /\ call[r].fn # "send_retry"
  BY <1>2 DEF Sending
<1> QED
  BY <1>1, <1>2, <1>3
     DEF PairInv, SenderInv, ReceiverInv, RendezvousInv, SlotsInv, BlockedIsRegistered, Blocked

(***************************************************************************)
(* A sender that runs on an open channel finds no message of a rendezvous: *)
(* its own has been taken, and the receiver it was handed to has run.      *)
(***************************************************************************)
LEMMA NothingOnOffer ==
    ASSUME NEW s, NEW r, PairInv(s, r), s # r, s # None, r # None,
           sched[s] = "Runnable", donee \in {None, s}
    PROVE  recv_closed \/ pending_send = None
BY DEF PairInv, RendezvousInv, Blocked

(***************************************************************************)
(* Waking a peer and registering a thread go together in every step, so a  *)
(* blocked thread stays the one that the channel wakes.                    *)
(***************************************************************************)
LEMMA PairKept ==
    ASSUME TypeOK, CallsInv, RendezvousDonates, NEW s, NEW r,
           Senders = {s}, Receivers = {r}, PairInv(s, r), NEW t \in Threads, Step(t)
    PROVE  PairInv(s, r)'
<1>0. /\ Threads = {s, r} /\ s # r /\ s # None /\ r # None /\ None \notin Msgs
      /\ blocked_sender \in {s, None} /\ blocked_receiver \in {r, None}
      /\ capacity \in Nat /\ queue \in Seq(Msgs) /\ Len(queue) \in Nat
      /\ Len(queue) <= capacity /\ call \in [Threads -> CallRecord]
      /\ sched \in [Threads -> {"Runnable", "Blocked"}]
  BY Types, Kinds
<1>1. SenderInv(s, r) /\ ReceiverInv(r) /\ RendezvousInv(s, r)
  BY DEF PairInv
<1>2. ~Sending(r) /\ call[s].fn # "recv" /\ (call[s].fn = "send_retry" => capacity > 0)
  BY <1>0 DEF CallsInv
<1>3. queue = <<>> <=> Len(queue) = 0
  BY <1>0, EmptySeq
<1>4. ASSUME NEW m \in Msgs, NEW a \in {None, t}, Attempts(t, m, a)
      PROVE  /\ t = s /\ sched[s] = "Runnable" /\ capacity' = capacity
             /\ recv_closed' = recv_closed /\ send_closed' = send_closed
             /\ recv_closed \/ pending_send = None
             /\ blocked_sender = None
  <2>1. /\ t = s /\ sched[s] = "Runnable" /\ capacity' = capacity /\ donee \in {None, s}
        /\ recv_closed' = recv_closed /\ send_closed' = send_closed
    BY <1>0, <1>4, AttemptFacts
  <2>2. blocked_sender = None
    BY <1>0, <1>1, <2>1 DEF SenderInv
  <2> QED
    BY <1>0, <2>1, <2>2, NothingOnOffer
<1>5. ASSUME NEW m \in Msgs, NEW a \in {None, t}, Fails(t, m, a) PROVE PairInv(s, r)'
  <2>1. /\ Attempts(t, m, a) /\ call'[s].fn = "user" /\ call'[r] = call[r]
        /\ UNCHANGED <<chan, sched>>
    BY <1>0, <1>4, <1>5 DEF Fails, CallBecomes
  <2>2. UNCHANGED <<queue, pending_send, blocked_sender, blocked_receiver,
                    pending_send_port, sched>>
    BY <2>1 DEF chan
  <2> QED
    BY <1>0, <1>1, <1>4, <2>1, <2>2
       DEF PairInv, SenderInv, ReceiverInv, RendezvousInv, Blocked, MessageReady
<1>6. ASSUME NEW m \in Msgs, NEW a \in {None, t}, Accepts(t, m, a) PROVE PairInv(s, r)'
  <2>1. /\ Attempts(t, m, a) /\ call'[s].fn = "user" /\ call'[r] = call[r]
        /\ ~recv_closed /\ Offer(m) /\ UNCHANGED <<blocked_sender, pending_send_port>>
        /\ DonateIfHandedOver \/ (capacity \in PortShared /\ donee' = None)
    BY <1>0, <1>4, <1>6 DEF Accepts, CallBecomes, SendAccepted, Offer
  <2>2. pending_send = None /\ blocked_sender' = None
    BY <1>4, <2>1
  <2>3. CASE HandOver(m)
    <3>1. /\ blocked_receiver = r /\ blocked_receiver' = None /\ sched' = Unblocked(r)
          /\ pending_send' = (IF capacity = 0 THEN m ELSE None)
      BY <1>0, <2>2, <2>3 DEF HandOver
    <3>2. sched'[r] = "Runnable" /\ sched'[s] = "Runnable"
      BY <1>0, <1>4, <2>1, <3>1, UnblockedThread
    <3>3. call'[r].fn = "recv"
      BY <1>1, <2>1, <3>1 DEF ReceiverInv, Blocked
    <3>4. capacity = 0 => donee' = r
      BY <1>0, <2>1, <3>1 DEF DonateIfHandedOver, RendezvousDonates
    <3> QED
      BY <1>0, <1>4, <2>1, <2>2, <3>1, <3>2, <3>3, <3>4
         DEF PairInv, SenderInv, ReceiverInv, RendezvousInv, Blocked
  <2>4. CASE ToPort(m) \/ Enqueue(m)
    <3>1. /\ blocked_receiver = None /\ blocked_receiver' = None /\ sched' = sched
          /\ pending_send' = pending_send
      BY <1>0, <2>4 DEF ToPort, Enqueue
    <3>2. ~Blocked(r, "recv")
      BY <1>0, <1>1, <3>1 DEF ReceiverInv
    <3> QED
      BY <1>0, <1>4, <2>1, <2>2, <3>1, <3>2
         DEF PairInv, SenderInv, ReceiverInv, RendezvousInv, Blocked
  <2> QED
    BY <2>1, <2>3, <2>4 DEF Offer
<1>7. ASSUME NEW m \in Msgs, ~CanOffer, Blocked(r, "recv") PROVE FALSE
  BY <1>0, <1>1, <1>3, <1>7 DEF ReceiverInv, CanOffer, Accepting, MessageReady
<1>8. ASSUME NEW m \in Msgs, NEW a \in {None, t}, Waits(t, m, a) PROVE PairInv(s, r)'
  <2>1. /\ Attempts(t, m, a) /\ SendBlocks(s, m) /\ ~recv_closed /\ ~CanOffer
        /\ blocked_sender' = s /\ UNCHANGED <<queue, blocked_receiver>>
    BY <1>4, <1>8 DEF Waits, SendBlocks
  <2>2. ~Blocked(r, "recv") /\ pending_send = None
    BY <1>4, <1>7, <2>1
  <2>3. \E f \in {"send_block", "send_retry"} :
           /\ Blocks(s, f, m) /\ (f = "send_block" <=> capacity = 0)
           /\ pending_send' = IF capacity = 0 THEN m ELSE None
    BY <2>1, <2>2 DEF SendBlocks
  <2>4. /\ sched'[s] = "Blocked" /\ sched'[r] = sched[r] /\ call'[r] = call[r]
        /\ call'[s].fn = (IF capacity = 0 THEN "send_block" ELSE "send_retry")
        /\ call'[s].msg = m /\ pending_send' = IF capacity = 0 THEN m ELSE None
    BY <1>0, <2>3 DEF Blocks
  <2>5. blocked_receiver' = None
    BY <1>0, <1>1, <2>1, <2>2 DEF ReceiverInv
  <2>6. capacity > 0 => Len(queue') = capacity'
    BY <1>0, <1>4, <2>1 DEF CanOffer, Accepting
  <2>7. SenderInv(s, r)'
    BY <1>0, <1>4, <2>1, <2>4, <2>6 DEF SenderInv, Blocked, Sending
  <2>8. ReceiverInv(r)'
    BY <1>0, <2>2, <2>4, <2>5 DEF ReceiverInv, Blocked
  <2>9. RendezvousInv(s, r)'
    BY <1>0, <1>4, <2>1, <2>4 DEF RendezvousInv, Blocked
  <2> QED
    BY <2>7, <2>8, <2>9 DEF PairInv
<1>9. ASSUME NEW m \in Msgs, NEW a \in {None, t}, Arms(t, m, a) PROVE PairInv(s, r)'
  <2>1. /\ Attempts(t, m, a) /\ ~recv_closed /\ ~CanOffer /\ call' = call
        /\ UNCHANGED <<queue, pending_send, blocked_sender, blocked_receiver, sched>>
    BY <1>9 DEF Arms, SendArmed
  <2>2. ~Blocked(r, "recv") /\ pending_send = None
    BY <1>4, <1>7, <2>1
  <2> QED
    BY <1>0, <1>1, <1>4, <2>1, <2>2
       DEF PairInv, SenderInv, ReceiverInv, RendezvousInv, Blocked
<1>10. CASE SendResumes(t) /\ UNCHANGED capacity
  <2>1. /\ sched[t] = "Runnable" /\ donee \in {None, t} /\ call[t].fn = "send_block"
        /\ call' = [call EXCEPT ![t] = InUser] /\ UNCHANGED <<chan, ends, sched>>
    BY <1>10 DEF SendResumes, Returns, Runs
  <2>2. t = s
    BY <1>0, <1>2, <2>1 DEF Sending
  <2>3. /\ recv_closed \/ pending_send = None
        /\ call'[s].fn = "user" /\ call'[r] = call[r]
        /\ UNCHANGED <<queue, pending_send, blocked_sender, blocked_receiver,
                       pending_send_port, sched, send_closed, recv_closed>>
    BY <1>0, <2>1, <2>2, NothingOnOffer DEF chan, ends, InUser
  <2> QED
    BY <1>0, <1>1, <1>10, <2>1, <2>2, <2>3
       DEF PairInv, SenderInv, ReceiverInv, RendezvousInv, Blocked, MessageReady
<1>11. ASSUME Receiving(t)
       PROVE  /\ t = r /\ sched[r] = "Runnable" /\ capacity' = capacity
              /\ recv_closed' = recv_closed /\ send_closed' = send_closed
              /\ call[r].fn \in {"user", "recv"} /\ blocked_receiver = None
  <2>1. /\ t = r /\ sched[r] = "Runnable" /\ capacity' = capacity
        /\ recv_closed' = recv_closed /\ send_closed' = send_closed
        /\ call[r].fn \in {"user", "recv"}
    BY <1>0, <1>11 DEF Receiving, OnCpu, ends
  <2> QED
    BY <1>0, <1>1, <2>1 DEF ReceiverInv, Blocked
<1>12. CASE Receives(t)
  <2>1. /\ Receiving(t) /\ Take /\ call'[r].fn = "user" /\ call'[s] = call[s]
        /\ blocked_receiver' = blocked_receiver
    BY <1>0, <1>11, <1>12 DEF Receives, CallBecomes, Take
  <2>2. CASE TakePending \/ Dequeue
    <3>1. WakeSender /\ pending_send' = None
      BY <1>0, <1>1, <2>2 DEF TakePending, Dequeue, RendezvousInv
    <3>2. /\ blocked_sender' = None /\ sched'[r] = "Runnable"
          /\ ~(sched'[s] = "Blocked" /\ Sending(s))
      <4>1. CASE blocked_sender = s
        BY <1>0, <1>11, <2>1, <3>1, <4>1, UnblockedThread DEF WakeSender
      <4>2. CASE blocked_sender = None
        BY <1>0, <1>1, <1>11, <2>1, <3>1, <4>2 DEF WakeSender, SenderInv, Blocked, Sending
      <4> QED
        BY <1>0, <4>1, <4>2
    <3> QED
      BY <1>0, <1>11, <2>1, <3>1, <3>2
         DEF PairInv, SenderInv, ReceiverInv, RendezvousInv, Blocked, Sending
  <2>3. CASE TakeFromPort
    <3>1. /\ capacity = 0 /\ pending_send = None
          /\ UNCHANGED <<queue, pending_send, blocked_sender, sched>>
      BY <2>3 DEF TakeFromPort
    <3> QED
      BY <1>0, <1>1, <1>11, <2>1, <3>1
         DEF PairInv, SenderInv, ReceiverInv, RendezvousInv, Blocked, Sending
  <2> QED
    BY <2>1, <2>2, <2>3 DEF Take
<1>13. CASE Sleeps(t)
  <2>1. /\ Receiving(t) /\ ~MessageReady /\ ~send_closed /\ blocked_receiver' = r
        /\ Blocks(r, "recv", None)
        /\ UNCHANGED <<queue, pending_send, blocked_sender, pending_send_port>>
    BY <1>11, <1>13 DEF Sleeps, RecvBlocks
  <2>2. /\ sched'[r] = "Blocked" /\ call'[r].fn = "recv" /\ sched'[s] = sched[s]
        /\ call'[s] = call[s]
    BY <1>0, <2>1 DEF Blocks
  <2>3. pending_send = None /\ ~MessageReady'
    BY <1>0, <1>1, <1>11, <2>1 DEF MessageReady, RendezvousInv
  <2> QED
    BY <1>0, <1>1, <1>11, <2>1, <2>2, <2>3
       DEF PairInv, SenderInv, ReceiverInv, RendezvousInv, Blocked, Sending
<1>14. CASE ArmsRecv(t)
  <2>1. /\ Receiving(t) /\ ~MessageReady /\ call' = call
        /\ UNCHANGED <<queue, pending_send, blocked_sender, blocked_receiver, sched>>
    BY <1>14 DEF ArmsRecv, RecvArmed
  <2>2. pending_send = None
    BY <1>0, <1>1, <2>1 DEF MessageReady, RendezvousInv
  <2> QED
    BY <1>0, <1>1, <1>11, <2>1, <2>2
       DEF PairInv, SenderInv, ReceiverInv, RendezvousInv, Blocked, Sending
<1>15. CASE Idles(t)
  <2>1. /\ sched[t] = "Runnable" /\ donee \in {None, t} /\ call[t].fn \in {"user", "recv"}
        /\ call[t].fn = "recv" => ~MessageReady
        /\ call'[t].fn \in {"user", "gone"} /\ \A u \in Threads \ {t} : call'[u] = call[u]
    BY <1>15 DEF Idles, OnCpu, CallBecomes
  <2>2. UNCHANGED <<queue, pending_send, blocked_sender, blocked_receiver,
                    pending_send_port, sched, send_closed, recv_closed, capacity>>
    BY <1>15 DEF Idles, chan
  <2>3. CASE t = s
    <3>1. recv_closed \/ pending_send = None
      BY <1>0, <2>1, <2>3, NothingOnOffer
    <3> QED
      BY <1>0, <1>1, <2>1, <2>2, <2>3, <3>1
         DEF PairInv, SenderInv, ReceiverInv, RendezvousInv, Blocked, Sending, MessageReady
  <2>4. CASE t = r
    <3>1. pending_send # None /\ ~recv_closed => Blocked(s, "send_block")
      BY <1>0, <1>1, <2>1, <2>4 DEF RendezvousInv, MessageReady
    <3> QED
      BY <1>0, <1>1, <2>1, <2>2, <2>4, <3>1
         DEF PairInv, SenderInv, ReceiverInv, RendezvousInv, Blocked, Sending, MessageReady
  <2> QED
    BY <1>0, <2>3, <2>4
<1>16. ASSUME NEW notify \in BOOLEAN, Closes(t, notify) PROVE PairInv(s, r)'
  <2>1. /\ sched[t] = "Runnable" /\ donee \in {None, t} /\ call[t].fn = "user"
        /\ call'[t].fn \in {"user", "gone"} /\ \A u \in Threads \ {t} : call'[u] = call[u]
        /\ CloseLast(t, notify) /\ capacity' = capacity
    BY <1>16 DEF Closes, OnCpu, CallBecomes
  <2>2. CASE t = s
    <3>1. /\ CloseSendLast(notify) /\ blocked_receiver' = None
          /\ UNCHANGED <<queue, pending_send, blocked_sender, recv_closed>>
      BY <2>1, <2>2 DEF CloseLast, CloseSendLast
    <3>2. recv_closed \/ pending_send = None
      BY <1>0, <2>1, <2>2, NothingOnOffer
    <3>3. sched'[s] = "Runnable" /\ ~(sched'[r] = "Blocked" /\ call[r].fn = "recv")
      <4>1. CASE blocked_receiver = r
        BY <1>0, <2>1, <2>2, <3>1, <4>1, UnblockedThread DEF CloseSendLast
      <4>2. CASE blocked_receiver = None
        BY <1>0, <1>1, <2>1, <2>2, <3>1, <4>2 DEF CloseSendLast, ReceiverInv, Blocked
      <4> QED
        BY <1>0, <4>1, <4>2
    <3>4. blocked_sender' = None
      BY <1>0, <1>1, <2>1, <2>2, <3>1 DEF SenderInv
    <3> QED
      BY <1>0, <1>1, <2>1, <2>2, <3>1, <3>2, <3>3, <3>4
         DEF PairInv, SenderInv, ReceiverInv, RendezvousInv, Blocked
  <2>3. CASE t = r
    <3>1. /\ CloseRecvLast(notify) /\ blocked_sender' = None /\ recv_closed'
          /\ UNCHANGED <<queue, pending_send, blocked_receiver, send_closed>>
      BY <1>0, <2>1, <2>3 DEF CloseLast, CloseRecvLast
    <3>2. sched'[r] = "Runnable" /\ ~(sched'[s] = "Blocked" /\ Sending(s))
      <4>1. CASE blocked_sender = s
        BY <1>0, <2>1, <2>3, <3>1, <4>1, UnblockedThread DEF CloseRecvLast
      <4>2. CASE blocked_sender = None
        BY <1>0, <1>1, <2>1, <2>3, <3>1, <4>2 DEF CloseRecvLast, SenderInv, Blocked, Sending
      <4> QED
        BY <1>0, <4>1, <4>2
    <3>3. blocked_receiver' = None
      BY <1>0, <1>1, <2>1, <2>3, <3>1 DEF ReceiverInv, Blocked
    <3>4. call'[s] = call[s] /\ capacity' = capacity
      BY <1>0, <2>1, <2>3
    <3> QED
      BY <1>0, <1>1, <3>1, <3>2, <3>3, <3>4
         DEF PairInv, SenderInv, ReceiverInv, RendezvousInv, Blocked, Sending
  <2> QED
    BY <1>0, <2>2, <2>3
<1> QED
  BY <1>5, <1>6, <1>8, <1>9, <1>10, <1>12, <1>13, <1>14, <1>15, <1>16 DEF Step

-----------------------------------------------------------------------------
Placed == Range(delivered) \cup Range(queue) \cup Slots

(***************************************************************************)
(* The message of a sender that attempts to send is nowhere yet: it is new *)
(* or the sender has kept it.                                              *)
(***************************************************************************)
LEMMA AttemptIsNew ==
    ASSUME TypeOK, CallsInv, PlaceInv, NEW t \in Threads, NEW m \in Msgs,
           NEW a \in {None, t}, Attempts(t, m, a)
    PROVE  m \notin Placed
<1>1. CASE SendsNew(t, m, a)
  BY <1>1, Types DEF SendsNew, PlaceInv, Placed
<1>2. CASE SendsAgain(t, m, a)
  BY <1>2 DEF SendsAgain, PlaceInv, Placed
<1> QED
  BY <1>1, <1>2 DEF Attempts

Apart ==
    /\ IsInjective(delivered) /\ IsInjective(queue)
    /\ Range(delivered) \cap Range(queue) = {}
    /\ Slots \cap (Range(delivered) \cup Range(queue)) = {}
    /\ pending_send # None => pending_send # pending_send_port
    /\ Placed \subseteq 1 .. nmsgs

Kept(s) == call[s].fn = "send_retry" => call[s].msg \notin Placed

(***************************************************************************)
(* PlaceInv speaks of the messages that are placed, and of the one that    *)
(* the sender s of the channel keeps.                                      *)
(***************************************************************************)
LEMMA Places ==
    ASSUME TypeOK, CallsInv, NEW s, Senders = {s}
    PROVE  PlaceInv <=> Apart /\ Kept(s)
<1>1. s \in Threads /\ \A t \in Threads : call[t].fn = "send_retry" => t = s
  BY Kinds DEF CallsInv, Sending
<1> QED
  BY <1>1 DEF PlaceInv, Apart, Kept, Placed

(***************************************************************************)
(* A message is moved from one place to the next and never copied.         *)
(***************************************************************************)
LEMMA PlaceKept ==
    ASSUME TypeOK, CallsInv, PlaceInv, TypeOK', CallsInv', NEW s, Senders = {s},
           NEW t \in Threads, Step(t)
    PROVE  PlaceInv'
<1>0. /\ queue \in Seq(Msgs) /\ delivered \in Seq(Msgs) /\ nmsgs \in Nat /\ nmsgs' \in Nat
      /\ pending_send \in Msgs \cup {None} /\ pending_send_port \in Msgs \cup {None}
      /\ s \in Threads /\ None \notin Msgs /\ call \in [Threads -> CallRecord]
  BY Types, Kinds DEF TypeOK
<1>1. Apart /\ Kept(s)
  BY Places
<1>2. ASSUME Apart', Kept(s)' PROVE PlaceInv'
  <2>1. s \in Threads /\ \A u \in Threads : call'[u].fn = "send_retry" => u = s
    BY Kinds DEF CallsInv, Sending
  <2> QED
    BY <1>2, <2>1 DEF PlaceInv, Apart, Kept, Placed
<1>3. ASSUME UNCHANGED <<queue, delivered>>, pending_send' \in {pending_send, None},
             pending_send_port' \in {pending_send_port, None}, nmsgs <= nmsgs',
             call'[s] = call[s] \/ call'[s].fn # "send_retry"
      PROVE  PlaceInv'
  <2>1. \A n \in 1 .. nmsgs : n \in 1 .. nmsgs'
    BY <1>0, <1>3
  <2>2. Slots' \subseteq Slots /\ Placed' \subseteq Placed
    BY <1>3 DEF Slots, Placed
  <2>3. Apart'
    BY <1>0, <1>1, <1>3, <2>1, <2>2 DEF Apart
  <2>4. Kept(s)'
    BY <1>1, <1>3, <2>2 DEF Kept
  <2> QED
    BY <1>2, <2>3, <2>4
<1>4. ASSUME NEW m \in Msgs, NEW a \in {None, t}, Attempts(t, m, a)
      PROVE  /\ t = s /\ nmsgs <= nmsgs' /\ m \in 1 .. nmsgs' /\ m \notin Placed
             /\ 1 .. nmsgs \subseteq 1 .. nmsgs'
  <2>1. t = s /\ nmsgs <= nmsgs' /\ m \in 1 .. nmsgs'
    BY <1>4, AttemptFacts
  <2> QED
    BY <1>0, <1>4, <2>1, AttemptIsNew
<1>5. ASSUME NEW m \in Msgs, NEW a \in {None, t}, Fails(t, m, a) PROVE PlaceInv'
  BY <1>3, <1>4, <1>5 DEF Fails, CallBecomes, chan
<1>6. ASSUME NEW m \in Msgs, NEW a \in {None, t}, Accepts(t, m, a) PROVE PlaceInv'
  <2>1. /\ Attempts(t, m, a) /\ call'[s].fn = "user" /\ Offer(m)
        /\ pending_send_port' = pending_send_port
    BY <1>4, <1>6 DEF Accepts, CallBecomes, SendAccepted, Offer
  <2>2. Kept(s)'
    BY <2>1 DEF Kept
  <2> DEFINE Q == Append(queue, m)
  <2>3. /\ Q \in Seq(Msgs) /\ Q # <<>> /\ Range(Q) = Range(queue) \cup {m}
        /\ IsInjective(Q)
    BY <1>0, <1>1, <1>4, <2>1, PushesBack DEF Apart, Placed
  <2>4. CASE queue' = Q /\ UNCHANGED <<delivered, pending_send>>
    BY <1>1, <1>2, <1>4, <2>1, <2>2, <2>3, <2>4 DEF Apart, Placed, Slots
  <2>5. CASE pending_send' = m /\ UNCHANGED <<queue, delivered>>
    BY <1>1, <1>2, <1>4, <2>1, <2>2, <2>5 DEF Apart, Placed, Slots
  <2>6. CASE /\ queue' = Tail(Q) /\ delivered' = Append(delivered, Head(Q))
             /\ pending_send' = pending_send
    <3> HIDE DEF Q
    <3>1. /\ Head(Q) \in Range(Q) /\ Range(Tail(Q)) = Range(Q) \ {Head(Q)}
          /\ IsInjective(Tail(Q)) /\ Head(Q) \in Msgs
      BY <2>3, PopFront, HeadTailProperties
    <3>2. Head(Q) \notin Range(delivered)
      BY <1>1, <1>4, <2>1, <2>3, <3>1 DEF Apart, Placed
    <3>3. /\ IsInjective(Append(delivered, Head(Q)))
          /\ Range(Append(delivered, Head(Q))) = Range(delivered) \cup {Head(Q)}
      BY <1>0, <1>1, <3>1, <3>2, PushesBack DEF Apart
    <3>4. Apart'
      BY <1>1, <1>4, <2>1, <2>3, <2>6, <3>1, <3>3 DEF Apart, Placed, Slots
    <3> QED
      BY <1>2, <2>2, <3>4
  <2> QED
    BY <2>1, <2>4, <2>5, <2>6 DEF Offer, HandOver, ToPort, Enqueue
<1>7. ASSUME NEW m \in Msgs, NEW a \in {None, t}, Waits(t, m, a) PROVE PlaceInv'
  <2>1. /\ Attempts(t, m, a) /\ SendBlocks(s, m)
        /\ UNCHANGED <<queue, delivered, pending_send_port>>
    BY <1>4, <1>7 DEF Waits, SendBlocks
  <2>2. CASE capacity = 0
    <3>1. pending_send' = m /\ call'[s].fn = "send_block"
      BY <1>0, <2>1, <2>2 DEF SendBlocks, Blocks
    <3> QED
      BY <1>1, <1>2, <1>4, <2>1, <3>1 DEF Apart, Kept, Placed, Slots
  <2>3. CASE capacity # 0
    <3>1. pending_send' = pending_send /\ call'[s].msg = m
      BY <1>0, <2>1, <2>3 DEF SendBlocks, Blocks
    <3> QED
      BY <1>1, <1>2, <1>4, <2>1, <3>1 DEF Apart, Kept, Placed, Slots
  <2> QED
    BY <2>2, <2>3
<1>8. ASSUME NEW m \in Msgs, NEW a \in {None, t}, Arms(t, m, a) PROVE PlaceInv'
  <2>1. /\ Attempts(t, m, a) /\ call' = call /\ call[t].fn = "user"
        /\ pending_send_port' = m /\ UNCHANGED <<queue, delivered, pending_send>>
    BY <1>8 DEF Arms, SendArmed, SendsNew
  <2> QED
    BY <1>1, <1>2, <1>4, <2>1 DEF Apart, Kept, Placed, Slots
<1>9. CASE SendResumes(t)
  <2>1. call'[s] = call[s] \/ call'[s].fn = "user"
    BY <1>0, <1>9 DEF SendResumes, Returns, InUser
  <2> QED
    BY <1>0, <1>3, <1>9, <2>1 DEF SendResumes, chan
<1>10. CASE Receives(t)
  <2>1. Take /\ nmsgs' = nmsgs /\ (call'[s] = call[s] \/ call'[s].fn = "user")
    BY <1>0, <1>10 DEF Receives, Receiving, CallBecomes
  <2>2. ASSUME NEW x \in Msgs, x \in Placed \ Range(delivered),
               delivered' = Append(delivered, x), Placed' \subseteq Placed,
               IsInjective(queue'), x \notin Range(queue'),
               Range(queue') \cap Range(delivered) = {},
               Slots' \subseteq Slots \ {x}, Slots' \cap Range(queue') = {},
               pending_send' # None => pending_send' # pending_send_port'
        PROVE  PlaceInv'
    <3>1. /\ IsInjective(delivered') /\ Range(delivered') = Range(delivered) \cup {x}
      BY <1>0, <1>1, <2>2, PushesBack DEF Apart
    <3>2. Apart'
      BY <1>1, <2>1, <2>2, <3>1 DEF Apart
    <3>3. Kept(s)'
      BY <1>1, <2>1, <2>2 DEF Kept
    <3> QED
      BY <1>2, <3>2, <3>3
  <2>3. CASE TakePending \/ TakeFromPort
    <3>1. PICK x \in Msgs :
             /\ x \in Slots /\ delivered' = Append(delivered, x) /\ queue' = queue
             /\ \/ x = pending_send /\ pending_send' = None
                   /\ pending_send_port' = pending_send_port
                \/ x = pending_send_port /\ pending_send_port' = None
                   /\ pending_send' = pending_send /\ pending_send = None
      BY <1>0, <2>3 DEF TakePending, TakeFromPort, Slots
    <3>2. Slots' \subseteq Slots \ {x}
      BY <1>0, <1>1, <3>1 DEF Slots, Apart
    <3>3. Range(delivered') = Range(delivered) \cup {x}
      BY <1>0, <3>1, PushesBack
    <3>4. Placed' \subseteq Placed
      BY <3>1, <3>2, <3>3 DEF Placed
    <3> QED
      BY <1>1, <2>2, <3>1, <3>2, <3>4 DEF Apart, Placed
  <2>4. CASE Dequeue
    <3>0. queue # <<>> /\ delivered' = Append(delivered, Head(queue))
          /\ pending_send' = pending_send
      BY <2>4 DEF Dequeue
    <3> DEFINE x == Head(queue)
               T == Tail(queue)
    <3>1. /\ x \in Range(queue) /\ T \in Seq(Msgs) /\ Range(T) = Range(queue) \ {x}
          /\ IsInjective(T) /\ x \in Msgs
      BY <1>0, <1>1, <3>0, PopFront, HeadTailProperties DEF Apart
    <3>2. Range(delivered') = Range(delivered) \cup {x}
      BY <1>0, <3>0, <3>1, PushesBack
    <3>3. CASE queue' = T /\ pending_send_port' = pending_send_port
      <4> HIDE DEF x, T
      <4>1. Slots' = Slots /\ Placed' \subseteq Placed
        BY <3>0, <3>1, <3>2, <3>3 DEF Slots, Placed
      <4>2. x \in Placed \ Range(delivered) /\ x \notin Slots
        BY <1>1, <3>1 DEF Apart, Placed
      <4>3. delivered' = Append(delivered, x)
        BY <3>0 DEF x
      <4> QED
        BY <1>1, <2>2, <3>0, <3>1, <3>3, <4>1, <4>2, <4>3 DEF Apart
    <3>4. CASE /\ pending_send_port \in Msgs /\ pending_send_port' = None
               /\ queue' = Append(T, pending_send_port)
      <4>3. delivered' = Append(delivered, x)
        BY <3>0
      <4> HIDE DEF x, T
      <4>0. pending_send_port \in Slots /\ pending_send_port \notin Range(T)
        BY <1>0, <1>1, <3>1, <3>4 DEF Slots, Apart
      <4>1. /\ IsInjective(queue') /\ Range(queue') = Range(T) \cup {pending_send_port}
        BY <3>1, <3>4, <4>0, PushesBack
      <4>2. x \in Placed \ Range(delivered) /\ x \notin Slots
        BY <1>1, <3>1 DEF Apart, Placed
      <4>4. Slots' = Slots \ {pending_send_port}
        BY <1>0, <1>1, <3>0, <3>4 DEF Slots, Apart
      <4>5. Placed' \subseteq Placed
        BY <3>1, <3>2, <4>0, <4>1, <4>4 DEF Placed
      <4>6. Slots' \cap Range(queue') = {} /\ x \notin Range(queue')
            /\ Range(queue') \cap Range(delivered) = {}
        BY <1>1, <3>1, <4>0, <4>1, <4>2, <4>4 DEF Apart
      <4> QED
        BY <2>2, <3>1, <3>4, <3>0, <1>0, <4>1, <4>2, <4>3, <4>4, <4>5, <4>6
    <3> QED
      BY <1>0, <2>4, <3>3, <3>4 DEF Dequeue
  <2> QED
    BY <2>1, <2>3, <2>4 DEF Take
<1>11. CASE Sleeps(t)
  <2>1. call'[s] = call[s] \/ call'[s].fn = "recv"
    BY <1>0, <1>11 DEF Sleeps, RecvBlocks, Blocks
  <2> QED
    BY <1>0, <1>3, <1>11, <2>1 DEF Sleeps, Receiving, RecvBlocks
<1>12. CASE ArmsRecv(t)
  BY <1>0, <1>3, <1>12 DEF ArmsRecv, Receiving, RecvArmed
<1>13. CASE Idles(t)
  BY <1>0, <1>3, <1>13 DEF Idles, CallBecomes, chan, ops
<1>14. ASSUME NEW notify \in BOOLEAN, Closes(t, notify) PROVE PlaceInv'
  <2>1. /\ UNCHANGED <<queue, delivered, pending_send, nmsgs>>
        /\ call'[s] = call[s] \/ call'[s].fn \in {"user", "gone"}
    BY <1>0, <1>14, CloseTypes DEF Closes, CallBecomes
  <2>2. pending_send_port' \in {pending_send_port, None}
    BY <1>14 DEF Closes, CloseLast, CloseSendLast, CloseRecvLast
  <2> QED
    BY <1>0, <1>3, <2>1, <2>2
<1> QED
  BY <1>5, <1>6, <1>7, <1>8, <1>9, <1>10, <1>11, <1>12, <1>13, <1>14 DEF Step

-----------------------------------------------------------------------------
SentInv(s) ==
    /\ Sending(s) => outcome[call[s].msg] = "pending" /\ async[call[s].msg] = None
    /\ pending_send_port # None =>
          outcome[pending_send_port] = "pending" /\ async[pending_send_port] # None

(***************************************************************************)
(* What a step does to the outcomes keeps the message of a waiting sender, *)
(* and that of a registered OP_IPC_SEND, pending.                          *)
(***************************************************************************)
LEMMA OutcomeKept ==
    ASSUME TypeOK, CallsInv, PlaceInv, OutcomeInv, CallsInv', NEW s, Senders = {s},
           NEW t \in Threads, Step(t)
    PROVE  OutcomeInv'
<1>0. /\ pending_send_port \in Msgs \cup {None} /\ s \in Threads /\ None \notin Msgs
      /\ call \in [Threads -> CallRecord] /\ outcome \in [Msgs -> Outcomes]
      /\ async \in [Msgs -> Senders \cup {None}] /\ None # s
  BY Types, Kinds
<1>1. SentInv(s)
  BY <1>0 DEF OutcomeInv, SentInv
<1>2. ASSUME SentInv(s)' PROVE OutcomeInv'
  <2>1. \A u \in Threads : Sending(u)' => u = s
    BY DEF CallsInv
  <2> QED
    BY <1>2, <2>1 DEF OutcomeInv, SentInv
<1>3. Sending(s) => call[s].msg \in Msgs
  <2>1. Sending(s) => call[s].msg \in 1 .. nmsgs
    BY <1>0 DEF CallsInv
  <2> QED
    BY <2>1, Types DEF Msgs
<1>4. ASSUME NEW m \in Msgs, NEW a \in {None, t}, Attempts(t, m, a), NEW o, Settle(m, o)
      PROVE  /\ t = s /\ m # pending_send_port /\ outcome'[m] = o
             /\ \A n \in Msgs \ {m} : outcome'[n] = outcome[n] /\ async'[n] = async[n]
  BY <1>0, <1>4, AttemptFacts, AttemptIsNew DEF Settle, Placed, Slots
<1>5. ASSUME NEW m \in Msgs, NEW a \in {None, t}, Fails(t, m, a) \/ Accepts(t, m, a)
      PROVE  OutcomeInv'
  <2>1. /\ Attempts(t, m, a) /\ (\E o : Settle(m, o))
        /\ pending_send_port' = pending_send_port /\ call'[t].fn = "user"
    BY <1>5 DEF Fails, Accepts, SendAccepted, Offer, CallBecomes, chan
  <2> QED
    BY <1>0, <1>1, <1>2, <1>4, <2>1 DEF SentInv, Sending
<1>6. ASSUME NEW m \in Msgs, NEW a \in {None, t}, Waits(t, m, a) PROVE OutcomeInv'
  <2>1. /\ Attempts(t, m, a) /\ a = None /\ Settle(m, "pending") /\ SendBlocks(t, m)
        /\ pending_send_port' = pending_send_port
    BY <1>6 DEF Waits, SendBlocks
  <2>2. t = s /\ call'[s].msg = m
    BY <1>0, <1>4, <2>1 DEF SendBlocks, Blocks
  <2>3. async'[m] = None
    <3>1. CASE SendsNew(t, m, a)
      BY <2>1, <3>1, AttemptFacts
    <3>2. CASE SendsAgain(t, m, a)
      BY <1>1, <2>2, <3>2 DEF SendsAgain, SentInv, Sending
    <3> QED
      BY <2>1, <3>1, <3>2 DEF Attempts
  <2> QED
    BY <1>0, <1>1, <1>2, <1>4, <2>1, <2>2, <2>3 DEF SentInv
<1>7. ASSUME NEW m \in Msgs, NEW a \in {None, t}, Arms(t, m, a) PROVE OutcomeInv'
  <2>1. /\ Attempts(t, m, a) /\ a = t /\ Settle(m, "pending") /\ SendsNew(t, m, a)
        /\ pending_send_port' = m /\ call' = call /\ call[t].fn = "user"
    BY <1>7 DEF Arms, SendArmed, SendsNew
  <2>2. t = s /\ async'[m] = t /\ outcome'[m] = "pending"
    BY <1>4, <2>1, AttemptFacts
  <2> QED
    BY <1>0, <1>2, <2>1, <2>2 DEF SentInv, Sending
<1>8. CASE SendResumes(t)
  <2>1. /\ call[t].fn = "send_block" /\ call'[t].fn = "user"
        /\ UNCHANGED <<pending_send_port, async>>
        /\ \E o : outcome' = [outcome EXCEPT ![call[t].msg] = o]
    BY <1>0, <1>8 DEF SendResumes, Runs, Returns, InUser, Settle, chan
  <2>2. t = s
    BY <2>1 DEF CallsInv, Sending
  <2>3. pending_send_port # None => pending_send_port # call[s].msg
    BY <1>1, <2>1, <2>2 DEF SentInv, Sending
  <2> QED
    BY <1>0, <1>1, <1>2, <2>1, <2>2, <2>3 DEF SentInv, Sending
<1>9. ASSUME async' = async, call'[s] = call[s] \/ call'[s].fn \in {"user", "recv", "gone"},
             \/ outcome' = outcome /\ pending_send_port' \in {pending_send_port, None}
             \/ /\ pending_send_port # None /\ pending_send_port' = None
                /\ \E o : Settle(pending_send_port, o)
      PROVE  OutcomeInv'
  <2>1. Sending(s)' => Sending(s) /\ call'[s].msg = call[s].msg
    BY <1>9 DEF Sending
  <2>2. Sending(s) => outcome'[call[s].msg] = "pending"
    BY <1>0, <1>1, <1>3, <1>9 DEF SentInv, Settle
  <2> QED
    BY <1>0, <1>1, <1>2, <1>9, <2>1, <2>2 DEF SentInv
<1>10. CASE Receives(t)
  <2>1. async' = async /\ (call'[s] = call[s] \/ call'[s].fn = "user")
    BY <1>0, <1>10 DEF Receives, Receiving, CallBecomes
  <2>2. \/ outcome' = outcome /\ pending_send_port' = pending_send_port
        \/ /\ pending_send_port # None /\ pending_send_port' = None
           /\ Settle(pending_send_port, "ok")
    BY <1>10 DEF Receives, Take, TakePending, TakeFromPort, Dequeue
  <2> QED
    BY <1>9, <2>1, <2>2
<1>11. CASE Sleeps(t)
  <2>1. call'[s] = call[s] \/ call'[s].fn = "recv"
    BY <1>0, <1>11 DEF Sleeps, RecvBlocks, Blocks
  <2> QED
    BY <1>9, <1>11, <2>1 DEF Sleeps, Receiving, RecvBlocks
<1>12. CASE ArmsRecv(t)
  BY <1>9, <1>12 DEF ArmsRecv, Receiving, RecvArmed
<1>13. CASE Idles(t)
  <2>1. call'[s] = call[s] \/ call'[s].fn \in {"user", "gone"}
    BY <1>0, <1>13 DEF Idles, CallBecomes
  <2> QED
    BY <1>9, <1>13, <2>1 DEF Idles, chan, ops
<1>14. ASSUME NEW notify \in BOOLEAN, Closes(t, notify) PROVE OutcomeInv'
  <2>1. async' = async /\ (call'[s] = call[s] \/ call'[s].fn \in {"user", "gone"})
    BY <1>0, <1>14 DEF Closes, CallBecomes
  <2>2. \/ outcome' = outcome /\ pending_send_port' \in {pending_send_port, None}
        \/ /\ pending_send_port # None /\ pending_send_port' = None
           /\ Settle(pending_send_port, "EPIPE")
    BY <1>14 DEF Closes, CloseLast, CloseSendLast, CloseRecvLast
  <2> QED
    BY <1>9, <2>1, <2>2
<1> QED
  BY <1>5, <1>6, <1>7, <1>8, <1>10, <1>11, <1>12, <1>13, <1>14 DEF Step

-----------------------------------------------------------------------------
(***************************************************************************)
(* The numbers of q that are in S are in ascending order.                  *)
(***************************************************************************)
Ascending(q, S) ==
    \A i, j \in DOMAIN q : i < j /\ q[i] \in S /\ q[j] \in S => q[i] < q[j]

(***************************************************************************)
(* Order when a message is put behind the others.                          *)
(***************************************************************************)
LEMMA AscendingAppend ==
    ASSUME NEW q \in Seq(Msgs), NEW x \in Msgs, NEW S, Ascending(q, S),
           \A y \in Range(q) : y \in S /\ x \in S => y < x
    PROVE  Ascending(Append(q, x), S)
<1>1. /\ Len(q) \in Nat /\ DOMAIN q = 1 .. Len(q)
      /\ DOMAIN Append(q, x) = 1 .. (Len(q) + 1)
      /\ \A i \in 1 .. Len(q) : Append(q, x)[i] = q[i] /\ q[i] \in Range(q)
      /\ Append(q, x)[Len(q) + 1] = x
  BY AppendProperties, LenProperties DEF Range
<1>2. SUFFICES ASSUME NEW i \in 1 .. (Len(q) + 1), NEW j \in 1 .. (Len(q) + 1), i < j,
                      Append(q, x)[i] \in S, Append(q, x)[j] \in S
               PROVE  Append(q, x)[i] < Append(q, x)[j]
  BY <1>1 DEF Ascending
<1>3. i \in 1 .. Len(q)
  BY <1>1, <1>2
<1>4. CASE j = Len(q) + 1
  BY <1>1, <1>2, <1>3, <1>4
<1>5. CASE j \in 1 .. Len(q)
  BY <1>1, <1>2, <1>3, <1>5 DEF Ascending
<1> QED
  BY <1>1, <1>4, <1>5

(***************************************************************************)
(* Order when the first message is taken.                                  *)
(***************************************************************************)
LEMMA AscendingTail ==
    ASSUME NEW q \in Seq(Msgs), q # <<>>, NEW S, Ascending(q, S)
    PROVE  /\ Ascending(Tail(q), S)
           /\ \A y \in Range(Tail(q)) : Head(q) \in S /\ y \in S => Head(q) < y
<1>1. /\ Len(q) \in Nat /\ Len(q) > 0 /\ DOMAIN q = 1 .. Len(q)
      /\ Tail(q) \in Seq(Msgs) /\ Len(Tail(q)) = Len(q) - 1
      /\ \A i \in 1 .. Len(Tail(q)) : Tail(q)[i] = q[i + 1]
      /\ Head(q) = q[1]
  BY HeadTailProperties, LenProperties, EmptySeq
<1>2. DOMAIN Tail(q) = 1 .. (Len(q) - 1)
  BY <1>1, LenProperties
<1>3. \A i \in 1 .. (Len(q) - 1) : i + 1 \in 1 .. Len(q) /\ 1 < i + 1 /\ Tail(q)[i] = q[i + 1]
  BY <1>1
<1>4. Ascending(Tail(q), S)
  <2>1. SUFFICES ASSUME NEW i \in 1 .. (Len(q) - 1), NEW j \in 1 .. (Len(q) - 1), i < j,
                        Tail(q)[i] \in S, Tail(q)[j] \in S
                 PROVE  Tail(q)[i] < Tail(q)[j]
    BY <1>2 DEF Ascending
  <2>2. i + 1 < j + 1
    BY <1>1, <2>1
  <2> QED
    BY <1>1, <1>3, <2>1, <2>2 DEF Ascending
<1>5. ASSUME NEW y \in Range(Tail(q)), Head(q) \in S, y \in S PROVE Head(q) < y
  <2>1. PICK i \in 1 .. (Len(q) - 1) : y = Tail(q)[i]
    BY <1>2 DEF Range
  <2>2. 1 \in 1 .. Len(q)
    BY <1>1
  <2> QED
    BY <1>1, <1>3, <1>5, <2>1, <2>2 DEF Ascending
<1> QED
  BY <1>4, <1>5

(***************************************************************************)
(* Order depends on the messages of q in S alone.                          *)
(***************************************************************************)
LEMMA AscendingIn ==
    ASSUME NEW q, NEW S, NEW T, Ascending(q, S),
           \A y \in Range(q) : y \in T => y \in S
    PROVE  Ascending(q, T)
BY DEF Ascending, Range

(***************************************************************************)
(* The order of the messages, for the sender s of the channel.             *)
(***************************************************************************)
SyncMsgs == {m \in Msgs : async[m] = None}

LineInv(s) ==
    /\ Ascending(delivered, SyncMsgs) /\ Ascending(queue, SyncMsgs)
    /\ \A m \in Range(delivered), n \in Range(queue) \cup ({pending_send} \ {None}) :
          m \in SyncMsgs /\ n \in SyncMsgs => m < n
    /\ call[s].fn = "send_retry" =>
          \A m \in Range(delivered) \cup Range(queue) : m \in SyncMsgs => m < call[s].msg

(***************************************************************************)
(* With one sender that is what the invariants say.                        *)
(***************************************************************************)
LEMMA Lines ==
    ASSUME TypeOK, CallsInv, NEW s, Senders = {s}
    PROVE  LineInv(s) <=> OrderInv /\ InOrder
<1>1. s \in Threads /\ \A t \in Threads : call[t].fn = "send_retry" => t = s
  BY Kinds DEF CallsInv, Sending
<1>2. /\ \A i \in DOMAIN queue : queue[i] \in Msgs
      /\ \A i \in DOMAIN delivered : delivered[i] \in Msgs
      /\ Range(queue) \subseteq Msgs /\ Range(delivered) \subseteq Msgs
      /\ {pending_send} \ {None} \subseteq Msgs
  <2>1. queue \in Seq(Msgs) /\ delivered \in Seq(Msgs) /\ pending_send \in Msgs \cup {None}
    BY Types
  <2> QED
    BY <2>1, ElementOfSeq, LenProperties DEF Range
<1>3. \A m \in Msgs : m \in SyncMsgs <=> async[m] = None
  BY DEF SyncMsgs
<1>4. InOrder <=> Ascending(delivered, SyncMsgs)
  BY <1>2, <1>3 DEF InOrder, Ascending
<1>5. Ascending(queue, SyncMsgs) <=>
        \A i, j \in DOMAIN queue :
           i < j /\ Sync(queue[i]) /\ Sync(queue[j]) => queue[i] < queue[j]
  BY <1>2, <1>3 DEF Ascending, Sync
<1> QED
  BY <1>1, <1>2, <1>3, <1>4, <1>5 DEF LineInv, OrderInv, Sync

(***************************************************************************)
(* A message goes behind those sent before it, and the first one is taken. *)
(***************************************************************************)
LEMMA LineKept ==
    ASSUME TypeOK, CallsInv, PlaceInv, OutcomeInv, NEW s, NEW r,
           Senders = {s}, Receivers = {r}, PairInv(s, r), LineInv(s),
           NEW t \in Threads, Step(t)
    PROVE  LineInv(s)'
<1>0. /\ queue \in Seq(Msgs) /\ delivered \in Seq(Msgs) /\ nmsgs \in Nat /\ capacity \in Nat
      /\ pending_send \in Msgs \cup {None} /\ pending_send_port \in Msgs \cup {None}
      /\ s \in Threads /\ None \notin Msgs /\ call \in [Threads -> CallRecord]
      /\ Len(queue) \in Nat /\ Len(queue) <= capacity /\ Msgs \subseteq Nat
      /\ s # None /\ r # None /\ s # r
  BY Types, Kinds
<1>1. /\ Ascending(delivered, SyncMsgs) /\ Ascending(queue, SyncMsgs)
      /\ \A m \in Range(delivered), n \in Range(queue) \cup ({pending_send} \ {None}) :
            m \in SyncMsgs /\ n \in SyncMsgs => m < n
      /\ call[s].fn = "send_retry" =>
            \A m \in Range(delivered) \cup Range(queue) : m \in SyncMsgs => m < call[s].msg
  BY DEF LineInv
<1>2. ASSUME UNCHANGED <<queue, delivered, pending_send>>,
             \A x \in Placed : x \in SyncMsgs' => x \in SyncMsgs,
             call'[s] = call[s] \/ call'[s].fn # "send_retry"
      PROVE  LineInv(s)'
  <2>1. Range(queue) \cup Range(delivered) \cup ({pending_send} \ {None}) \subseteq Placed
    BY DEF Placed, Slots
  <2>2. Ascending(delivered, SyncMsgs') /\ Ascending(queue, SyncMsgs')
    BY <1>1, <1>2, <2>1, AscendingIn
  <2> QED
    BY <1>1, <1>2, <2>1, <2>2 DEF LineInv
<1>3. ASSUME NEW m \in Msgs, NEW a \in {None, t}, Attempts(t, m, a)
      PROVE  /\ t = s /\ (recv_closed \/ pending_send = None)
             /\ \A x \in Placed : x \in SyncMsgs' => x \in SyncMsgs
             /\ \A x \in Range(delivered) \cup Range(queue) : x \in SyncMsgs => x < m
  <2>1. /\ t = s /\ donee \in {None, s} /\ sched[s] = "Runnable" /\ m \notin Placed
        /\ \A n \in Msgs \ {m} : async'[n] = async[n]
    BY <1>3, AttemptFacts, AttemptIsNew
  <2>2. recv_closed \/ pending_send = None
    BY <1>0, <2>1, NothingOnOffer
  <2>3. \A x \in Placed : x \in SyncMsgs' => x \in SyncMsgs
    BY <2>1 DEF SyncMsgs
  <2>4. \A x \in Range(delivered) \cup Range(queue) : x \in SyncMsgs => x < m
    <3>1. CASE SendsNew(t, m, a)
      <4>1. \A x \in Range(delivered) \cup Range(queue) : x \in 1 .. nmsgs
        BY DEF PlaceInv
      <4>2. m = nmsgs + 1
        BY <3>1 DEF SendsNew
      <4> QED
        BY <1>0, <4>1, <4>2
    <3>2. CASE SendsAgain(t, m, a)
      BY <1>1, <2>1, <3>2 DEF SendsAgain
    <3> QED
      BY <1>3, <3>1, <3>2 DEF Attempts
  <2> QED
    BY <2>1, <2>2, <2>3, <2>4
<1>4. ASSUME NEW m \in Msgs, NEW a \in {None, t}, Fails(t, m, a) PROVE LineInv(s)'
  BY <1>2, <1>3, <1>4 DEF Fails, CallBecomes, chan
<1>5. ASSUME NEW m \in Msgs, NEW a \in {None, t}, Accepts(t, m, a) PROVE LineInv(s)'
  <2>1. /\ Attempts(t, m, a) /\ call'[s].fn = "user" /\ Offer(m) /\ ~recv_closed
    BY <1>3, <1>5 DEF Accepts, CallBecomes, SendAccepted
  <2> DEFINE Q == Append(queue, m)
             S == SyncMsgs'
  <2>2. \A x \in Range(delivered) \cup Range(queue) : x \in S => x \in SyncMsgs /\ x < m
    BY <1>3, <2>1 DEF Placed
  <2>3. Ascending(delivered, S) /\ Ascending(queue, S)
    <3> HIDE DEF S
    <3> QED
      BY <1>1, <2>2, AscendingIn
  <2>4. /\ Q \in Seq(Msgs) /\ Range(Q) = Range(queue) \cup {m} /\ Q # <<>>
        /\ Ascending(Q, S)
    <3> HIDE DEF S
    <3> QED
      BY <1>0, <2>2, <2>3, PushesBack, AscendingAppend
  <2>5. \A x \in Range(delivered), y \in Range(Q) : x \in S /\ y \in S => x < y
    BY <1>1, <2>2, <2>4
  <2>6. pending_send = None
    BY <1>3, <2>1
  <2>7. CASE queue' = Q /\ UNCHANGED <<delivered, pending_send>>
    <3> HIDE DEF Q
    <3> QED
      BY <2>1, <2>3, <2>4, <2>5, <2>6, <2>7 DEF LineInv
  <2>8. CASE pending_send' = m /\ UNCHANGED <<queue, delivered>>
    <3> HIDE DEF Q
    <3> QED
      BY <1>1, <2>1, <2>2, <2>3, <2>5, <2>8 DEF LineInv
  <2>9. CASE /\ queue' = Tail(Q) /\ delivered' = Append(delivered, Head(Q))
             /\ pending_send' = pending_send
    <3> HIDE DEF Q, S
    <3>1. /\ Head(Q) \in Msgs /\ Head(Q) \in Range(Q) /\ Range(Tail(Q)) \subseteq Range(Q)
      <4>1. IsInjective(Q)
        <5>1. m \notin Range(queue) /\ IsInjective(queue)
          BY <2>1, AttemptIsNew DEF Placed, PlaceInv
        <5> QED
          BY <1>0, <5>1, PushesBack DEF Q
      <4> QED
        BY <2>4, <4>1, PopFront, HeadTailProperties
    <3>2. /\ Ascending(Tail(Q), S)
          /\ \A y \in Range(Tail(Q)) : Head(Q) \in S /\ y \in S => Head(Q) < y
      BY <2>4, AscendingTail
    <3>3. /\ Ascending(delivered', S) /\ Range(delivered') = Range(delivered) \cup {Head(Q)}
      BY ZenonT(40), <1>0, <2>3, <2>5, <2>9, <3>1, PushesBack, AscendingAppend
    <3>4. \A x \in Range(delivered'), y \in Range(queue') : x \in S /\ y \in S => x < y
      BY <2>5, <2>9, <3>1, <3>2, <3>3
    <3>5. pending_send' = None /\ Ascending(queue', S) /\ S = SyncMsgs'
      BY <2>6, <2>9, <3>2 DEF S
    <3> QED
      BY <2>1, <3>3, <3>4, <3>5 DEF LineInv
  <2> QED
    BY <2>1, <2>7, <2>8, <2>9 DEF Offer, HandOver, ToPort, Enqueue
<1>6. ASSUME NEW m \in Msgs, NEW a \in {None, t}, Waits(t, m, a) PROVE LineInv(s)'
  <2>1. /\ Attempts(t, m, a) /\ SendBlocks(s, m) /\ UNCHANGED <<queue, delivered>>
    BY <1>3, <1>6 DEF Waits, SendBlocks
  <2>2. Ascending(delivered, SyncMsgs') /\ Ascending(queue, SyncMsgs')
    <3>1. Range(queue) \cup Range(delivered) \subseteq Placed
      BY DEF Placed
    <3> QED
      BY <1>1, <1>3, <2>1, <3>1, AscendingIn
  <2>3. \A x \in Range(delivered) \cup Range(queue) : x \in SyncMsgs' => x \in SyncMsgs /\ x < m
    BY <1>3, <2>1 DEF Placed
  <2>4. call'[s].msg = m /\ pending_send' \in {m, pending_send} /\ ~recv_closed
    BY <1>0, <2>1 DEF SendBlocks, Blocks
  <2>5. pending_send = None
    BY <1>3, <2>1, <2>4
  <2> QED
    BY <1>0, <1>1, <2>1, <2>2, <2>3, <2>4, <2>5 DEF LineInv
<1>7. ASSUME NEW m \in Msgs, NEW a \in {None, t}, Arms(t, m, a) PROVE LineInv(s)'
  BY <1>2, <1>3, <1>7 DEF Arms, SendArmed
<1>8. ASSUME async' = async PROVE SyncMsgs' = SyncMsgs
  BY <1>8 DEF SyncMsgs
<1>9. CASE SendResumes(t)
  <2>1. call'[s] = call[s] \/ call'[s].fn = "user"
    BY <1>0, <1>9 DEF SendResumes, Returns, InUser
  <2> QED
    BY <1>2, <1>8, <1>9, <2>1 DEF SendResumes, chan
<1>10. CASE Receives(t)
  <2>1. /\ Take /\ SyncMsgs' = SyncMsgs
        /\ call'[s] = call[s] \/ call'[s].fn = "user"
    BY <1>0, <1>8, <1>10 DEF Receives, Receiving, CallBecomes
  <2>2. pending_send_port # None => pending_send_port \notin SyncMsgs
    BY DEF OutcomeInv, SyncMsgs
  <2>3. capacity = 0 => queue = <<>> /\ Range(queue) = {} /\ call'[s].fn # "send_retry"
    <3>1. ASSUME capacity = 0 PROVE queue = <<>>
      BY <1>0, <3>1, EmptySeq
    <3>2. capacity = 0 => call[s].fn # "send_retry"
      BY <1>0 DEF CallsInv
    <3>3. queue = <<>> => Range(queue) = {}
      BY <1>0, EmptySeq, LenProperties DEF Range
    <3> QED
      BY <2>1, <3>1, <3>2, <3>3
  <2>4. CASE TakePending \/ TakeFromPort
    <3>1. PICK x \in Msgs :
             /\ delivered' = Append(delivered, x) /\ queue' = queue /\ capacity = 0
             /\ x = pending_send \/ x \notin SyncMsgs
             /\ pending_send' = None
      BY <1>0, <2>2, <2>4 DEF TakePending, TakeFromPort
    <3>2. Ascending(delivered', SyncMsgs)
      BY <1>0, <1>1, <3>1, AscendingAppend
    <3> QED
      BY <1>1, <2>1, <2>3, <3>1, <3>2 DEF LineInv
  <2>5. CASE Dequeue
    <3>0. /\ queue # <<>> /\ delivered' = Append(delivered, Head(queue))
          /\ pending_send' = None
      BY <1>0, <2>5 DEF Dequeue, PairInv, RendezvousInv
    <3> DEFINE x == Head(queue)
               T == Tail(queue)
    <3>1. /\ x \in Range(queue) /\ T \in Seq(Msgs) /\ Range(T) \subseteq Range(queue)
          /\ x \in Msgs
      BY <1>0, <3>0, PopFront, HeadTailProperties DEF PlaceInv
    <3>2. /\ Ascending(T, SyncMsgs)
          /\ \A y \in Range(T) : x \in SyncMsgs /\ y \in SyncMsgs => x < y
      BY <1>0, <1>1, <3>0, AscendingTail
    <3>3. /\ Ascending(delivered', SyncMsgs) /\ Range(delivered') = Range(delivered) \cup {x}
      BY ZenonT(40), <1>0, <1>1, <3>0, <3>1, PushesBack, AscendingAppend
    <3> HIDE DEF x, T
    <3>4. CASE queue' = T
      <4>1. \A y \in Range(delivered'), z \in Range(T) :
               y \in SyncMsgs /\ z \in SyncMsgs => y < z
        BY <1>1, <3>1, <3>2, <3>3
      <4>2. call'[s].fn = "send_retry" =>
               \A y \in Range(delivered') \cup Range(T) : y \in SyncMsgs => y < call'[s].msg
        BY <1>1, <2>1, <3>1, <3>3
      <4> QED
        BY <2>1, <3>0, <3>2, <3>3, <3>4, <4>1, <4>2 DEF LineInv
    <3>5. CASE pending_send_port \in Msgs /\ queue' = Append(T, pending_send_port)
      <4>0. /\ Range(queue') = Range(T) \cup {pending_send_port}
            /\ pending_send_port \notin SyncMsgs
        BY <1>0, <2>2, <3>1, <3>5, PushesBack
      <4>1. Ascending(queue', SyncMsgs)
        BY <3>1, <3>2, <3>5, <4>0, AscendingAppend
      <4>2. \A y \in Range(delivered'), z \in Range(queue') :
               y \in SyncMsgs /\ z \in SyncMsgs => y < z
        BY <1>1, <3>1, <3>2, <3>3, <4>0
      <4>3. call'[s].fn = "send_retry" =>
               \A y \in Range(delivered') \cup Range(queue') :
                  y \in SyncMsgs => y < call'[s].msg
        BY <1>1, <2>1, <3>1, <3>3, <4>0
      <4> QED
        BY <2>1, <3>0, <3>3, <4>1, <4>2, <4>3 DEF LineInv
    <3>6. queue' = T \/ (pending_send_port \in Msgs /\ queue' = Append(T, pending_send_port))
      BY <1>0, <2>5 DEF Dequeue, T
    <3> QED
      BY <3>4, <3>5, <3>6
  <2> QED
    BY <2>1, <2>4, <2>5 DEF Take
<1>11. CASE Sleeps(t)
  <2>1. call'[s] = call[s] \/ call'[s].fn = "recv"
    BY <1>0, <1>11 DEF Sleeps, RecvBlocks, Blocks
  <2> QED
    BY <1>2, <1>8, <1>11, <2>1 DEF Sleeps, Receiving, RecvBlocks
<1>12. CASE ArmsRecv(t)
  BY <1>2, <1>8, <1>12 DEF ArmsRecv, Receiving, RecvArmed
<1>13. CASE Idles(t)
  BY <1>0, <1>2, <1>8, <1>13 DEF Idles, CallBecomes, chan, ops
<1>14. ASSUME NEW notify \in BOOLEAN, Closes(t, notify) PROVE LineInv(s)'
  <2>1. /\ UNCHANGED <<queue, delivered, pending_send, async>>
        /\ call'[s] = call[s] \/ call'[s].fn \in {"user", "gone"}
    BY <1>0, <1>14, CloseTypes DEF Closes, CallBecomes
  <2> QED
    BY <1>2, <1>8, <2>1
<1> QED
  BY <1>4, <1>5, <1>6, <1>7, <1>9, <1>10, <1>11, <1>12, <1>13, <1>14 DEF Step

-----------------------------------------------------------------------------
(***************************************************************************)
(* Where a message of the sender s is while its send succeeds: with the    *)
(* channel or the receiver, or kept by the sender.                         *)
(***************************************************************************)
Located(s, m) == m \in Placed \/ (call[s].fn = "send_retry" /\ m = call[s].msg)

FoundInv(s) ==
    recv_closed \/ \A m \in Msgs : outcome[m] \in {"ok", "pending"} => Located(s, m)

(***************************************************************************)
(* With one sender that is what the invariant says.                        *)
(***************************************************************************)
LEMMA Founds ==
    ASSUME TypeOK, CallsInv, PlaceInv, NEW s, Senders = {s}
    PROVE  FoundInv(s) <=> NoMessageLost
<1>1. s \in Threads /\ \A t \in Threads : call[t].fn = "send_retry" => t = s
  BY Kinds DEF CallsInv, Sending
<1>2. ASSUME NEW m \in Msgs
      PROVE  m \in Range(delivered) \cup Held <=> Located(s, m)
  <2>1. m # None
    BY Kinds
  <2>2. m \in {call[t].msg : t \in {u \in Threads : call[u].fn = "send_retry"}}
           <=> (call[s].fn = "send_retry" /\ m = call[s].msg)
    BY <1>1
  <2> QED
    BY <2>1, <2>2 DEF Held, Located, Placed, Slots
<1> QED
  BY <1>2 DEF FoundInv, NoMessageLost, PlaceInv

(***************************************************************************)
(* No step drops a message whose send is under way or has succeeded: a     *)
(* slot is empty when a message is put in it.                              *)
(***************************************************************************)
LEMMA FoundKept ==
    ASSUME TypeOK, CallsInv, PlaceInv, OutcomeInv, NEW s, NEW r,
           Senders = {s}, Receivers = {r}, PairInv(s, r), FoundInv(s),
           NEW t \in Threads, Step(t)
    PROVE  FoundInv(s)'
<1>0. /\ queue \in Seq(Msgs) /\ delivered \in Seq(Msgs) /\ outcome \in [Msgs -> Outcomes]
      /\ pending_send \in Msgs \cup {None} /\ pending_send_port \in Msgs \cup {None}
      /\ s \in Threads /\ r \in Threads /\ None \notin Msgs
      /\ call \in [Threads -> CallRecord] /\ async \in [Msgs -> {s, None}]
      /\ s # None /\ r # None /\ s # r /\ Threads = {s, r}
  BY Types, Kinds
<1>1. ASSUME NEW m \in Msgs, NEW a \in {None, t}, Attempts(t, m, a)
      PROVE  /\ t = s /\ recv_closed' = recv_closed
             /\ recv_closed \/ pending_send = None
             /\ m \notin Placed
             /\ ~recv_closed =>
                   \A n \in Msgs \ {m} : outcome[n] \in {"ok", "pending"} => n \in Placed
  <2>1. /\ t = s /\ recv_closed' = recv_closed /\ donee \in {None, s}
        /\ sched[s] = "Runnable" /\ m \notin Placed
    BY <1>1, AttemptFacts, AttemptIsNew
  <2>2. recv_closed \/ pending_send = None
    BY <1>0, <2>1, NothingOnOffer
  <2>3. call[s].fn = "send_retry" => m = call[s].msg
    BY <1>1, <2>1 DEF Attempts, SendsNew, SendsAgain
  <2> QED
    BY <2>1, <2>2, <2>3 DEF FoundInv, Located
<1>2. ASSUME NEW m \in Msgs, NEW a \in {None, t}, Attempts(t, m, a), NEW o, Settle(m, o),
             o \in {"ok", "pending"} => Located(s, m)',
             ~recv_closed => Placed \subseteq Placed'
      PROVE  FoundInv(s)'
  <2>1. outcome'[m] = o /\ \A n \in Msgs \ {m} : outcome'[n] = outcome[n]
    BY <1>0, <1>2 DEF Settle
  <2>2. ASSUME NEW n \in Msgs \ {m}, outcome'[n] \in {"ok", "pending"}, ~recv_closed
        PROVE  Located(s, n)'
    BY <1>1, <1>2, <2>1, <2>2 DEF Located
  <2>3. recv_closed' = recv_closed
    BY <1>1, <1>2
  <2> QED
    BY <1>2, <2>1, <2>2, <2>3 DEF FoundInv
<1>3. ASSUME NEW m \in Msgs, NEW a \in {None, t}, Fails(t, m, a) PROVE FoundInv(s)'
  <2>1. /\ Attempts(t, m, a) /\ UNCHANGED <<queue, delivered, pending_send, pending_send_port>>
        /\ Settle(m, "EPIPE") \/ Settle(m, "EAGAIN")
    BY <1>3 DEF Fails, chan
  <2>2. Placed' = Placed
    BY <2>1 DEF Placed, Slots
  <2>3. "EPIPE" \notin {"ok", "pending"} /\ "EAGAIN" \notin {"ok", "pending"}
    OBVIOUS
  <2> QED
    BY <1>2, <2>1, <2>2, <2>3
<1>4. ASSUME NEW m \in Msgs, NEW a \in {None, t}, Accepts(t, m, a) PROVE FoundInv(s)'
  <2>1. /\ Attempts(t, m, a) /\ Offer(m) /\ Settle(m, "ok") /\ ~recv_closed
        /\ pending_send_port' = pending_send_port
    BY <1>4 DEF Accepts, SendAccepted, Offer
  <2>2. pending_send = None
    BY <1>1, <2>1
  <2> DEFINE Q == Append(queue, m)
  <2>3. /\ Q \in Seq(Msgs) /\ Range(Q) = Range(queue) \cup {m} /\ Q # <<>> /\ IsInjective(Q)
    <3>1. m \notin Range(queue) /\ IsInjective(queue)
      BY <1>1, <2>1 DEF Placed, PlaceInv
    <3> QED
      BY <1>0, <3>1, PushesBack
  <2>4. Placed \cup {m} \subseteq Placed'
    <3>1. CASE queue' = Q /\ UNCHANGED <<delivered, pending_send>>
      BY <2>1, <2>3, <3>1 DEF Placed, Slots
    <3>2. CASE pending_send' = m /\ UNCHANGED <<queue, delivered>>
      BY <1>0, <2>1, <2>2, <3>2 DEF Placed, Slots
    <3>3. CASE /\ queue' = Tail(Q) /\ delivered' = Append(delivered, Head(Q))
               /\ pending_send' = pending_send
      <4> HIDE DEF Q
      <4>1. Head(Q) \in Msgs /\ Range(Tail(Q)) = Range(Q) \ {Head(Q)}
        BY <2>3, PopFront, HeadTailProperties
      <4>2. Range(delivered') = Range(delivered) \cup {Head(Q)}
        BY <1>0, <3>3, <4>1, PushesBack
      <4> QED
        BY <2>1, <2>3, <3>3, <4>1, <4>2 DEF Placed, Slots
    <3> QED
      BY <2>1, <3>1, <3>2, <3>3 DEF Offer, HandOver, ToPort, Enqueue
  <2> QED
    BY <1>2, <2>1, <2>4 DEF Located
<1>5. ASSUME NEW m \in Msgs, NEW a \in {None, t}, Waits(t, m, a) PROVE FoundInv(s)'
  <2>1. /\ Attempts(t, m, a) /\ SendBlocks(s, m) /\ Settle(m, "pending") /\ ~recv_closed
        /\ UNCHANGED <<queue, delivered, pending_send_port>>
    BY <1>1, <1>5 DEF Waits, SendBlocks
  <2>2. pending_send = None
    BY <1>1, <2>1
  <2>3. /\ pending_send' = m \/ (call'[s].fn = "send_retry" /\ call'[s].msg = m)
        /\ pending_send' \in {m, pending_send}
    BY <1>0, <2>1 DEF SendBlocks, Blocks
  <2>4. Placed \subseteq Placed' /\ Located(s, m)'
    BY <1>0, <2>1, <2>2, <2>3 DEF Placed, Slots, Located
  <2> QED
    BY <1>2, <2>1, <2>4
<1>6. ASSUME NEW m \in Msgs, NEW a \in {None, t}, Arms(t, m, a) PROVE FoundInv(s)'
  <2>1. /\ Attempts(t, m, a) /\ Settle(m, "pending") /\ pending_send_port' = m
        /\ UNCHANGED <<queue, delivered, pending_send>>
        /\ \A n \in Msgs : async[n] = s => outcome[n] # "pending"
    BY <1>1, <1>6 DEF Arms, SendArmed
  <2>2. pending_send_port = None
    BY <1>0, <2>1 DEF OutcomeInv
  <2>3. Placed \subseteq Placed' /\ Located(s, m)'
    BY <1>0, <2>1, <2>2 DEF Placed, Slots, Located
  <2> QED
    BY <1>2, <2>1, <2>3
<1>7. ASSUME recv_closed' \/ recv_closed' = recv_closed, Placed \subseteq Placed',
             call'[s] = call[s] \/ call[s].fn # "send_retry",
             \A n \in Msgs : outcome'[n] \in {"ok", "pending"} =>
                outcome[n] \in {"ok", "pending"}
      PROVE  FoundInv(s)'
  BY <1>7 DEF FoundInv, Located
<1>8. CASE SendResumes(t)
  <2>1. /\ call[t].fn = "send_block" /\ \E o : Settle(call[t].msg, o)
        /\ UNCHANGED <<queue, delivered, pending_send, pending_send_port, recv_closed>>
    BY <1>8 DEF SendResumes, Runs, chan, ends
  <2>2. t = s /\ outcome[call[s].msg] = "pending"
    BY <1>0, <2>1 DEF OutcomeInv, CallsInv, Sending
  <2>3. Placed' = Placed
    BY <2>1 DEF Placed, Slots
  <2>4. \A n \in Msgs : outcome'[n] = outcome[n] \/ n = call[s].msg
    BY <1>0, <2>1, <2>2 DEF Settle
  <2> QED
    BY <1>7, <2>1, <2>2, <2>3, <2>4
<1>9. CASE Receives(t)
  <2>1. /\ Take /\ recv_closed' = recv_closed /\ t = r /\ call'[s] = call[s]
    BY <1>0, <1>9 DEF Receives, Receiving, CallBecomes, ends
  <2>2. outcome' = outcome \/ (pending_send_port # None /\ Settle(pending_send_port, "ok"))
    BY <2>1 DEF Take, TakePending, TakeFromPort, Dequeue
  <2>3. \A n \in Msgs : outcome'[n] \in {"ok", "pending"} => outcome[n] \in {"ok", "pending"}
    <3>1. pending_send_port # None => outcome[pending_send_port] = "pending"
      BY DEF OutcomeInv
    <3> QED
      BY <1>0, <2>2, <3>1 DEF Settle
  <2>4. Placed \subseteq Placed'
    <3>1. CASE TakePending \/ TakeFromPort
      <4>1. PICK x \in Msgs :
               /\ delivered' = Append(delivered, x) /\ queue' = queue
               /\ Slots \subseteq Slots' \cup {x}
        BY <1>0, <3>1 DEF TakePending, TakeFromPort, Slots
      <4>2. Range(delivered') = Range(delivered) \cup {x}
        BY <1>0, <4>1, PushesBack
      <4> QED
        BY <4>1, <4>2 DEF Placed
    <3>2. CASE Dequeue
      <4>1. /\ Head(queue) \in Msgs /\ Tail(queue) \in Seq(Msgs)
            /\ Range(Tail(queue)) = Range(queue) \ {Head(queue)}
        BY <1>0, <3>2, PopFront, HeadTailProperties DEF Dequeue, PlaceInv
      <4>2. /\ delivered' = Append(delivered, Head(queue)) /\ pending_send' = pending_send
            /\ \/ queue' = Tail(queue) /\ pending_send_port' = pending_send_port
               \/ /\ pending_send_port \in Msgs /\ pending_send_port' = None
                  /\ queue' = Append(Tail(queue), pending_send_port)
        BY <1>0, <3>2 DEF Dequeue
      <4>3. Range(delivered') = Range(delivered) \cup {Head(queue)}
        BY <1>0, <4>1, <4>2, PushesBack
      <4>4. \/ Range(queue') = Range(Tail(queue)) /\ pending_send_port' = pending_send_port
            \/ Range(queue') = Range(Tail(queue)) \cup {pending_send_port}
        <5> DEFINE T == Tail(queue)
        <5>1. T \in Seq(Msgs)
          BY <4>1
        <5> HIDE DEF T
        <5>2. \A x \in Msgs : Range(Append(T, x)) = Range(T) \cup {x}
          BY <5>1, PushesBack
        <5> USE DEF T
        <5> QED
          BY <4>2, <5>2
      <4> QED
        BY <1>0, <4>1, <4>2, <4>3, <4>4 DEF Placed, Slots
    <3> QED
      BY <2>1, <3>1, <3>2 DEF Take
  <2> QED
    BY <1>7, <2>1, <2>3, <2>4
<1>10. ASSUME UNCHANGED <<queue, delivered, pending_send, pending_send_port, outcome>>,
              recv_closed' = recv_closed,
              call'[s] = call[s] \/ call[s].fn # "send_retry"
       PROVE  FoundInv(s)'
  <2>1. Placed' = Placed
    BY <1>10 DEF Placed, Slots
  <2> QED
    BY <1>7, <1>10, <2>1
<1>11. CASE Sleeps(t)
  <2>1. t = r /\ call'[s] = call[s]
    BY <1>0, <1>11 DEF Sleeps, Receiving, RecvBlocks, Blocks
  <2> QED
    BY <1>10, <1>11, <2>1 DEF Sleeps, Receiving, RecvBlocks, ends
<1>12. CASE ArmsRecv(t)
  BY <1>10, <1>12 DEF ArmsRecv, Receiving, RecvArmed, ends
<1>13. CASE Idles(t)
  <2>1. call'[s] = call[s] \/ call[s].fn # "send_retry"
    BY <1>0, <1>13 DEF Idles, CallBecomes, OnCpu
  <2> QED
    BY <1>10, <1>13, <2>1 DEF Idles, chan, ops
<1>14. ASSUME NEW notify \in BOOLEAN, Closes(t, notify) PROVE FoundInv(s)'
  <2>1. CASE t = s
    <3>1. /\ UNCHANGED <<queue, delivered, pending_send, pending_send_port, outcome>>
          /\ recv_closed' = recv_closed /\ call[s].fn = "user"
      BY <1>14, <2>1 DEF Closes, CloseLast, CloseSendLast, OnCpu
    <3> QED
      BY <1>10, <3>1
  <2>2. CASE t = r
    BY <1>0, <1>14, <2>2 DEF Closes, CloseLast, CloseRecvLast, FoundInv
  <2> QED
    BY <1>0, <2>1, <2>2
<1> QED
  BY <1>3, <1>4, <1>5, <1>6, <1>8, <1>9, <1>11, <1>12, <1>13, <1>14 DEF Step

-----------------------------------------------------------------------------
(***************************************************************************)
(* An operation leaves its slot with its completion, and a slot is empty   *)
(* when an operation is put in it, unless the operation is forgotten by    *)
(* the close of the other end.                                             *)
(***************************************************************************)
LEMMA ArmedKept ==
    ASSUME TypeOK, CallsInv, PlaceInv, OutcomeInv, NEW s, NEW r,
           Senders = {s}, Receivers = {r}, ArmedUnlessForgotten,
           NEW t \in Threads, Step(t)
    PROVE  ArmedUnlessForgotten'
<1>0. /\ outcome \in [Msgs -> Outcomes] /\ armed \subseteq {r}
      /\ pending_send_port \in Msgs \cup {None} /\ pending_port \in {r, None}
      /\ s \in Threads /\ r \in Threads /\ None \notin Msgs
      /\ call \in [Threads -> CallRecord] /\ async \in [Msgs -> {s, None}]
      /\ s # None /\ r # None /\ s # r /\ Threads = {s, r}
  BY Types, Kinds
<1> DEFINE Open(n)  == async[n] # None /\ outcome[n] = "pending"
           Left(u)  == Gone(u) \/ u \in forgotten
           Wait(u)  == pending_port = u /\ ~send_closed
           Stay(n)  == pending_send_port = n /\ ~recv_closed
           Lost(n)  == Gone(s) \/ n \in forgotten
<1>1. /\ ~Gone(t) /\ \A u \in Threads : Gone(u) => Gone(u)'
      /\ forgotten \subseteq forgotten'
  <2>1. ~Gone(t) /\ \A u \in Threads \ {t} : call'[u] = call[u]
    BY <1>0 DEF Step, Fails, Accepts, Waits, Arms, Attempts, OnCpu, Receives, Receiving, Sleeps,
       ArmsRecv, Idles, Closes, CallBecomes, Gone, SendResumes, Runs, Returns, SendBlocks,
       RecvBlocks, Blocks
  <2>2. forgotten' = forgotten \/ \E notify \in BOOLEAN : Closes(t, notify)
    BY DEF Step, Fails, Accepts, Waits, Arms, Attempts, Receives, Receiving, Sleeps,
       ArmsRecv, Idles, SendResumes, ends
  <2> QED
    BY <2>1, <2>2 DEF Gone, Closes
<1>2. /\ \A u \in armed : Left(u) \/ Wait(u)
      /\ \A n \in Msgs : Open(n) => Lost(n) \/ Stay(n)
  BY <1>0 DEF ArmedUnlessForgotten, Unanswered
<1>3. ASSUME \A u \in armed' : Left(u)' \/ Wait(u)',
             \A n \in Msgs : Open(n)' => Lost(n)' \/ Stay(n)', async' \in [Msgs -> {s, None}]
      PROVE  ArmedUnlessForgotten'
  BY <1>0, <1>3 DEF ArmedUnlessForgotten, Unanswered
<1>a. /\ \A u \in armed : Left(u)' \/ (Wait(u) /\ ~Left(u))
      /\ \A n \in Msgs : Open(n) => Lost(n)' \/ (Stay(n) /\ ~Lost(n))
  BY <1>0, <1>1, <1>2
<1> HIDE DEF Left, Lost
<1>4. ASSUME NEW m \in Msgs, NEW a \in {None, t}, Attempts(t, m, a), NEW o, Settle(m, o)
      PROVE  /\ t = s /\ outcome'[m] = o /\ m # pending_send_port
             /\ \A n \in Msgs \ {m} : outcome'[n] = outcome[n] /\ async'[n] = async[n]
             /\ UNCHANGED <<send_closed, recv_closed>> /\ async' \in [Msgs -> {s, None}]
  <2>1. UNCHANGED <<send_closed, recv_closed>>
    BY <1>4 DEF Attempts, ends
  <2>2. async' \in [Msgs -> {s, None}] /\ t = s
    BY <1>0, <1>4 DEF Attempts, SendsNew, SendsAgain
  <2> QED
    BY <1>0, <1>4, <2>1, <2>2, AttemptFacts, AttemptIsNew DEF Settle, Placed, Slots
<1>5. ASSUME NEW m \in Msgs, NEW a \in {None, t}, Fails(t, m, a) PROVE ArmedUnlessForgotten'
  <2>1. /\ Attempts(t, m, a) /\ UNCHANGED <<armed, pending_port, pending_send_port>>
        /\ Settle(m, "EPIPE") \/ Settle(m, "EAGAIN")
    BY <1>5 DEF Fails, chan
  <2> QED
    BY <1>a, <1>3, <1>4, <2>1
<1>6. ASSUME NEW m \in Msgs, NEW a \in {None, t}, Accepts(t, m, a) PROVE ArmedUnlessForgotten'
  <2>1. /\ Attempts(t, m, a) /\ Settle(m, "ok") /\ pending_send_port' = pending_send_port
        /\ \/ UNCHANGED <<armed, pending_port>>
           \/ pending_port' = None /\ armed' = armed \ {pending_port}
    BY <1>6 DEF Accepts, SendAccepted, Offer, HandOver, ToPort, Enqueue
  <2>2. \A u \in armed' : Left(u)' \/ Wait(u)'
    BY <1>a, <1>4, <2>1
  <2> QED
    BY <1>a, <1>3, <1>4, <2>1, <2>2
<1>7. ASSUME NEW m \in Msgs, NEW a \in {None, t}, Waits(t, m, a) PROVE ArmedUnlessForgotten'
  <2>1. /\ Attempts(t, m, a) /\ Settle(m, "pending") /\ a = None
        /\ UNCHANGED <<armed, pending_port, pending_send_port>>
    BY <1>7 DEF Waits, SendBlocks
  <2>2. async'[m] = None
    <3>1. CASE SendsNew(t, m, a)
      BY <2>1, <3>1, AttemptFacts
    <3>2. CASE SendsAgain(t, m, a)
      BY <3>2 DEF SendsAgain, OutcomeInv, Sending
    <3> QED
      BY <2>1, <3>1, <3>2 DEF Attempts
  <2> QED
    BY <1>a, <1>3, <1>4, <2>1, <2>2
<1>8. ASSUME NEW m \in Msgs, NEW a \in {None, t}, Arms(t, m, a) PROVE ArmedUnlessForgotten'
  <2>1. /\ Attempts(t, m, a) /\ Settle(m, "pending") /\ pending_send_port' = m
        /\ UNCHANGED <<armed, pending_port>> /\ ~recv_closed
        /\ \A n \in Msgs : async[n] = t => outcome[n] # "pending"
    BY <1>8 DEF Arms, SendArmed
  <2>2. \A n \in Msgs \ {m} : ~Open(n)'
    BY <1>0, <1>4, <2>1
  <2> QED
    BY <1>a, <1>3, <1>4, <2>1, <2>2
<1>9. CASE SendResumes(t)
  <2>1. /\ UNCHANGED <<async, armed, pending_port, pending_send_port, send_closed, recv_closed>>
        /\ Settle(call[t].msg, "EPIPE") \/ Settle(call[t].msg, "ok")
    BY <1>9 DEF SendResumes, chan, ends
  <2>2. \A n \in Msgs : Open(n)' => Open(n)
    BY <1>0, <2>1 DEF Settle
  <2> QED
    BY <1>0, <1>a, <1>3, <2>1, <2>2
<1>10. ASSUME async' = async, \A u \in armed' : Left(u)' \/ Wait(u)', recv_closed' = recv_closed,
              \/ UNCHANGED <<outcome, pending_send_port>>
              \/ Settle(pending_send_port, "ok") /\ pending_send_port \in Msgs
       PROVE  ArmedUnlessForgotten'
  <2>1. \A n \in Msgs : Open(n)' => Lost(n)' \/ Stay(n)'
    BY <1>0, <1>a, <1>10 DEF Settle
  <2> QED
    BY <1>0, <1>3, <1>10, <2>1
<1>11. CASE Receives(t)
  <2>1. UNCHANGED <<async, armed, pending_port, send_closed, recv_closed>>
    BY <1>11 DEF Receives, Receiving, Take, ends
  <2>2. \/ UNCHANGED <<outcome, pending_send_port>>
        \/ Settle(pending_send_port, "ok") /\ pending_send_port \in Msgs
    BY <1>0, <1>11 DEF Receives, Take, TakePending, TakeFromPort, Dequeue
  <2> QED
    BY <1>a, <1>10, <2>1, <2>2
<1>12. CASE Sleeps(t)
  BY <1>a, <1>10, <1>12 DEF Sleeps, Receiving, RecvBlocks, ends
<1>13. CASE ArmsRecv(t)
  <2>1. /\ t = r /\ t \notin armed /\ armed' = armed \cup {t} /\ pending_port' = t
        /\ ~send_closed
        /\ UNCHANGED <<async, outcome, pending_send_port, send_closed, recv_closed>>
    BY <1>13 DEF ArmsRecv, Receiving, RecvArmed, ends
  <2> QED
    BY <1>0, <1>10, <2>1
<1>14. CASE Idles(t)
  BY <1>a, <1>10, <1>14 DEF Idles, chan, ops
<1>15. ASSUME NEW notify \in BOOLEAN, Closes(t, notify) PROVE ArmedUnlessForgotten'
  <2>1. CASE t = s
    <3>1. /\ CloseSendLast(notify) /\ Peer(t) = blocked_receiver
          /\ Registered(t) = {pending_port} \ {None} /\ async' = async
          /\ forgotten' = forgotten \cup (IF notify /\ Peer(t) = None THEN {}
                                                                     ELSE Registered(t))
      BY <1>15, <2>1 DEF Closes, CloseLast, Peer, Registered
    <3>2. UNCHANGED <<outcome, pending_send_port, recv_closed>> /\ armed' \subseteq armed
      BY <3>1 DEF CloseSendLast
    <3>3. \A u \in armed' : u = pending_port => u \in forgotten'
      BY <1>0, <3>1 DEF CloseSendLast
    <3>4. \A u \in armed' : Left(u)'
      BY <1>a, <3>2, <3>3 DEF Left
    <3> QED
      BY <1>10, <3>1, <3>2, <3>4
  <2>2. CASE t = r
    <3>1. /\ CloseRecvLast(notify) /\ Peer(t) = blocked_sender
          /\ Registered(t) = {pending_send_port} \ {None} /\ async' = async
          /\ forgotten' = forgotten \cup (IF notify /\ Peer(t) = None THEN {}
                                                                     ELSE Registered(t))
      BY <1>0, <1>15, <2>2 DEF Closes, CloseLast, Peer, Registered
    <3>2. UNCHANGED <<armed, pending_port, send_closed>>
      BY <3>1 DEF CloseRecvLast
    <3>3. \A n \in Msgs : Open(n)' => Open(n) /\ (n = pending_send_port => n \in forgotten')
      BY <1>0, <3>1 DEF CloseRecvLast, Settle
    <3>4. \A n \in Msgs : Open(n)' => Lost(n)'
      BY <1>a, <3>3 DEF Lost
    <3> QED
      BY <1>0, <1>a, <1>3, <3>1, <3>2, <3>4
  <2> QED
    BY <1>0, <2>1, <2>2
<1> QED
  BY <1>5, <1>6, <1>7, <1>8, <1>9, <1>11, <1>12, <1>13, <1>14, <1>15 DEF Step

-----------------------------------------------------------------------------
(***************************************************************************)
(* The inductive invariant.                                                *)
(***************************************************************************)
ChannelInv ==
    /\ TypeOK /\ CallsInv /\ SlotsInv /\ BlockedIsRegistered /\ PlaceInv /\ OutcomeInv
    /\ OrderInv /\ InOrder /\ NoMessageLost /\ ArmedUnlessForgotten

(***************************************************************************)
(* A channel that sys_ipc_create has just made is empty and has no one     *)
(* waiting.                                                                *)
(***************************************************************************)
LEMMA Created ==
    ASSUME Init
    PROVE  ChannelInv
<1>1. TypeOK
  <2>1. InUser \in CallRecord /\ <<>> \in Seq(Msgs) /\ Len(<<>>) = 0
    BY EmptySeq DEF InUser, CallRecord
  <2>2. fds \in [Threads -> Nat] /\ call \in [Threads -> CallRecord]
    BY <2>1 DEF Init
  <2>3. queue \in Seq(Msgs) /\ Len(queue) = 0 /\ delivered \in Seq(Msgs) /\ capacity \in Nat
    BY <2>1, ChannelAssumption DEF Init
  <2>4. nmsgs \in 0 .. MaxMsgs
    BY ChannelAssumption DEF Init
  <2>5. Len(queue) <= capacity
    BY <2>3
  <2>6. outcome \in [Msgs -> Outcomes] /\ async \in [Msgs -> Senders \cup {None}]
        /\ sched \in [Threads -> {"Runnable", "Blocked"}]
    BY DEF Init, Outcomes
  <2> QED
    BY <2>2, <2>3, <2>4, <2>5, <2>6 DEF Init, TypeOK, CallRecord
<1>2. \A t \in Threads : call[t].fn = "user" /\ sched[t] = "Runnable"
  BY DEF Init, InUser
<1>3. /\ queue = <<>> /\ delivered = <<>> /\ Range(queue) = {} /\ Range(delivered) = {}
      /\ DOMAIN queue = {} /\ DOMAIN delivered = {}
  BY DEF Init, Range
<1>4. CallsInv /\ SlotsInv /\ BlockedIsRegistered /\ OutcomeInv
  BY <1>2 DEF Init, CallsInv, Sending, SlotsInv, BlockedIsRegistered, Blocked, OutcomeInv
<1>5. PlaceInv
  BY <1>2, <1>3 DEF Init, PlaceInv, Slots, IsInjective
<1>6. OrderInv /\ InOrder
  BY <1>2, <1>3 DEF OrderInv, InOrder
<1>7. NoMessageLost /\ ArmedUnlessForgotten
  BY <1>3 DEF Init, NoMessageLost, IsInjective, ArmedUnlessForgotten, Unanswered
<1> QED
  BY <1>1, <1>4, <1>5, <1>6, <1>7 DEF ChannelInv

(***************************************************************************)
(* The three readings for a pair of threads, now and after a step.         *)
(***************************************************************************)
PairMeans ==
    \A s, r :
        /\ TypeOK /\ CallsInv /\ PlaceInv /\ Senders = {s} /\ Receivers = {r}
        /\ PairInv(s, r) /\ LineInv(s) /\ FoundInv(s)
        => SlotsInv /\ BlockedIsRegistered /\ OrderInv /\ InOrder /\ NoMessageLost

(***************************************************************************)
(* They hold in every state.                                               *)
(***************************************************************************)
LEMMA Pair == PairMeans
BY Pairs, Lines, Founds DEF PairMeans

(***************************************************************************)
(* So they hold after a step.                                              *)
(***************************************************************************)
LEMMA NextPair == PairMeans'
BY Pair, PTL

(***************************************************************************)
(* Every step of a channel with one sender and one receiver keeps it.      *)
(***************************************************************************)
LEMMA ChannelStep ==
    ASSUME OneEach, RendezvousDonates, ChannelInv, [Next]_vars
    PROVE  ChannelInv'
<1>1. PICK s, r : Senders = {s} /\ Receivers = {r}
  BY ChannelAssumption DEF OneEach
<1>2. CASE Next
  <2>1. PICK t \in Threads : Step(t)
    BY <1>2, Steps DEF ChannelInv
  <2>2. /\ TypeOK /\ CallsInv /\ PlaceInv /\ OutcomeInv /\ ArmedUnlessForgotten
        /\ PairInv(s, r) /\ LineInv(s) /\ FoundInv(s)
    BY <1>1, Pairs, Lines, Founds DEF ChannelInv
  <2>3. TypeOK' /\ CallsInv'
    BY <2>1, <2>2, TypesKept, CallsKept
  <2>4. PlaceInv' /\ OutcomeInv' /\ ArmedUnlessForgotten'
    BY <1>1, <2>1, <2>2, <2>3, PlaceKept, OutcomeKept, ArmedKept
  <2>5. PairInv(s, r)' /\ LineInv(s)' /\ FoundInv(s)'
    BY <1>1, <2>1, <2>2, PairKept, LineKept, FoundKept
  <2> QED
    BY <1>1, <2>3, <2>4, <2>5, NextPair DEF ChannelInv, PairMeans
<1>3. CASE UNCHANGED vars
  BY <1>3 DEF vars, chan, ends, threads, ops, ChannelInv, TypeOK, CallsInv, Sending, SlotsInv,
     BlockedIsRegistered, Blocked, MessageReady, PlaceInv, Slots, OutcomeInv, OrderInv, Sync,
     InOrder, NoMessageLost, Held, ArmedUnlessForgotten, Unanswered, Gone
<1> QED
  BY <1>2, <1>3

-----------------------------------------------------------------------------
(***************************************************************************)
(* The invariant holds throughout.                                         *)
(***************************************************************************)
THEOREM ChannelSafe ==
    ASSUME OneEach, RendezvousDonates
    PROVE  Spec => []ChannelInv
<1>1. Init => ChannelInv
  BY Created
<1>2. ChannelInv /\ [Next]_vars => ChannelInv'
  BY ChannelStep
<1> QED
  BY <1>1, <1>2, PTL DEF Spec

(***************************************************************************)
(* A thread blocked in ipc_send or ipc_recv is the one the channel wakes,  *)
(* and what it waits for has not happened (try_send, try_recv, close_send  *)
(* and close_recv of libkernel/src/channel.rs).                            *)
(***************************************************************************)
THEOREM BlockedRegistered ==
    ASSUME OneEach, RendezvousDonates
    PROVE  Spec => []BlockedIsRegistered
<1>1. ChannelInv => BlockedIsRegistered
  BY DEF ChannelInv
<1> QED
  BY <1>1, ChannelSafe, PTL

(***************************************************************************)
(* Whatever the sender and the receiver do, no message is received twice   *)
(* and none whose send succeeds is lost while the receive end is open.     *)
(***************************************************************************)
THEOREM MessagesKept ==
    ASSUME OneEach, RendezvousDonates
    PROVE  Spec => []NoMessageLost
<1>1. ChannelInv => NoMessageLost
  BY DEF ChannelInv
<1> QED
  BY <1>1, ChannelSafe, PTL

(***************************************************************************)
(* The messages of ipc_send are received in the order of their sends,      *)
(* through the buffer, a rendezvous or a registered OP_IPC_RECV, however   *)
(* often the sender finds the buffer full.                                 *)
(***************************************************************************)
THEOREM MessagesInOrder ==
    ASSUME OneEach, RendezvousDonates
    PROVE  Spec => []InOrder
<1>1. ChannelInv => InOrder
  BY DEF ChannelInv
<1> QED
  BY <1>1, ChannelSafe, PTL

(***************************************************************************)
(* A port operation that has not completed is registered with the channel  *)
(* while its peer is there, whatever the two threads do; only the exit of  *)
(* the peer, or a close() that finds a thread blocked as well, leaves one  *)
(* without an answer (close_send, close_recv, close_all_fds).              *)
(***************************************************************************)
THEOREM OperationsRegistered ==
    ASSUME OneEach, RendezvousDonates
    PROVE  Spec => []ArmedUnlessForgotten
<1>1. ChannelInv => ArmedUnlessForgotten
  BY DEF ChannelInv
<1> QED
  BY <1>1, ChannelSafe, PTL
=============================================================================
