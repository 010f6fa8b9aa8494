------------------------------ MODULE Channel ------------------------------
(***************************************************************************)
(* An IPC channel (libkernel/src/channel.rs) with the system calls on its  *)
(* two ends (osl/src/ipc.rs), the completion-port operations OP_IPC_SEND   *)
(* and OP_IPC_RECV (osl/src/io_port.rs), and the ways an end is shared and *)
(* closed (FdObject::notify_dup and close, handle_close_result,            *)
(* close_all_fds).  Capacity 0 is the rendezvous channel.                  *)
(*                                                                         *)
(* A system call runs with interrupts off until it yields, so each segment *)
(* of one is a step.  A thread that hands something to a blocked peer      *)
(* donates its quantum: the peer is in donee and runs next.  Messages are  *)
(* numbered in the order in which their sends are called; the completion   *)
(* ports themselves are not part of this module: posting to one is giving  *)
(* the operation its outcome.                                              *)
(***************************************************************************)
EXTENDS Naturals, Sequences, FiniteSets, SequencesExt

CONSTANTS
    Senders,        \* threads that may come to hold the send end
    Receivers,      \* threads that may come to hold the receive end
    None,
    Capacities,     \* what sys_ipc_create may be asked for
    MaxMsgs,        \* bound on the messages of a behaviour
    MaxFds,         \* bound on the descriptors one thread has for an end
    Exits,          \* threads that may exit without closing their ends
    PortShared      \* capacities of the channels for which another thread may
                    \* wait on the port of an OP_IPC_SEND

ASSUME ChannelAssumption ==
    /\ Senders # {} /\ Receivers # {} /\ Senders \cap Receivers = {}
    /\ None \notin Senders \cup Receivers \cup Nat
    /\ Capacities \subseteq Nat /\ MaxMsgs \in Nat /\ MaxFds \in Nat \ {0}
    /\ Exits \subseteq Senders \cup Receivers
    /\ PortShared \subseteq Capacities

Threads == Senders \cup Receivers
Msgs    == 1 .. MaxMsgs

VARIABLES
    capacity,           \* ChannelInner.capacity, fixed at creation
    queue,              \* ChannelInner.queue
    pending_send,       \* the message of a rendezvous, or None
    blocked_sender,     \* thread, or None
    blocked_receiver,   \* thread, or None
    pending_port,       \* thread whose OP_IPC_RECV is registered, or None
    pending_send_port,  \* message whose OP_IPC_SEND is registered, or None
    send_closed, recv_closed,
    fds,                \* descriptors each thread has for its end; their sums
                        \* over the two roles are send_count and recv_count
    forgotten,          \* operations (of a receiver thread, or of a message)
                        \* that a close has left without a completion (history)
    sched,              \* "Runnable" or "Blocked"
    call,               \* the system call each thread is in, and its message
    donee,              \* the thread that runs next, or None
    nmsgs,              \* messages sent so far
    outcome,            \* result of each send, sync or through a port
    armed,              \* threads whose OP_IPC_RECV has not completed
    async,              \* the thread that sent a message with OP_IPC_SEND
    delivered           \* messages received, in order

chan    == <<queue, pending_send, blocked_sender, blocked_receiver,
             pending_port, pending_send_port>>
ends    == <<send_closed, recv_closed, fds, forgotten>>
threads == <<sched, call, donee>>
ops     == <<nmsgs, outcome, armed, async, delivered>>
vars    == <<capacity, chan, ends, threads, ops>>

Outcomes == {"unsent", "pending", "ok", "EPIPE", "EAGAIN"}
InUser   == [fn |-> "user", msg |-> None]

Runs(t, fn) == sched[t] = "Runnable" /\ call[t].fn = fn /\ donee \in {None, t}

Unblocked(t) == [sched EXCEPT ![t] = IF @ = "Blocked" THEN "Runnable" ELSE @]

Returns(t) == call' = [call EXCEPT ![t] = InUser]

Blocks(t, fn, m) ==
    /\ sched' = [sched EXCEPT ![t] = "Blocked"]
    /\ call' = [call EXCEPT ![t] = [fn |-> fn, msg |-> m]]

-----------------------------------------------------------------------------
(***************************************************************************)
(* What try_send and arm_send share: the message goes to a blocked         *)
(* receiver, else to a registered OP_IPC_RECV, else into the buffer.  The  *)
(* blocked receiver finds the message itself when it runs.                 *)
(***************************************************************************)
Accepting == capacity = 0 \/ Len(queue) < capacity

CanOffer ==
    Accepting /\ (blocked_receiver # None \/ pending_port # None \/ capacity > 0)

\* Mutant: the receiver is woken and the message is not left for it.
HandOverNothing(m) ==
    /\ blocked_receiver # None
    /\ blocked_receiver' = None
    /\ sched' = Unblocked(blocked_receiver)
    /\ UNCHANGED <<queue, pending_send, pending_port, armed, delivered>>

HandOver(m) ==
    /\ blocked_receiver # None
    /\ IF capacity = 0
         THEN pending_send' = m /\ UNCHANGED queue
         ELSE queue' = Append(queue, m) /\ UNCHANGED pending_send
    /\ blocked_receiver' = None
    /\ sched' = Unblocked(blocked_receiver)
    /\ UNCHANGED <<pending_port, armed, delivered>>

ToPort(m) ==
    /\ blocked_receiver = None /\ pending_port # None
    /\ queue' = Tail(Append(queue, m))
    /\ delivered' = Append(delivered, Head(Append(queue, m)))
    /\ armed' = armed \ {pending_port}
    /\ pending_port' = None
    /\ UNCHANGED <<pending_send, blocked_receiver, sched>>

\* Mutant: the newest message is put in front.
EnqueueFront(m) ==
    /\ blocked_receiver = None /\ pending_port = None
    /\ queue' = <<m>> \o queue
    /\ UNCHANGED <<pending_send, blocked_receiver, pending_port, sched, armed,
                   delivered>>

Enqueue(m) ==
    /\ blocked_receiver = None /\ pending_port = None
    /\ queue' = Append(queue, m)
    /\ UNCHANGED <<pending_send, blocked_receiver, pending_port, sched, armed,
                   delivered>>

Offer(m) ==
    /\ CanOffer
    /\ HandOver(m) \/ ToPort(m) \/ Enqueue(m)
    /\ UNCHANGED <<blocked_sender, pending_send_port>>

Settle(m, result) == outcome' = [outcome EXCEPT ![m] = result]

(***************************************************************************)
(* sys_ipc_send: one turn of its loop.  A rendezvous sender leaves its     *)
(* message in pending_send; the sender on a full buffer keeps it and will  *)
(* try again.                                                              *)
(***************************************************************************)
SendRefused(m) ==
    /\ recv_closed
    /\ Settle(m, "EPIPE")
    /\ UNCHANGED <<chan, armed, delivered, sched>>

SendAccepted(m) ==
    /\ ~recv_closed
    /\ Offer(m)
    /\ Settle(m, "ok")

SendWouldBlock(m) ==
    /\ ~recv_closed /\ ~CanOffer
    /\ Settle(m, "EAGAIN")
    /\ UNCHANGED <<chan, armed, delivered, sched>>

SendBlocks(t, m) ==
    /\ ~recv_closed /\ ~CanOffer
    /\ blocked_sender' = t
    /\ IF capacity = 0
         THEN pending_send' = m /\ Blocks(t, "send_block", m)
         ELSE UNCHANGED pending_send /\ Blocks(t, "send_retry", m)
    /\ Settle(m, "pending")
    /\ UNCHANGED <<queue, blocked_receiver, pending_port, pending_send_port,
                   armed, delivered>>

DonateIfHandedOver ==
    donee' = IF blocked_receiver # None /\ blocked_receiver' = None
               THEN blocked_receiver ELSE None

TrySend(t, m, nonblock) ==
    /\ \/ (SendRefused(m) \/ SendAccepted(m)) /\ Returns(t)
       \/ nonblock /\ SendWouldBlock(m) /\ Returns(t)
       \/ ~nonblock /\ SendBlocks(t, m)
    /\ DonateIfHandedOver
    /\ UNCHANGED <<ends, async>>

Send(t, nonblock) ==
    /\ Runs(t, "user") /\ t \in Senders /\ fds[t] > 0 /\ nmsgs < MaxMsgs
    /\ nmsgs' = nmsgs + 1
    /\ TrySend(t, nmsgs + 1, nonblock)

SendResumes(t) ==
    /\ Runs(t, "send_block")
    /\ Settle(call[t].msg, IF recv_closed THEN "EPIPE" ELSE "ok")
    /\ Returns(t)
    /\ donee' = None
    /\ UNCHANGED <<chan, ends, sched, nmsgs, armed, async, delivered>>

SendRetries(t) ==
    /\ Runs(t, "send_retry")
    /\ TrySend(t, call[t].msg, FALSE)
    /\ UNCHANGED nmsgs

-----------------------------------------------------------------------------
(***************************************************************************)
(* What try_recv and arm_recv share: the message of a rendezvous sender,   *)
(* else of a registered OP_IPC_SEND; or the oldest of the buffer, with one *)
(* sender, thread or registered operation, let in behind it.               *)
(***************************************************************************)
\* Mutant: the message is taken and its sender left asleep.
WakeNoSender == UNCHANGED <<blocked_sender, sched>>

WakeSender ==
    /\ blocked_sender' = None
    /\ sched' = IF blocked_sender = None THEN sched
                                         ELSE Unblocked(blocked_sender)

TakePending ==
    /\ capacity = 0 /\ pending_send # None
    /\ delivered' = Append(delivered, pending_send)
    /\ pending_send' = None
    /\ WakeSender
    /\ UNCHANGED <<queue, pending_send_port, outcome>>

TakeFromPort ==
    /\ capacity = 0 /\ pending_send = None /\ pending_send_port # None
    /\ delivered' = Append(delivered, pending_send_port)
    /\ pending_send_port' = None
    /\ Settle(pending_send_port, "ok")
    /\ UNCHANGED <<queue, pending_send, blocked_sender, sched>>

Dequeue ==
    /\ capacity > 0 /\ queue # <<>>
    /\ delivered' = Append(delivered, Head(queue))
    /\ WakeSender
    /\ IF blocked_sender = None /\ pending_send_port # None
         THEN /\ queue' = Append(Tail(queue), pending_send_port)
              /\ pending_send_port' = None
              /\ Settle(pending_send_port, "ok")
         ELSE /\ queue' = Tail(queue)
              /\ UNCHANGED <<pending_send_port, outcome>>
    /\ UNCHANGED pending_send

Take ==
    /\ TakePending \/ TakeFromPort \/ Dequeue
    /\ UNCHANGED <<blocked_receiver, pending_port>>

MessageReady ==
    \/ capacity = 0 /\ (pending_send # None \/ pending_send_port # None)
    \/ capacity > 0 /\ queue # <<>>

(***************************************************************************)
(* sys_ipc_recv: one turn of its loop.  A refused call (peer closed, or    *)
(* would block) leaves the channel as it is.                               *)
(***************************************************************************)
RecvBlocks(t) ==
    /\ ~MessageReady /\ ~send_closed
    /\ blocked_receiver' = t
    /\ Blocks(t, "recv", None)
    /\ UNCHANGED <<queue, pending_send, blocked_sender, pending_port,
                   pending_send_port, outcome, delivered>>

RecvRefused(t, nonblock) ==
    /\ ~MessageReady /\ (send_closed \/ nonblock)
    /\ Returns(t)
    /\ UNCHANGED <<chan, outcome, delivered, sched>>

TryRecv(t, nonblock) ==
    /\ \/ Take /\ Returns(t)
       \/ ~nonblock /\ RecvBlocks(t)
       \/ RecvRefused(t, nonblock)
    /\ donee' = None
    /\ UNCHANGED <<ends, nmsgs, armed, async>>

Recv(t, nonblock) ==
    /\ Runs(t, "user") /\ t \in Receivers /\ fds[t] > 0
    /\ TryRecv(t, nonblock)

RecvResumes(t) ==
    /\ Runs(t, "recv")
    /\ TryRecv(t, FALSE)

-----------------------------------------------------------------------------
(***************************************************************************)
(* OP_IPC_SEND and OP_IPC_RECV: one-shot, and a thread submits one again   *)
(* only after its completion.  After handing over to a blocked receiver,   *)
(* the caller of arm_send donates to whoever its own completion woke, and  *)
(* only if nobody was waiting for that to the receiver.                    *)
(***************************************************************************)
SendArmed(m) ==
    /\ ~recv_closed /\ ~CanOffer
    /\ pending_send_port' = m
    /\ Settle(m, "pending")
    /\ UNCHANGED <<queue, pending_send, blocked_sender, blocked_receiver,
                   pending_port, sched, armed, delivered>>

ArmSend(t) ==
    /\ Runs(t, "user") /\ t \in Senders /\ fds[t] > 0 /\ nmsgs < MaxMsgs
    /\ \A m \in Msgs : async[m] = t => outcome[m] # "pending"
    /\ nmsgs' = nmsgs + 1
    /\ async' = [async EXCEPT ![nmsgs + 1] = t]
    /\ SendRefused(nmsgs + 1) \/ SendAccepted(nmsgs + 1) \/ SendArmed(nmsgs + 1)
    /\ DonateIfHandedOver \/ (capacity \in PortShared /\ donee' = None)
    /\ UNCHANGED <<ends, call>>

RecvArmed(t) ==
    /\ ~MessageReady /\ ~send_closed
    /\ pending_port' = t
    /\ armed' = armed \cup {t}
    /\ UNCHANGED <<queue, pending_send, blocked_sender, blocked_receiver,
                   pending_send_port, outcome, delivered, sched>>

RecvArmRefused ==
    /\ ~MessageReady /\ send_closed
    /\ UNCHANGED <<chan, outcome, delivered, sched, armed>>

ArmRecv(t) ==
    /\ Runs(t, "user") /\ t \in Receivers \ armed /\ fds[t] > 0
    /\ (Take /\ UNCHANGED armed) \/ RecvArmed(t) \/ RecvArmRefused
    /\ donee' = None
    /\ UNCHANGED <<ends, call, nmsgs, async>>

-----------------------------------------------------------------------------
(***************************************************************************)
(* notify_dup (dup2, clone, descriptor passing) and close.                 *)
(***************************************************************************)
Role(t) == IF t \in Senders THEN Senders ELSE Receivers

Dup(t, u) ==
    /\ Runs(t, "user") /\ fds[t] > 0 /\ u \in Role(t)
    /\ fds[u] < MaxFds /\ call[u].fn # "gone"
    /\ fds' = [fds EXCEPT ![u] = @ + 1]
    /\ donee' = None
    /\ UNCHANGED <<chan, send_closed, recv_closed, forgotten, sched, call, ops>>

(***************************************************************************)
(* close_send and close_recv when the count reaches zero.  A blocked peer  *)
(* is unblocked there and then; a registered operation is taken out of the *)
(* channel, and it is the caller that must post its completion (notify).   *)
(***************************************************************************)
CloseSendLast(notify) ==
    /\ send_closed' = TRUE
    /\ blocked_receiver' = None
    /\ IF blocked_receiver # None
         THEN /\ sched' = Unblocked(blocked_receiver)
              /\ UNCHANGED <<pending_port, armed>>
         ELSE /\ pending_port' = None
              /\ armed' = IF notify THEN armed \ {pending_port} ELSE armed
              /\ UNCHANGED sched
    /\ UNCHANGED <<queue, pending_send, blocked_sender, pending_send_port,
                   recv_closed, outcome>>

\* Mutant: the sender blocked on the closed channel is forgotten.
CloseRecvSilently(notify) ==
    /\ recv_closed' = TRUE
    /\ blocked_sender' = None
    /\ UNCHANGED <<queue, pending_send, blocked_receiver, pending_port,
                   pending_send_port, send_closed, sched, outcome, armed>>

CloseRecvLast(notify) ==
    /\ recv_closed' = TRUE
    /\ blocked_sender' = None
    /\ IF blocked_sender # None
         THEN /\ sched' = Unblocked(blocked_sender)
              /\ UNCHANGED <<pending_send_port, outcome>>
         ELSE /\ pending_send_port' = None
              /\ IF notify /\ pending_send_port # None
                   THEN Settle(pending_send_port, "EPIPE")
                   ELSE UNCHANGED outcome
              /\ UNCHANGED sched
    /\ UNCHANGED <<queue, pending_send, blocked_receiver, pending_port,
                   send_closed, armed>>

OthersHold(t) == \E u \in Role(t) \ {t} : fds[u] > 0

CloseLast(t, notify) ==
    IF t \in Senders THEN CloseSendLast(notify) ELSE CloseRecvLast(notify)

(***************************************************************************)
(* Who waits at the other end: a blocked thread, a registered operation.   *)
(***************************************************************************)
Peer(t) == IF t \in Senders THEN blocked_receiver ELSE blocked_sender

Registered(t) ==
    {IF t \in Senders THEN pending_port ELSE pending_send_port} \ {None}

(***************************************************************************)
(* close(), which acts on the result (handle_close_result), and the exit   *)
(* of a process, whose close_all_fds ignores it.  With a thread blocked at *)
(* the other end, close() wakes it and leaves the operation where it is.   *)
(***************************************************************************)
\* Mutant: the completion of a registered operation is not posted.
CloseIgnoringResult(t) ==
    /\ Runs(t, "user") /\ fds[t] > 0
    /\ fds' = [fds EXCEPT ![t] = @ - 1]
    /\ IF fds[t] = 1 /\ ~OthersHold(t)
         THEN /\ CloseLast(t, FALSE)
              /\ forgotten' = IF Peer(t) = None THEN forgotten
                                                ELSE forgotten \cup Registered(t)
         ELSE UNCHANGED <<chan, send_closed, recv_closed, forgotten, sched,
                          outcome, armed>>
    /\ donee' = None
    /\ UNCHANGED <<call, nmsgs, async, delivered>>

Close(t) ==
    /\ Runs(t, "user") /\ fds[t] > 0
    /\ fds' = [fds EXCEPT ![t] = @ - 1]
    /\ IF fds[t] = 1 /\ ~OthersHold(t)
         THEN /\ CloseLast(t, TRUE)
              /\ donee' = Peer(t)
              /\ forgotten' = IF Peer(t) = None THEN forgotten
                                                ELSE forgotten \cup Registered(t)
         ELSE /\ UNCHANGED <<chan, send_closed, recv_closed, forgotten, sched,
                             outcome, armed>>
              /\ donee' = None
    /\ UNCHANGED <<call, nmsgs, async, delivered>>

Exit(t) ==
    /\ t \in Exits /\ Runs(t, "user")
    /\ fds' = [fds EXCEPT ![t] = 0]
    /\ IF fds[t] > 0 /\ ~OthersHold(t)
         THEN CloseLast(t, FALSE) /\ forgotten' = forgotten \cup Registered(t)
         ELSE UNCHANGED <<chan, send_closed, recv_closed, forgotten, sched,
                          outcome, armed>>
    /\ call' = [call EXCEPT ![t].fn = "gone"]
    /\ donee' = None
    /\ UNCHANGED <<nmsgs, async, delivered>>

-----------------------------------------------------------------------------
(***************************************************************************)
(* sys_ipc_create, after the ends have gone to a sender and a receiver.    *)
(***************************************************************************)
Init ==
    /\ capacity \in Capacities
    /\ queue = <<>> /\ pending_send = None
    /\ blocked_sender = None /\ blocked_receiver = None
    /\ pending_port = None /\ pending_send_port = None
    /\ send_closed = FALSE /\ recv_closed = FALSE /\ forgotten = {}
    /\ \E s \in Senders, r \in Receivers :
          fds = [t \in Threads |-> IF t \in {s, r} THEN 1 ELSE 0]
    /\ sched = [t \in Threads |-> "Runnable"]
    /\ call = [t \in Threads |-> InUser]
    /\ donee = None
    /\ nmsgs = 0
    /\ outcome = [m \in Msgs |-> "unsent"]
    /\ armed = {}
    /\ async = [m \in Msgs |-> None]
    /\ delivered = <<>>

Resumes(t) == SendResumes(t) \/ SendRetries(t) \/ RecvResumes(t)

Next ==
    /\ \E t \in Threads :
          \/ Resumes(t)
          \/ \E nonblock \in BOOLEAN : Send(t, nonblock) \/ Recv(t, nonblock)
          \/ ArmSend(t)
          \/ ArmRecv(t)
          \/ \E u \in Threads : Dup(t, u)
          \/ Close(t)
          \/ Exit(t)
    /\ UNCHANGED capacity

Spec == Init /\ [][Next]_vars

(***************************************************************************)
(* Ready threads run; nothing is assumed of what user code does next.      *)
(***************************************************************************)
FairSpec ==
    Spec /\ \A t \in Threads : WF_vars(Resumes(t) /\ UNCHANGED capacity)

-----------------------------------------------------------------------------
(***************************************************************************)
(* Types, and the bound of the buffer.                                     *)
(***************************************************************************)
TypeOK ==
    /\ capacity \in Capacities
    /\ queue \in Seq(Msgs) /\ Len(queue) <= capacity
    /\ pending_send \in Msgs \cup {None}
    /\ blocked_sender \in Senders \cup {None}
    /\ blocked_receiver \in Receivers \cup {None}
    /\ pending_port \in Receivers \cup {None}
    /\ pending_send_port \in Msgs \cup {None}
    /\ send_closed \in BOOLEAN /\ recv_closed \in BOOLEAN
    /\ fds \in [Threads -> Nat] /\ forgotten \subseteq Receivers \cup Msgs
    /\ sched \in [Threads -> {"Runnable", "Blocked"}]
    /\ call \in [Threads -> [fn : {"user", "send_block", "send_retry", "recv",
                                   "gone"},
                             msg : Msgs \cup {None}]]
    /\ donee \in Threads \cup {None}
    /\ nmsgs \in 0 .. MaxMsgs
    /\ outcome \in [Msgs -> Outcomes]
    /\ armed \subseteq Receivers
    /\ async \in [Msgs -> Senders \cup {None}]
    /\ delivered \in Seq(Msgs)

Blocked(t, fn) == sched[t] = "Blocked" /\ call[t].fn = fn

(***************************************************************************)
(* A blocked thread is the one the channel will wake, and what it waits    *)
(* for has not happened: the sender of a rendezvous has its own message on *)
(* offer, the buffer is full, there is no message, and the peer is there.  *)
(***************************************************************************)
BlockedIsRegistered ==
    \A t \in Threads :
        /\ Blocked(t, "send_block") =>
              /\ blocked_sender = t /\ ~recv_closed
              /\ pending_send = call[t].msg
        /\ Blocked(t, "send_retry") =>
              blocked_sender = t /\ ~recv_closed /\ Len(queue) = capacity
        /\ Blocked(t, "recv") =>
              blocked_receiver = t /\ ~send_closed /\ ~MessageReady

(***************************************************************************)
(* No message is lost: one whose send has succeeded, or is under way, has  *)
(* been received or is still held by the channel or by its blocked sender, *)
(* unless the receive end is closed; and none is received twice.           *)
(***************************************************************************)
Held ==
    Range(queue) \cup {pending_send, pending_send_port}
        \cup {call[t].msg : t \in {u \in Threads : call[u].fn = "send_retry"}}

NoMessageLost ==
    /\ IsInjective(delivered)
    /\ recv_closed \/ \A m \in Msgs :
          outcome[m] \in {"ok", "pending"} => m \in Range(delivered) \cup Held

(***************************************************************************)
(* The messages a thread sends with ipc_send arrive in the order in which  *)
(* it sends them (one overtakes a message left with OP_IPC_SEND).          *)
(***************************************************************************)
InOrder ==
    \A i, j \in DOMAIN delivered :
        /\ i < j
        /\ async[delivered[i]] = None /\ async[delivered[j]] = None
        => delivered[i] < delivered[j]

(***************************************************************************)
(* Every port operation that has not completed will: it is registered with *)
(* the channel and the other end is open, so that a message or room for    *)
(* one, or a close, completes it (docs/ipc-channels.md: with -EPIPE when   *)
(* the peer closes).  The exceptions are the operations at the other end   *)
(* when the last descriptor is closed by the exit of a process, or by a    *)
(* close() that finds a thread blocked there as well; no other operation   *)
(* is ever without an answer to come.                                      *)
(***************************************************************************)
Gone(t) == call[t].fn = "gone"

Unanswered ==
    {t \in armed : ~Gone(t) /\ ~(pending_port = t /\ ~send_closed)}
        \cup {m \in Msgs : /\ async[m] # None /\ outcome[m] = "pending"
                          /\ ~Gone(async[m])
                          /\ ~(pending_send_port = m /\ ~recv_closed)}

ArmedIsAnswered == Unanswered = {}

ArmedUnlessForgotten == Unanswered \subseteq forgotten

PeerGone(t) ==
    \/ call[t].fn \in {"send_block", "send_retry"} /\ recv_closed
    \/ call[t].fn = "recv" /\ send_closed

(***************************************************************************)
(* Closing an end releases every thread that is blocked on the other one.  *)
(***************************************************************************)
PeerCloseReleases ==
    \A t \in Threads : PeerGone(t) ~> call[t].fn = "user"
=============================================================================
