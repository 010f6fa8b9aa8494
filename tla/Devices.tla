------------------------------ MODULE Devices ------------------------------
(***************************************************************************)
(* Interrupts and the drivers behind them: the I/O APIC entries and        *)
(* dynamic vectors, IRQ descriptors and the user-space keyboard driver,    *)
(* the kernel's keyboard actor with its line editor, the virtio block      *)
(* actor and its completion future, the kernel shell, and the mailboxes    *)
(* and driver start/stop they have in common.                              *)
(*                                                                         *)
(* Actors are executor tasks that other threads and interrupt handlers     *)
(* interleave with at every lock; a waker is a flag saying that the task   *)
(* is registered; a woken task may be polled again, or never if the        *)
(* executor loses its wake.  A scancode arrives only while its line is     *)
(* unmasked and is read at once by the handler the line is routed to.      *)
(*                                                                         *)
(* libkernel/src/irq_handle.rs, interrupts.rs, apic, task/mailbox.rs,      *)
(* task/registry.rs, task/keyboard.rs; osl/src/irq.rs; devices/src/        *)
(* task_driver.rs, driver.rs, virtio/blk.rs; devices-macros; kernel/src/   *)
(* keyboard_actor.rs, shell.rs; user-rs/kbd.                               *)
(***************************************************************************)
EXTENDS LineEditor, FiniteSets

CONSTANTS Vectors,       \* 1 .. DYNAMIC_COUNT
          Drivers,       \* processes running kbd
          QueueSize,     \* of SCANCODE_QUEUE
          BufSize,       \* SCANCODE_BUF_SIZE - 1
          Workloads

ASSUME DevicesAssumption ==
  /\ {MAX_LINE, MAX_HISTORY, QueueSize, BufSize} \subseteq Nat \ {0}
  /\ Vectors \subseteq Nat \ {0} /\ 1 \in Vectors /\ 0 \notin Drivers
  /\ \A w \in Workloads : /\ {"keys", "rooms"} \subseteq DOMAIN w
                          /\ w.rooms \subseteq 0 .. MAX_LINE

Actors == {"keyboard", "shell", "virtio-blk"}
Askers == {"shell", "file"}

VARIABLES
  gsi,      \* I/O APIC entries: where the line is routed to, masked
  vec,      \* DYNAMIC_HANDLERS
  slot,     \* IRQ_SLOTS: the driver whose descriptor is there
  drv,      \* keyboard driver processes and their IRQ descriptors
  read,     \* scancodes an IRQ descriptor's handler has accepted, per driver
  astray,   \* history: the keyboard line's way back to the kernel has been lost
  queue,    \* SCANCODE_QUEUE: keys for the keyboard actor
  line,     \* LineState
  live,     \* the line the user left when browsing the history
  room,     \* input columns the prompt leaves
  box,      \* mailboxes: messages, closed, waker registered
  actor,    \* tasks: running, pc, woken, message in hand
  waker,    \* scancode queue's and block device's AtomicWaker registered
  disk,     \* request outstanding, in the used ring, interrupt not yet raised
  ask,      \* what each asker waits for
  left      \* what is left of the workload's bounds

irqs == <<vec, slot, drv, read, astray>>
vars == <<gsi, irqs, queue, line, live, room, box, actor, waker, disk, ask, left>>
editor == <<line, live, room>>
tasks == <<box, actor, waker, ask>>

Mailbox == [msgs |-> <<>>, closed |-> FALSE, waker |-> FALSE]
Task == [running |-> TRUE, pc |-> "poll", woken |-> FALSE, msg |-> <<>>]
NoTask == [running |-> FALSE, pc |-> "off", woken |-> FALSE, msg |-> <<>>]
Process == [pc |-> "off", vector |-> 0, saved |-> <<>>, pending |-> FALSE, buf |-> <<>>,
            port |-> <<>>, fed |-> <<>>, clients |-> FALSE]
KernelEntry == [to |-> 0, masked |-> FALSE]

\* init_irq has given the block device the first vector; mailboxes are
\* closed until their actor is started.
Init ==
  /\ left \in Workloads
  /\ gsi = [kbd |-> KernelEntry, blk |-> [to |-> 1, masked |-> FALSE]]
  /\ vec = [v \in Vectors |-> v = 1] /\ slot = [v \in Vectors |-> 0]
  /\ drv = [d \in Drivers |-> Process] /\ read = [d \in Drivers |-> <<>>]
  /\ astray = FALSE
  /\ queue = <<>> /\ line = EmptyLine /\ live = <<>> /\ room = MAX_LINE
  /\ box = [x \in Actors |-> [Mailbox EXCEPT !.closed = x \notin left.started]]
  /\ actor = [x \in Actors |-> IF x \in left.started THEN Task ELSE NoTask]
  /\ waker = [keys |-> FALSE, blk |-> FALSE]
  /\ disk = [busy |-> FALSE, used |-> FALSE, irq |-> FALSE]
  /\ ask = [a \in Askers |-> "none"]

-----------------------------------------------------------------------------
(***************************************************************************)
(* IRQ descriptors.                                                        *)
(***************************************************************************)

\* register_handler takes the first free vector.
FirstFree == {v \in Vectors : ~vec[v] /\ \A u \in Vectors : u < v => vec[u]}

\* route_gsi leaves the line masked
Routed(v) == [to |-> v, masked |-> TRUE]

Unmasked(entry) == [entry EXCEPT !.masked = FALSE]

(* sys_irq_create(1), which any number of processes may be in: a free      *)
(* vector is taken, the line's entry read, the line routed, and slot and   *)
(* descriptor are taken (both the process's own until it returns).  A line *)
(* that somebody else has routed since its entry was read is astray.       *)
IrqCreate(d) ==
  /\ drv[d].pc = "off" /\ d \in left.drivers
  /\ \E v \in FirstFree :
       /\ vec' = [vec EXCEPT ![v] = TRUE]
       /\ drv' = [drv EXCEPT ![d] = [Process EXCEPT !.pc = "vector", !.vector = v]]
  /\ read' = [read EXCEPT ![d] = <<>>]
  /\ left' = [left EXCEPT !.drivers = @ \ {d}]
  /\ UNCHANGED <<gsi, slot, astray, queue, editor, tasks, disk>>

\* read_gsi_entry
IrqSave(d) ==
  /\ drv[d].pc = "vector"
  /\ drv' = [drv EXCEPT ![d] = [@ EXCEPT !.pc = "saved", !.saved = gsi.kbd]]
  /\ UNCHANGED <<gsi, vec, slot, read, astray, queue, editor, tasks, disk, left>>

IrqRoute(d) ==
  /\ drv[d].pc = "saved"
  /\ gsi' = [gsi EXCEPT !.kbd = Routed(drv[d].vector)]
  /\ drv' = [drv EXCEPT ![d] = [@ EXCEPT !.pc = "routed"]]
  /\ astray' = (astray \/ gsi.kbd.to # drv[d].saved.to)
  /\ UNCHANGED <<vec, slot, read, queue, editor, tasks, disk, left>>

IrqOpen(d) ==
  /\ drv[d].pc = "routed" /\ d \notin left.nofd
  /\ slot' = [slot EXCEPT ![drv[d].vector] = d]
  /\ drv' = [drv EXCEPT ![d] = [@ EXCEPT !.pc = "claimed"]]
  /\ UNCHANGED <<gsi, vec, read, astray, queue, editor, tasks, disk, left>>

\* No descriptor is free: slot and vector are given back, the line stays as it
\* was routed.
IrqOpenFails(d) ==
  /\ drv[d].pc = "routed" /\ d \in left.nofd
  /\ vec' = [vec EXCEPT ![drv[d].vector] = FALSE]
  /\ drv' = [drv EXCEPT ![d] = Process] /\ read' = [read EXCEPT ![d] = <<>>]
  /\ astray' = TRUE
  /\ UNCHANGED <<gsi, slot, queue, editor, tasks, disk, left>>

\* Mutant: the first buffered code is posted and the wait registered.
ArmedOne(p) ==
  [p EXCEPT !.port = IF p.buf = <<>> THEN @ ELSE Append(@, Head(p.buf)),
            !.buf = IF @ = <<>> THEN @ ELSE Tail(@), !.pending = TRUE]

\* arm_irq: all that is buffered is posted; the wait is registered only if
\* there was nothing
Armed(p) ==
  IF p.buf # <<>> THEN [p EXCEPT !.port = @ \o p.buf, !.buf = <<>>]
  ELSE [p EXCEPT !.pending = TRUE]

\* The first OP_IRQ_WAIT, after the service has been registered.
IrqWait(d) ==
  /\ drv[d].pc = "claimed"
  /\ drv' = [drv EXCEPT ![d] = [Armed(@) EXCEPT !.pc = "loop"]]
  /\ gsi' = [gsi EXCEPT !.kbd = Unmasked(@)]
  /\ UNCHANGED <<vec, slot, read, astray, queue, editor, tasks, disk, left>>

\* The driver's loop on one IRQ completion: decode, broadcast, arm again.
Feed(d) ==
  /\ drv[d].pc = "loop" /\ drv[d].port # <<>>
  /\ LET p == drv[d] IN
     drv' = [drv EXCEPT ![d] = Armed([p EXCEPT !.fed = Append(@, Head(p.port)),
                                              !.port = Tail(@)])]
  /\ gsi' = [gsi EXCEPT !.kbd = Unmasked(@)]
  /\ UNCHANGED <<vec, slot, read, astray, queue, editor, tasks, disk, left>>

KbdConnect(d) ==
  /\ drv[d].pc = "loop" /\ ~drv[d].clients
  /\ drv' = [drv EXCEPT ![d].clients = TRUE]
  /\ UNCHANGED <<gsi, vec, slot, read, astray, queue, editor, tasks, disk, left>>

\* free_vector
Freed(v) == vec' = [vec EXCEPT ![v] = FALSE]

\* Mutant: the vector is freed, the line stays routed to it.
CloseIrqKeepsRoute(p) ==
  gsi' = gsi /\ Freed(p.vector) /\ slot' = [slot EXCEPT ![p.vector] = 0]

\* close_irq, with the descriptor locked and interrupts off
CloseIrq(p) ==
  /\ gsi' = [gsi EXCEPT !.kbd = p.saved]
  /\ Freed(p.vector)
  /\ slot' = [slot EXCEPT ![p.vector] = 0]

(* No client within the timeout, an error or a signal: the process exits   *)
(* and its descriptors are closed.  What it puts back belongs there only   *)
(* if the line is still its own.                                           *)
KbdExit(d) ==
  /\ drv[d].pc \in {"claimed", "loop"}
  /\ CloseIrq(drv[d])
  /\ drv' = [drv EXCEPT ![d] = Process] /\ read' = [read EXCEPT ![d] = <<>>]
  /\ astray' = (astray \/ gsi.kbd.to # drv[d].vector)
  /\ UNCHANGED <<queue, editor, tasks, disk, left>>

(* The process dies of a fault.  kill_user_process closes no descriptor,   *)
(* and what a table or a slot refers to is not closed by being dropped:    *)
(* vector, slot and routing stay.                                          *)
KbdFault(d) ==
  /\ drv[d].pc \in {"claimed", "loop"}
  /\ drv' = [drv EXCEPT ![d] = [@ EXCEPT !.pc = "dead"]]
  /\ astray' = TRUE
  /\ UNCHANGED <<gsi, vec, slot, read, queue, editor, tasks, disk, left>>

\* irq_fd_dispatch with one scancode in the controller
FdInterrupt(d, code) ==
  LET p == drv[d] IN
  /\ drv' = [drv EXCEPT ![d] =
       IF p.pending THEN [p EXCEPT !.port = Append(@, code), !.pending = FALSE]
       ELSE IF Len(p.buf) < BufSize THEN [p EXCEPT !.buf = Append(@, code)] ELSE p]
  /\ read' = IF p.pending \/ Len(p.buf) < BufSize
             THEN [read EXCEPT ![d] = Append(@, code)] ELSE read
  /\ UNCHANGED <<queue, actor, waker>>

Woken(x) == [actor EXCEPT ![x].woken = TRUE]

\* keyboard_interrupt_handler and add_scancode
KernelInterrupt(code) ==
  /\ IF Len(queue) < QueueSize
     THEN /\ queue' = Append(queue, code)
          /\ waker' = [waker EXCEPT !.keys = FALSE]
          /\ actor' = IF waker.keys THEN Woken("keyboard") ELSE actor
     ELSE UNCHANGED <<queue, waker, actor>>
  /\ UNCHANGED <<drv, read>>

Scancode ==
  /\ left.presses > 0 /\ ~gsi.kbd.masked
  /\ left' = [left EXCEPT !.presses = @ - 1]
  /\ \E code \in left.keys :
       IF gsi.kbd.to = 0 THEN KernelInterrupt(code)
       ELSE IF slot[gsi.kbd.to] # 0 THEN FdInterrupt(slot[gsi.kbd.to], code)
       ELSE UNCHANGED <<drv, read, queue, waker, actor>>       \* nobody's vector
  /\ UNCHANGED <<gsi, vec, slot, astray, editor, box, disk, ask>>

-----------------------------------------------------------------------------
(***************************************************************************)
(* Mailboxes, and the actors' loops.                                       *)
(***************************************************************************)

\* send to a mailbox: dropped if it is closed
Sent(x, msg) ==
  IF box[x].closed THEN UNCHANGED <<box, actor>>
  ELSE /\ box' = [box EXCEPT ![x].msgs = Append(@, msg), ![x].waker = FALSE]
       /\ actor' = IF box[x].waker THEN Woken(x) ELSE actor

\* ask: a message with a Reply; a closed mailbox drops it, which answers None
Asks(a, x) ==
  /\ ask' = [ask EXCEPT ![a] = IF box[x].closed THEN "none" ELSE "waiting"]
  /\ Sent(x, <<"ask", a>>)

At(x, pc) == actor[x].pc = pc
Goes(x, pc) == actor' = [actor EXCEPT ![x].pc = pc]

\* KeyStream first (ScancodeStream::poll_next), then the mailbox
Polls(x) ==
  /\ At(x, "poll") /\ (x = "keyboard" => queue = <<>>)
  /\ Goes(x, IF x = "keyboard" THEN "keys_register" ELSE "box_check")
  /\ UNCHANGED <<gsi, irqs, queue, editor, box, waker, disk, ask, left>>

KeysRegister ==
  /\ At("keyboard", "keys_register")
  /\ waker' = [waker EXCEPT !.keys = TRUE]
  /\ Goes("keyboard", "keys_check")
  /\ UNCHANGED <<gsi, irqs, queue, editor, box, disk, ask, left>>

KeysCheck ==
  /\ At("keyboard", "keys_check") /\ queue = <<>>
  /\ Goes("keyboard", "box_check")
  /\ UNCHANGED <<gsi, irqs, queue, editor, box, waker, disk, ask, left>>

\* on_key with the kernel in the foreground: the editor, and a line for the shell
OnKey ==
  /\ At("keyboard", "poll") \/ At("keyboard", "keys_check")
  /\ queue # <<>>
  /\ queue' = Tail(queue)
  /\ LET after == Pressed(line, Head(queue), room)
         said  == Trimmed(line.buf)
         kb    == [actor EXCEPT !["keyboard"].pc = "poll"]
     IN  /\ line' = after
         /\ live' = IF after.hist = 0 THEN after.buf ELSE live
         /\ IF Head(queue) = "enter" /\ said # <<>> /\ ~box["shell"].closed
            THEN /\ box' = [box EXCEPT !["shell"].msgs = Append(@, <<"line">>),
                                       !["shell"].waker = FALSE]
                 /\ actor' = IF box["shell"].waker THEN [kb EXCEPT !["shell"].woken = TRUE] ELSE kb
            ELSE UNCHANGED box /\ actor' = kb
  /\ waker' = IF At("keyboard", "keys_check") THEN [waker EXCEPT !.keys = FALSE] ELSE waker
  /\ UNCHANGED <<gsi, irqs, room, disk, ask, left>>

\* MailboxRecv::poll: check, register, check again
Receives(x) ==
  /\ At(x, "box_check") \/ At(x, "box_again")
  /\ box[x].msgs # <<>>
  /\ box' = [box EXCEPT ![x].msgs = Tail(@)]
  /\ actor' = [actor EXCEPT ![x].pc = "handle", ![x].msg = Head(box[x].msgs)]
  /\ UNCHANGED <<gsi, irqs, queue, editor, waker, disk, ask, left>>

Ends(x) ==
  /\ At(x, "box_check") \/ At(x, "box_again")
  /\ box[x].msgs = <<>> /\ box[x].closed
  /\ Goes(x, "ending")
  /\ UNCHANGED <<gsi, irqs, queue, editor, box, waker, disk, ask, left>>

Registers(x) ==
  /\ At(x, "box_check") /\ box[x].msgs = <<>> /\ ~box[x].closed
  /\ Goes(x, "box_register")
  /\ UNCHANGED <<gsi, irqs, queue, editor, box, waker, disk, ask, left>>

Registered(x) ==
  /\ At(x, "box_register")
  /\ box' = [box EXCEPT ![x].waker = TRUE]
  /\ Goes(x, "box_again")
  /\ UNCHANGED <<gsi, irqs, queue, editor, waker, disk, ask, left>>

\* Mutant: the mailbox is not looked at again after registering.
ParksBlind(x) ==
  /\ At(x, "box_again")
  /\ Goes(x, "parked")
  /\ UNCHANGED <<gsi, irqs, queue, editor, box, waker, disk, ask, left>>

Parks(x) ==
  /\ At(x, "box_again") /\ box[x].msgs = <<>> /\ ~box[x].closed
  /\ Goes(x, "parked")
  /\ UNCHANGED <<gsi, irqs, queue, editor, box, waker, disk, ask, left>>

\* The executor polls a woken task again, unless it has lost the wake.
Repolls(x) ==
  /\ actor[x].pc \in {"parked", "io_parked"} /\ actor[x].woken
  /\ actor' = [actor EXCEPT ![x].woken = FALSE,
                 ![x].pc = IF @ = "parked" THEN "poll" ELSE "io_check"]
  /\ UNCHANGED <<gsi, irqs, queue, editor, box, waker, disk, ask, left>>

\* T::run has returned: running is cleared, and the task's wakers are dead.
Finishes(x) ==
  /\ At(x, "ending")
  /\ actor' = [actor EXCEPT ![x].pc = "off", ![x].running = FALSE, ![x].woken = FALSE]
  /\ box' = [box EXCEPT ![x].waker = FALSE]
  /\ waker' = IF x = "keyboard" THEN [waker EXCEPT !.keys = FALSE] ELSE waker
  /\ UNCHANGED <<gsi, irqs, queue, editor, disk, ask, left>>

\* start_driver and stop_driver; refused unless stopped or running
Started(x) ==
  IF actor[x].running THEN UNCHANGED <<actor, box>>
  ELSE /\ box' = [box EXCEPT ![x].closed = FALSE]
       /\ actor' = [actor EXCEPT ![x] = Task]

Stopped(x) ==
  IF ~actor[x].running THEN UNCHANGED <<actor, box>>
  ELSE /\ box' = [box EXCEPT ![x].closed = TRUE, ![x].waker = FALSE]
       /\ actor' = IF box[x].waker THEN Woken(x) ELSE actor

-----------------------------------------------------------------------------
(***************************************************************************)
(* Message handlers.                                                       *)
(***************************************************************************)

Handles(x, tag) == At(x, "handle") /\ actor[x].msg[1] = tag

\* Info and ErasedInfo: answered at once
OnInfo(x) ==
  /\ x # "virtio-blk" \/ ~left.reads
  /\ Handles(x, "ask")
  /\ ask' = [ask EXCEPT ![actor[x].msg[2]] = "none"]
  /\ Goes(x, "poll")
  /\ UNCHANGED <<gsi, irqs, queue, editor, box, waker, disk, left>>

OnSetPrompt ==
  /\ Handles("keyboard", "prompt")
  /\ \E r \in left.rooms : room' = r
  /\ Goes("keyboard", "poll")
  /\ UNCHANGED <<gsi, irqs, queue, line, live, box, waker, disk, ask, left>>

(* on_key_line: a command; one that asks an actor (never the shell itself, *)
(* which could not answer) waits for the reply.                            *)
OnKeyLine ==
  /\ Handles("shell", "line")
  /\ LET shell == [actor EXCEPT !["shell"].pc = "command"] IN
     \/ /\ Goes("shell", "command") /\ UNCHANGED <<box, ask>>
     \/ \E x \in left.infos \ {"shell"} :
          /\ ask' = [ask EXCEPT !["shell"] = IF box[x].closed THEN "none" ELSE "waiting"]
          /\ IF box[x].closed THEN actor' = shell /\ UNCHANGED box
             ELSE /\ box' = [box EXCEPT ![x].msgs = Append(@, <<"ask", "shell">>),
                                        ![x].waker = FALSE]
                  /\ actor' = IF box[x].waker THEN [shell EXCEPT ![x].woken = TRUE] ELSE shell
  /\ UNCHANGED <<gsi, irqs, queue, editor, waker, disk, left>>

\* print_prompt, when the command is done
Prompts ==
  /\ At("shell", "command") /\ ask["shell"] = "none"
  /\ LET shell == [actor EXCEPT !["shell"].pc = "poll"] IN
     IF box["keyboard"].closed THEN actor' = shell /\ UNCHANGED box
     ELSE /\ box' = [box EXCEPT !["keyboard"].msgs = Append(@, <<"prompt">>),
                                !["keyboard"].waker = FALSE]
          /\ actor' = IF box["keyboard"].waker THEN [shell EXCEPT !["keyboard"].woken = TRUE]
                      ELSE shell
  /\ UNCHANGED <<gsi, irqs, queue, editor, waker, disk, ask, left>>

\* "driver stop" and "driver start"
DriverCommand ==
  /\ left.switches > 0
  /\ \E x \in left.targets : Started(x) \/ Stopped(x)
  /\ left' = [left EXCEPT !.switches = @ - 1]
  /\ UNCHANGED <<gsi, irqs, queue, editor, waker, disk, ask>>

\* A file operation of another task asks the block actor.
FileAsks ==
  /\ left.asks > 0 /\ ask["file"] = "none"
  /\ \E x \in left.targets : Asks("file", x)
  /\ left' = [left EXCEPT !.asks = @ - 1]
  /\ UNCHANGED <<gsi, irqs, queue, editor, waker, disk>>

-----------------------------------------------------------------------------
(***************************************************************************)
(* The block device: on_read and on_write wait in CompletionFuture.        *)
(***************************************************************************)

OnRead ==
  /\ left.reads /\ Handles("virtio-blk", "ask")
  /\ disk' = [disk EXCEPT !.busy = TRUE]
  /\ Goes("virtio-blk", "io_check")
  /\ UNCHANGED <<gsi, irqs, queue, editor, box, waker, ask, left>>

\* peek_used finds the request: the line is unmasked, the request completed
\* and the question answered, the device lock being taken anew for each.
IoSeen ==
  /\ At("virtio-blk", "io_check") \/ At("virtio-blk", "io_again")
  /\ disk.used
  /\ Goes("virtio-blk", "io_unmask")
  /\ UNCHANGED <<gsi, irqs, queue, editor, box, waker, disk, ask, left>>

IoUnmasks ==
  /\ At("virtio-blk", "io_unmask")
  /\ gsi' = [gsi EXCEPT !.blk = Unmasked(@)]
  /\ Goes("virtio-blk", "io_complete")
  /\ UNCHANGED <<irqs, queue, editor, box, waker, disk, ask, left>>

IoCompletes ==
  /\ At("virtio-blk", "io_complete")
  /\ disk' = [disk EXCEPT !.busy = FALSE, !.used = FALSE]
  /\ Goes("virtio-blk", "io_reply")
  /\ UNCHANGED <<gsi, irqs, queue, editor, box, waker, ask, left>>

IoReplies ==
  /\ At("virtio-blk", "io_reply")
  /\ ask' = [ask EXCEPT ![actor["virtio-blk"].msg[2]] = "none"]
  /\ Goes("virtio-blk", "poll")
  /\ UNCHANGED <<gsi, irqs, queue, editor, box, waker, disk, left>>

IoWaits ==
  /\ \/ At("virtio-blk", "io_check") /\ Goes("virtio-blk", "io_register") /\ UNCHANGED waker
     \/ At("virtio-blk", "io_again") /\ Goes("virtio-blk", "io_parked") /\ UNCHANGED waker
  /\ ~disk.used
  /\ UNCHANGED <<gsi, irqs, queue, editor, box, disk, ask, left>>

IoRegisters ==
  /\ At("virtio-blk", "io_register")
  /\ waker' = [waker EXCEPT !.blk = TRUE] /\ Goes("virtio-blk", "io_again")
  /\ UNCHANGED <<gsi, irqs, queue, editor, box, disk, ask, left>>

\* The interrupt: the handler masks the line and wakes the actor.  An edge
\* on a masked line is lost.
Interrupt ==
  IF gsi.blk.masked THEN UNCHANGED <<gsi, waker, actor>>
  ELSE /\ gsi' = [gsi EXCEPT !.blk.masked = TRUE]
       /\ waker' = [waker EXCEPT !.blk = FALSE]
       /\ actor' = IF waker.blk THEN Woken("virtio-blk") ELSE actor

\* The device puts the request in the used ring, and raises its interrupt a
\* moment later.
DeviceDone ==
  /\ disk.busy /\ ~disk.used /\ ~disk.irq
  /\ disk' = [disk EXCEPT !.used = TRUE, !.irq = TRUE]
  /\ UNCHANGED <<gsi, irqs, queue, editor, tasks, left>>

DeviceInterrupt ==
  /\ disk.irq /\ disk' = [disk EXCEPT !.irq = FALSE]
  /\ Interrupt
  /\ UNCHANGED <<irqs, queue, editor, box, ask, left>>

-----------------------------------------------------------------------------

Step(x) ==
  \/ Polls(x) \/ Receives(x) \/ Ends(x) \/ Registers(x) \/ Registered(x) \/ Parks(x)
  \/ Finishes(x) \/ OnInfo(x)

Keyboard == KeysRegister \/ KeysCheck \/ OnKey \/ OnSetPrompt \/ Step("keyboard")
Shell == OnKeyLine \/ Step("shell")
Block ==
  \/ OnRead \/ IoSeen \/ IoUnmasks \/ IoCompletes \/ IoReplies \/ IoWaits \/ IoRegisters
  \/ Step("virtio-blk")
Device == DeviceDone \/ DeviceInterrupt
Resumes == Prompts \/ \E x \in Actors : Repolls(x)

KbdDriver(d) ==
  \/ IrqCreate(d) \/ IrqSave(d) \/ IrqRoute(d) \/ IrqOpen(d) \/ IrqOpenFails(d)
  \/ IrqWait(d) \/ Feed(d) \/ KbdConnect(d) \/ KbdExit(d) \/ KbdFault(d)

Next ==
  \/ Keyboard \/ Shell \/ Block \/ Device \/ Resumes
  \/ Scancode \/ DriverCommand \/ FileAsks
  \/ \E d \in Drivers : KbdDriver(d)

Spec == Init /\ [][Next]_vars

(* A worker goes on with the poll it is in, and the disk answers and       *)
(* raises its interrupt.  That a woken task is polled again (Resumes) is   *)
(* not assumed, and nothing is assumed of users and processes.             *)
FairSpec ==
  Spec /\ WF_vars(Keyboard) /\ WF_vars(Shell) /\ WF_vars(Block) /\ WF_vars(Device)

-----------------------------------------------------------------------------

\* Queue, line, history and scancode buffers keep their bounds.
TypeOK ==
  /\ Len(queue) <= QueueSize
  /\ Len(line.buf) <= MAX_LINE /\ line.cursor \in 0 .. Len(line.buf)
  /\ Len(line.history) <= MAX_HISTORY /\ line.hist \in 0 .. Len(line.history)
  /\ \A d \in Drivers : Len(drv[d].buf) <= BufSize

(* The driver decodes the scancodes its descriptor's handler accepted,     *)
(* each once and in the order they were read, although some are posted     *)
(* from the handler and some from a later wait.                            *)
ScancodesInOrder ==
  \A d \in Drivers : drv[d].fed \o drv[d].port \o drv[d].buf = read[d]

(* The keyboard line is the kernel's and unmasked, or goes to a process    *)
(* that still has it, so that it is the kernel's when there is none; and   *)
(* the vectors in use are the block device's and those of processes that   *)
(* have one.  The line is lost when a process dies of a fault, when one    *)
(* has no free descriptor, or when two overlap and the first to claim it   *)
(* is the first to close it (astray); the vectors are not, except a dead   *)
(* process's.                                                              *)
Holds(d) == drv[d].pc \in {"routed", "claimed", "loop"}

KeyboardReturns ==
  /\ astray \/ gsi.kbd = KernelEntry
       \/ \E d \in Drivers : Holds(d) /\ gsi.kbd.to = drv[d].vector
  /\ \A v \in Vectors :
       vec[v] <=> v = 1 \/ \E d \in Drivers : drv[d].pc # "off" /\ drv[d].vector = v

(* While the user looks through the history, the line they left is kept    *)
(* as it was, whatever they do to the entries.                             *)
SavedLine == line.hist # 0 => line.saved = live

\* A task in the executor's hands: it has been woken and waits to be polled.
Overdue(x) == actor[x].pc \in {"parked", "io_parked"} /\ actor[x].woken

\* The block actor sleeps on a request that is done, and its line is masked.
Deaf ==
  /\ At("virtio-blk", "io_parked") /\ ~actor["virtio-blk"].woken
  /\ disk.used /\ ~disk.irq /\ gsi.blk.masked

(* Every question to an actor is answered or refused: messages are not     *)
(* lost between a task's checks and its sleep, nor by stopping and         *)
(* starting the actor at any moment.  There are two exceptions, and no     *)
(* third: the executor never polls a woken actor again (it can lose a wake *)
(* that comes during the poll), or an interrupt taken after its request    *)
(* was seen has masked the block device's line for the next one.           *)
AsksEnd ==
  \/ \A a \in Askers : (ask[a] = "waiting") ~> (ask[a] = "none")
  \/ \E x \in Actors : <>[]Overdue(x)
  \/ <>[]Deaf

=============================================================================
