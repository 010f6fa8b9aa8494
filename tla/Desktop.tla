------------------------------ MODULE Desktop ------------------------------
(***************************************************************************)
(* The compositor, its clients and the notification descriptors between    *)
(* them: windows in z-order, focus, dragging, damage, resizing and the two *)
(* bounded channels of every client.                                       *)
(*                                                                         *)
(* The compositor handles one completion per step.  Completions without    *)
(* data go to its ring (cq) at once; received messages wait in the kernel  *)
(* (deferred) and are copied to the address given at submission when the   *)
(* compositor enters the ring again.  The windows are elements of a Vec    *)
(* that never reallocates, so a slot number is an address.  Where a click  *)
(* lands is left open; the screen is the last buffer contents copied to it.*)
(*                                                                         *)
(* user-rs/compositor/src/main.rs, term/src/main.rs, demo-client;          *)
(* libkernel/src/notify.rs, service.rs; rt/src/ostoo.rs.                   *)
(***************************************************************************)
EXTENDS Naturals, Sequences, SequencesExt, FiniteSets

CONSTANTS Clients,
          MAX_WINDOWS,
          Capacity,      \* of every channel
          TagSpan,       \* TAG_CMD_BASE - TAG_DAMAGE_BASE and so on
          Sessions       \* bounds of a behaviour: frames drawn, keys and mouse
                         \* events, the clients and what they may do

ASSUME DesktopAssumption ==
  {MAX_WINDOWS, Capacity, TagSpan} \subseteq Nat \ {0}

TAG_NEW_CLIENT == TagSpan
TAG_DAMAGE_BASE == 2 * TagSpan
TAG_CMD_BASE == 3 * TagSpan
TAG_KEYBOARD == 4 * TagSpan
TAG_MOUSE == 5 * TagSpan

VARIABLES
  windows,   \* Vec<Window>, topmost last: id, client, gen (of the buffer), cmd (cmd_msg)
  comp,      \* the compositor's locals: pc, next_wid, focused, drag, button, dirty
  reg, kbd,  \* the registration channel and the keyboard channel
  cq,        \* its completions in the ring
  deferred,  \* and those that still wait in the kernel
  s2c, c2s,  \* channels of each client: messages, armed address or -1, closed ends
  notify,    \* NotifyInner of each client: pending registration (0: none), notified
  client,    \* pc, port, buffer in use, version last drawn
  content,   \* version of the picture in each buffer of a client
  shown,     \* version of a client's picture on the screen
  mouse,     \* IrqInner of GSI 12: armed, number of buffered events
  budget     \* what is left of the bounds

inboxes == <<reg, kbd>>
desktopVars ==
  <<windows, comp, inboxes, cq, deferred, s2c, c2s, notify, client, content, shown, mouse, budget>>

NotArmed == 0 - 1
Channel == [buf |-> <<>>, armed |-> NotArmed, recvClosed |-> FALSE, sendClosed |-> FALSE]
Inbox == [buf |-> <<>>, armed |-> TRUE, subscribed |-> TRUE]
NoDrag == [mode |-> "none", wid |-> 0]

DesktopInit ==
  /\ budget \in Sessions
  /\ windows = <<>>
  /\ comp = [pc |-> "enter", next_wid |-> 1, focused |-> 0, drag |-> NoDrag, button |-> FALSE,
             dirty |-> FALSE]
  /\ reg = Inbox /\ kbd = Inbox
  /\ cq = <<>> /\ deferred = <<>>
  /\ s2c = [c \in Clients |-> Channel] /\ c2s = [c \in Clients |-> Channel]
  /\ notify = [c \in Clients |-> [pending |-> 0, notified |-> FALSE]]
  /\ client = [c \in Clients |-> [pc |-> "start", port |-> <<>>, gen |-> 0, drawn |-> 0]]
  /\ content = [c \in Clients |-> <<>>]
  /\ shown = [c \in Clients |-> 0]
  /\ mouse = [armed |-> TRUE, buffered |-> 0]

Simple(ud) == [ud |-> ud, msg |-> "none"]
Deferred(ud, msg, addr) == [ud |-> ud, msg |-> msg, addr |-> addr]
WindowOf(wid) == CHOOSE i \in DOMAIN windows : windows[i].id = wid
Open(wid) == \E i \in DOMAIN windows : windows[i].id = wid
WindowIdOf(c) == windows[CHOOSE i \in DOMAIN windows : windows[i].client = c].id
HasWindow(c) == \E i \in DOMAIN windows : windows[i].client = c
Full(ch) == Len(ch.buf) >= Capacity

-----------------------------------------------------------------------------
(***************************************************************************)
(* Kernel side: channels with a completion port at the receiving end, and  *)
(* notification descriptors.                                               *)
(***************************************************************************)

(* arm_recv on c2s[c] with the address of a message buffer: a waiting      *)
(* message is queued for copying, a closed channel answers at once.        *)
ArmCommands(c, wid, addr) ==
  /\ c2s' = [c2s EXCEPT ![c].buf = IF @ = <<>> THEN @ ELSE Tail(@),
                         ![c].armed = IF c2s[c].buf = <<>> /\ ~c2s[c].sendClosed
                                      THEN addr ELSE NotArmed]
  /\ deferred' = IF c2s[c].buf = <<>> THEN deferred
                 ELSE Append(deferred, Deferred(TAG_CMD_BASE + wid, Head(c2s[c].buf), addr))

PeerClosed(c, wid) ==
  IF c2s[c].buf = <<>> /\ c2s[c].sendClosed
  THEN <<[ud |-> TAG_CMD_BASE + wid, msg |-> "closed"]>> ELSE <<>>

\* arm_notify, after the completion at the head of cq has been taken; more is
\* what is posted next
ArmNotify(c, wid, more) ==
  IF notify[c].notified
  THEN /\ notify' = [notify EXCEPT ![c].notified = FALSE]
       /\ cq' = Append(Tail(cq), Simple(TAG_DAMAGE_BASE + wid)) \o more
  ELSE /\ notify' = [notify EXCEPT ![c].pending = TAG_DAMAGE_BASE + wid]
       /\ cq' = Tail(cq) \o more

\* signal_notify
Signalled(c) ==
  IF notify[c].pending # 0
  THEN /\ notify' = [notify EXCEPT ![c].pending = 0]
       /\ cq' = Append(cq, Simple(notify[c].pending))
  ELSE notify' = [notify EXCEPT ![c].notified = TRUE] /\ UNCHANGED cq

\* try_send from the compositor to a client: into the client's port if it has
\* a receive registered there, into the buffer otherwise
Delivered(c, msg) ==
  IF s2c[c].armed # NotArmed
  THEN /\ s2c' = [s2c EXCEPT ![c].armed = NotArmed]
       /\ client' = [client EXCEPT ![c].port = Append(@, msg)]
  ELSE s2c' = [s2c EXCEPT ![c].buf = Append(@, msg)] /\ UNCHANGED client

\* arm_irq on the mouse: every buffered event is posted
MouseArmed(q) ==
  IF mouse.buffered > 0
  THEN /\ cq' = q \o [i \in 1 .. mouse.buffered |-> Simple(TAG_MOUSE)]
       /\ mouse' = [mouse EXCEPT !.buffered = 0]
  ELSE cq' = q /\ mouse' = [mouse EXCEPT !.armed = TRUE]

-----------------------------------------------------------------------------
(***************************************************************************)
(* The compositor's event loop.                                            *)
(***************************************************************************)

\* The messages of deferred completions are copied in order, each to the slot
\* of the Vec it was submitted with, whichever window is there now.
Written(i) ==
  LET hits == {k \in DOMAIN deferred : deferred[k].addr = i}
  IN  IF hits = {} THEN windows[i].cmd ELSE deferred[Max(hits)].msg

\* ring.enter(0, 1)
Enter ==
  /\ comp.pc = "enter" /\ cq \o deferred # <<>>
  /\ windows' = [i \in DOMAIN windows |-> [windows[i] EXCEPT !.cmd = Written(i)]]
  /\ cq' = cq \o [i \in DOMAIN deferred |->
                   [ud |-> deferred[i].ud, msg |-> deferred[i].msg]]
  /\ deferred' = <<>>
  /\ comp' = [comp EXCEPT !.pc = "drain"]
  /\ UNCHANGED <<inboxes, s2c, c2s, notify, client, content, shown, mouse, budget>>

Pops(ud) == comp.pc = "drain" /\ cq # <<>> /\ Head(cq).ud = ud

\* The next receive on the registration or keyboard channel is submitted.
Rearm(box, ud) ==
  IF box.buf = <<>> THEN <<>> ELSE <<Deferred(ud, Head(box.buf), 0)>>

Rearmed(box) ==
  [box EXCEPT !.buf = IF @ = <<>> THEN @ ELSE Tail(@), !.armed = box.buf = <<>>]

(* handle_connect: refused without an answer when there are MAX_WINDOWS    *)
(* windows, when memory is short or when the reply cannot be sent (the     *)
(* descriptors that came with the message stay open).  The first receive   *)
(* is submitted with the address of a local (0), which is then moved into  *)
(* the Vec.                                                                *)
NewWindow(c) == [id |-> comp.next_wid, client |-> c, gen |-> 0, cmd |-> "none"]

HandleConnect ==
  /\ Pops(TAG_NEW_CLIENT)
  /\ LET c == Head(cq).msg IN
     \/ /\ \/ /\ Len(windows) >= MAX_WINDOWS
              /\ comp' = [comp EXCEPT !.dirty = TRUE]
           \/ /\ Len(windows) < MAX_WINDOWS /\ (budget.nomem \/ s2c[c].recvClosed)
              /\ comp' = [comp EXCEPT !.dirty = TRUE, !.next_wid = @ + 1]
        /\ cq' = Tail(cq)
        /\ deferred' = deferred \o Rearm(reg, TAG_NEW_CLIENT)
        /\ UNCHANGED <<windows, s2c, c2s, notify, client, content>>
     \/ /\ Len(windows) < MAX_WINDOWS /\ ~s2c[c].recvClosed
        /\ comp' = [comp EXCEPT !.dirty = TRUE, !.next_wid = @ + 1, !.focused = comp.next_wid]
        /\ windows' = Append(windows, NewWindow(c))
        /\ content' = [content EXCEPT ![c] = <<0>>]
        /\ ArmNotify(c, comp.next_wid, PeerClosed(c, comp.next_wid))
        /\ c2s' = [c2s EXCEPT ![c].armed = 0]              \* nothing sent on it yet
        /\ deferred' = deferred \o Rearm(reg, TAG_NEW_CLIENT)
        /\ Delivered(c, "created")
  /\ reg' = Rearmed(reg)
  /\ UNCHANGED <<kbd, shown, mouse, budget>>


HandleDamage ==
  /\ comp.pc = "drain" /\ cq # <<>>
  /\ Head(cq).ud >= TAG_DAMAGE_BASE /\ Head(cq).ud < TAG_CMD_BASE
  /\ LET wid == Head(cq).ud - TAG_DAMAGE_BASE IN
     IF Open(wid)
     THEN /\ comp' = [comp EXCEPT !.dirty = TRUE]
          /\ ArmNotify(windows[WindowOf(wid)].client, wid, <<>>)
     ELSE cq' = Tail(cq) /\ UNCHANGED <<comp, notify>>
  /\ UNCHANGED <<inboxes, windows, deferred, s2c, c2s, client, content, shown, mouse, budget>>

\* A key goes to the focused window unless its channel is full; the next
\* receive on the keyboard channel is submitted.
HandleKey ==
  /\ Pops(TAG_KEYBOARD)
  /\ LET c == windows[WindowOf(comp.focused)].client IN
     IF Open(comp.focused) /\ ~s2c[c].recvClosed /\ ~Full(s2c[c])
     THEN Delivered(c, "key") ELSE UNCHANGED <<s2c, client>>
  /\ cq' = Tail(cq)
  /\ deferred' = deferred \o Rearm(kbd, TAG_KEYBOARD) /\ kbd' = Rearmed(kbd)
  /\ UNCHANGED <<windows, comp, reg, c2s, notify, content, shown, mouse, budget>>

\* Mutant: the focus stays on the closed window.
ClosedKeepsFocus(k, wid) ==
  comp' = [k EXCEPT !.dirty = TRUE] /\ windows' = RemoveAt(windows, WindowOf(wid))

\* windows.retain (an id belongs to one window), and the focus goes to the
\* topmost window that is left; k are the compositor's other locals
Closed(k, wid) ==
  LET rest == RemoveAt(windows, WindowOf(wid)) IN
  /\ windows' = rest
  /\ comp' = [k EXCEPT !.dirty = TRUE,
                !.focused = IF @ # wid THEN @ ELSE IF rest = <<>> THEN 0 ELSE Last(rest).id]

(* Dropping a Window closes its descriptors: the client's receive is       *)
(* completed with -EPIPE, its sends fail from now on.                      *)
Dropped(c) ==
  /\ c2s' = [c2s EXCEPT ![c].recvClosed = TRUE, ![c].armed = NotArmed]
  /\ s2c' = [s2c EXCEPT ![c].sendClosed = TRUE, ![c].armed = NotArmed]
  /\ client' = IF s2c[c].armed # NotArmed
               THEN [client EXCEPT ![c].port = Append(@, "closed")] ELSE client

Commands ==
  /\ comp.pc = "drain" /\ cq # <<>>
  /\ Head(cq).ud >= TAG_CMD_BASE /\ Head(cq).ud \notin {TAG_KEYBOARD, TAG_MOUSE}

(* A command: the tag is read from the window's own message buffer, unless *)
(* the completion is an error, and the receive is submitted again in any   *)
(* case, also after an error.                                              *)
HandleCommand ==
  /\ Commands
  /\ LET wid == Head(cq).ud - TAG_CMD_BASE
         i   == WindowOf(wid)
         c   == windows[i].client
         tag == IF Head(cq).msg = "closed" THEN "none" ELSE windows[i].cmd
     IN  \/ /\ ~Open(wid)
            /\ cq' = Tail(cq)
            /\ UNCHANGED <<windows, comp, deferred, s2c, c2s, client>>
         \/ /\ Open(wid) /\ tag = "close"
            /\ cq' = Tail(cq)
            /\ Closed(comp, wid) /\ Dropped(c) /\ UNCHANGED deferred
         \/ /\ Open(wid) /\ tag # "close"
            /\ comp' = [comp EXCEPT !.dirty = @ \/ tag = "present"]
            /\ windows' = [windows EXCEPT ![i].cmd = "none"]
            /\ ArmCommands(c, wid, i) /\ cq' = Tail(cq) \o PeerClosed(c, wid)
            /\ UNCHANGED <<s2c, client>>
  /\ UNCHANGED <<inboxes, notify, content, shown, mouse, budget>>

-----------------------------------------------------------------------------
(* A mouse event: the button state it brings decides between press,        *)
(* release and movement.  The mouse is armed again after each event.       *)

MouseRearm == MouseArmed(Tail(cq))

\* windows.remove(idx) and push
Raised(i) == Append(RemoveAt(windows, i), windows[i])

\* hit_test: where a click may land.  budget.hits bounds what the user aims at.
WindowZones == {"title", "resize", "content"}
HitZones == WindowZones \cup {"none", "close"}

Press ==
  /\ Pops(TAG_MOUSE) /\ comp.drag = NoDrag /\ ~comp.button
  /\ \/ /\ "none" \in budget.hits
        /\ comp' = [comp EXCEPT !.button = TRUE]
        /\ UNCHANGED <<windows, s2c, c2s, client>>
     \/ \E i \in DOMAIN windows, zone \in WindowZones \cap budget.hits :
          /\ windows' = Raised(i)
          /\ comp' = [comp EXCEPT
               !.button = TRUE, !.dirty = TRUE, !.focused = windows[i].id,
               !.drag = IF zone = "content" THEN NoDrag
                        ELSE [mode |-> IF zone = "title" THEN "move" ELSE "resize",
                              wid |-> windows[i].id]]
          /\ UNCHANGED <<s2c, c2s, client>>
     \/ \E i \in DOMAIN windows :
          /\ "close" \in budget.hits
          /\ Closed([comp EXCEPT !.button = TRUE, !.focused = windows[i].id], windows[i].id)
          /\ Dropped(windows[i].client)
  /\ MouseRearm
  /\ UNCHANGED <<inboxes, deferred, notify, content, shown, budget>>

\* Movement: a window is dragged along or its frame resized; or only the cursor.
Move ==
  /\ Pops(TAG_MOUSE)
  /\ \/ comp.drag # NoDrag /\ comp' = [comp EXCEPT !.dirty = TRUE]
     \/ comp.drag = NoDrag /\ comp.button /\ \E b \in BOOLEAN : comp' = [comp EXCEPT !.button = b]
     \/ comp.drag = NoDrag /\ ~comp.button /\ UNCHANGED comp
  /\ MouseRearm
  /\ UNCHANGED <<inboxes, windows, deferred, s2c, c2s, notify, client, content, shown, budget>>

Released == [comp EXCEPT !.button = FALSE, !.dirty = TRUE, !.drag = NoDrag]

\* The end of a drag that needs no new buffer.
Release ==
  /\ Pops(TAG_MOUSE) /\ comp.drag # NoDrag
  /\ comp' = Released /\ MouseRearm
  /\ UNCHANGED <<inboxes, windows, deferred, s2c, c2s, notify, client, content, shown, budget>>

(* finalize_resize: a new buffer is sent to the client with a blocking     *)
(* call, then the window uses it, whether or not the message was taken.    *)
ResizeStart ==
  /\ Pops(TAG_MOUSE) /\ comp.drag.mode = "resize" /\ Open(comp.drag.wid)
  /\ budget.resizes > 0
  /\ comp' = [comp EXCEPT !.pc = "sending"]
  /\ budget' = [budget EXCEPT !.resizes = @ - 1]
  /\ UNCHANGED <<inboxes, windows, cq, deferred, s2c, c2s, notify, client, content, shown, mouse>>

ResizeTarget == windows[WindowOf(comp.drag.wid)].client

ResizeSent ==
  /\ comp.pc = "sending"
  /\ LET c == ResizeTarget
         i == WindowOf(comp.drag.wid)
     IN  /\ s2c[c].recvClosed \/ ~Full(s2c[c])
         /\ IF s2c[c].recvClosed THEN UNCHANGED <<s2c, client>> ELSE Delivered(c, "resized")
         /\ windows' = [windows EXCEPT ![i].gen = @ + 1]
         /\ content' = [content EXCEPT ![c] = Append(@, 0)]
  /\ comp' = [Released EXCEPT !.pc = "drain"]
  /\ MouseRearm
  /\ UNCHANGED <<inboxes, deferred, c2s, notify, shown, budget>>

\* blit_window: what is in the buffer the window uses now
Blit(w) == content[w.client][w.gen + 1]

\* composite: every window's buffer is copied to the screen
Composite ==
  [c \in Clients |->
     IF HasWindow(c) THEN Blit(windows[CHOOSE i \in DOMAIN windows : windows[i].client = c]) ELSE 0]

Paint ==
  /\ comp.pc = "drain" /\ cq = <<>>
  /\ comp' = [comp EXCEPT !.pc = "enter", !.dirty = FALSE]
  /\ shown' = IF comp.dirty THEN Composite ELSE shown
  /\ UNCHANGED <<inboxes, windows, cq, deferred, s2c, c2s, notify, client, content, mouse, budget>>

-----------------------------------------------------------------------------
(***************************************************************************)
(* Clients.                                                                *)
(***************************************************************************)

\* service_lookup, MSG_CONNECT on the registration channel, and a wait
Connect(c) ==
  /\ client[c].pc = "start" /\ c \in budget.clients
  /\ client' = [client EXCEPT ![c].pc = "reply"]
  /\ IF reg.armed
     THEN /\ deferred' = Append(deferred, Deferred(TAG_NEW_CLIENT, c, 0))
          /\ reg' = [reg EXCEPT !.armed = FALSE]
     ELSE Len(reg.buf) < Capacity /\ reg' = [reg EXCEPT !.buf = Append(@, c)] /\ UNCHANGED deferred
  /\ UNCHANGED <<windows, comp, kbd, cq, s2c, c2s, notify, content, shown, mouse, budget>>

(* MSG_WINDOW_CREATED: the client maps the buffer and draws; a terminal    *)
(* starts its shell and submits the first receive on its channel.          *)
Created(c) ==
  /\ client[c].pc = "reply" /\ s2c[c].buf # <<>>
  /\ LET rest == Tail(s2c[c].buf) IN
     IF c \in budget.demos
     THEN /\ s2c' = [s2c EXCEPT ![c].buf = rest]
          /\ client' = [client EXCEPT ![c].pc = "signal", ![c].drawn = 1]
     ELSE /\ s2c' = [s2c EXCEPT ![c].buf = IF rest = <<>> THEN rest ELSE Tail(rest),
                                ![c].armed = IF rest = <<>> /\ ~s2c[c].sendClosed
                                             THEN 0 ELSE NotArmed]
          /\ client' = [client EXCEPT ![c].pc = "first", ![c].drawn = 1,
               ![c].port = IF rest # <<>> THEN Append(@, Head(rest))
                           ELSE IF s2c[c].sendClosed THEN Append(@, "closed") ELSE @]
  /\ content' = [content EXCEPT ![c][1] = 1]
  /\ UNCHANGED <<windows, comp, inboxes, cq, deferred, c2s, notify, shown, mouse, budget>>

\* Bytes of the shell arrive on the client's port.
ShellOutput(c) ==
  /\ client[c].pc \in {"first", "wait", "signal", "send"} /\ c \notin budget.demos
  /\ budget.draws > 0
  /\ ~Contains(client[c].port, "shell")
  /\ client' = [client EXCEPT ![c].port = Append(@, "shell")]
  /\ budget' = [budget EXCEPT !.draws = @ - 1]
  /\ UNCHANGED <<inboxes, windows, comp, cq, deferred, s2c, c2s, notify, content, shown, mouse>>

(* One turn of the terminal's loop: everything on the port is handled; a   *)
(* message is answered by the next receive, which may find one waiting     *)
(* (and so let a blocked compositor go on) or the channel closed; output   *)
(* and a new buffer mean that the picture is drawn and presented.          *)
Turn(c) ==
  LET batch == client[c].port
      got   == \E m \in {"key", "resized", "closed"} : Contains(batch, m)
      next  == IF ~got THEN <<>>
               ELSE IF s2c[c].buf # <<>> THEN <<Head(s2c[c].buf)>>
               ELSE IF s2c[c].sendClosed THEN <<"closed">> ELSE <<>>
      draws == Contains(batch, "shell") \/ Contains(batch, "resized")
      gen   == IF Contains(batch, "resized") THEN client[c].gen + 1 ELSE client[c].gen
  IN
  /\ client[c].pc = "wait" /\ batch # <<>>
  /\ s2c' = IF ~got THEN s2c
            ELSE [s2c EXCEPT ![c].buf = IF @ = <<>> THEN @ ELSE Tail(@),
                             ![c].armed = IF next = <<>> THEN 0 ELSE NotArmed]
  /\ client' = [client EXCEPT ![c] =
                  [@ EXCEPT !.port = next, !.gen = gen,
                            !.drawn = IF draws THEN @ + 1 ELSE @,
                            !.pc = IF draws THEN "signal" ELSE "wait"]]
  /\ content' = IF draws THEN [content EXCEPT ![c][gen + 1] = client[c].drawn + 1] ELSE content
  /\ UNCHANGED <<inboxes, windows, comp, cq, deferred, c2s, notify, shown, mouse, budget>>

\* notify.signal(); the terminal's first one is not followed by MSG_PRESENT
Signal(c) ==
  /\ client[c].pc \in {"first", "signal"}
  /\ Signalled(c)
  /\ client' = [client EXCEPT ![c].pc = IF @ = "first" THEN "wait" ELSE "send"]
  /\ UNCHANGED <<windows, comp, inboxes, deferred, s2c, c2s, content, shown, mouse, budget>>

Ended(c) ==
  /\ client' = [client EXCEPT ![c].pc = "gone", ![c].port = <<>>]
  /\ s2c' = [s2c EXCEPT ![c].recvClosed = TRUE, ![c].armed = NotArmed]
  /\ c2s' = [c2s EXCEPT ![c].sendClosed = TRUE, ![c].armed = NotArmed]

\* MSG_PRESENT (or MSG_CLOSE) is sent with a blocking call; if the channel
\* is closed the client ends with an error.
Send(c) ==
  /\ client[c].pc = "send"
  /\ \E msg \in budget.commands :
       \/ c2s[c].recvClosed /\ Ended(c) /\ UNCHANGED deferred
       \/ /\ ~c2s[c].recvClosed /\ c2s[c].armed # NotArmed
          /\ deferred' = Append(deferred, Deferred(TAG_CMD_BASE + WindowIdOf(c), msg, c2s[c].armed))
          /\ c2s' = [c2s EXCEPT ![c].armed = NotArmed]
          /\ client' = [client EXCEPT ![c].pc = "wait"] /\ UNCHANGED s2c
       \/ /\ ~c2s[c].recvClosed /\ c2s[c].armed = NotArmed /\ ~Full(c2s[c])
          /\ c2s' = [c2s EXCEPT ![c].buf = Append(@, msg)]
          /\ client' = [client EXCEPT ![c].pc = "wait"] /\ UNCHANGED <<s2c, deferred>>
  /\ UNCHANGED <<windows, comp, inboxes, cq, notify, content, shown, mouse, budget>>

(* demo-client ends as soon as it has presented its picture.  What the     *)
(* compositor registered on c2s is taken out and never completed, so the   *)
(* window stays.                                                           *)
DemoExit(c) ==
  /\ client[c].pc = "wait" /\ c \in budget.demos
  /\ Ended(c)
  /\ UNCHANGED <<windows, comp, inboxes, cq, deferred, notify, content, shown, mouse, budget>>

(* A terminal ends when the read of its shell's output finds the end of    *)
(* file (the shell has gone, so wait4 returns), whatever else is on its    *)
(* port and whether or not its last MSG_PRESENT has been received.         *)
ShellClosed(c) ==
  /\ client[c].pc = "wait" /\ c \notin budget.demos /\ budget.exits
  /\ Ended(c)
  /\ UNCHANGED <<windows, comp, inboxes, cq, deferred, notify, content, shown, mouse, budget>>

-----------------------------------------------------------------------------
(* Devices.  The keyboard driver sends without blocking, and drops a       *)
(* client whose channel is full.                                           *)

KeyPressed ==
  /\ budget.keys > 0 /\ kbd.subscribed
  /\ budget' = [budget EXCEPT !.keys = @ - 1]
  /\ deferred' = IF kbd.armed THEN Append(deferred, Deferred(TAG_KEYBOARD, "key", 0)) ELSE deferred
  /\ kbd' = IF kbd.armed THEN [kbd EXCEPT !.armed = FALSE]
            ELSE IF Len(kbd.buf) < Capacity THEN [kbd EXCEPT !.buf = Append(@, "key")]
            ELSE [kbd EXCEPT !.subscribed = FALSE]
  /\ UNCHANGED <<windows, comp, reg, cq, s2c, c2s, notify, client, content, shown, mouse>>

MouseMoved ==
  /\ budget.mouse > 0
  /\ budget' = [budget EXCEPT !.mouse = @ - 1]
  /\ IF mouse.armed
     THEN mouse' = [mouse EXCEPT !.armed = FALSE] /\ cq' = Append(cq, Simple(TAG_MOUSE))
     ELSE mouse' = [mouse EXCEPT !.buffered = @ + 1] /\ UNCHANGED cq
  /\ UNCHANGED <<inboxes, windows, comp, deferred, s2c, c2s, notify, client, content, shown>>

Compositor ==
  \/ Enter \/ HandleConnect \/ HandleDamage \/ HandleKey \/ HandleCommand
  \/ Press \/ Move \/ Release \/ ResizeStart \/ ResizeSent \/ Paint

ClientStep(c) == Created(c) \/ Turn(c) \/ Signal(c) \/ Send(c)

Environment == KeyPressed \/ MouseMoved \/ \E c \in Clients :
                 Connect(c) \/ ShellOutput(c) \/ ShellClosed(c) \/ DemoExit(c)

DesktopNext == Compositor \/ (\E c \in Clients : ClientStep(c)) \/ Environment

DesktopSpec == DesktopInit /\ [][DesktopNext]_desktopVars

(* Both programs are preempted and resumed by the scheduler; nothing is    *)
(* assumed of the user, the shell or the devices.                          *)
DesktopFairSpec ==
  DesktopSpec /\ WF_desktopVars(Compositor) /\ \A c \in Clients : WF_desktopVars(ClientStep(c))

-----------------------------------------------------------------------------

\* The channels and the list of windows keep their bounds.
DesktopTypeOK ==
  /\ Len(windows) <= MAX_WINDOWS
  /\ comp.pc \in {"enter", "drain", "sending"}
  /\ \A c \in Clients :
       /\ client[c].pc \in {"start", "reply", "first", "wait", "signal", "send", "gone"}
       /\ Len(s2c[c].buf) <= Capacity /\ Len(c2s[c].buf) <= Capacity

(* The focused window is the topmost one, and there is one as long as any  *)
(* window is open, whoever opens, closes or clicks on windows.             *)
FocusIsTop == comp.focused = IF windows = <<>> THEN 0 ELSE Last(windows).id

(* The compositor waits for room in the channel of a client that waits for *)
(* room in its own: finalize_resize and the terminal's MSG_PRESENT are     *)
(* blocking sends, and neither side empties its channel meanwhile.  It     *)
(* takes several resizes in one batch of mouse events and a client that    *)
(* presents as often.                                                      *)
MutualWait ==
  /\ comp.pc = "sending"
  /\ LET c == ResizeTarget IN
     /\ Full(s2c[c]) /\ ~s2c[c].recvClosed
     /\ client[c].pc = "send" /\ Full(c2s[c]) /\ c2s[c].armed = NotArmed

\* The receive of a window whose client has gone is in the ring, completed
\* with -EPIPE; the handler that takes it out puts the next one in.
Looping ==
  \E i \in DOMAIN cq :
    /\ cq[i].ud > TAG_CMD_BASE /\ cq[i].msg = "closed"
    /\ Open(cq[i].ud - TAG_CMD_BASE)

(* In the end the screen shows what each client drew last, in the buffer   *)
(* it was last given: no damage signal, receive or new buffer is lost      *)
(* between two loops that arm their next event only after the last one.    *)
(* There are two ways for the code to get stuck instead, and no third: the *)
(* loop on -EPIPE after a client that ended before its last command was    *)
(* handled (see DamagePainted), and the mutual wait.                       *)
Settled(c) == HasWindow(c) /\ client[c].pc # "gone" => shown[c] = client[c].drawn


(* A repaint follows all damage.  It fails when a client ends before its   *)
(* last command has been handled: the receive is submitted again, answered *)
(* with -EPIPE at once and taken from the ring in the same loop, for ever  *)
(* (each round leaves the state as it was), so the loop never gets to      *)
(* composite.                                                              *)
DamagePainted == comp.dirty ~> ~comp.dirty

=============================================================================
