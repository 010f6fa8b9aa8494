------------------------- MODULE InterfaceProofs -------------------------
(***************************************************************************)
(* What the user types on and looks at.  The keyboard, for any vectors,    *)
(* driver processes, keys and sizes: the driver decodes what its           *)
(* descriptor's handler read, in order; the line comes back to the kernel; *)
(* the line editor keeps its bounds and the line the user left.  The       *)
(* compositor, for any clients and channel capacity: the focus is on the   *)
(* topmost window.                                                         *)
(***************************************************************************)
EXTENDS Devices, Desktop, QueueLemmas

Codes == UNION {w.keys : w \in Workloads}

Entry == [to : Vectors \cup {0}, masked : BOOLEAN]

Driver == [pc : {"off", "vector", "saved", "routed", "claimed", "loop", "dead"},
           vector : Vectors \cup {0}, saved : Entry \cup {<<>>}, pending : BOOLEAN, buf : Seq(Codes),
           port : Seq(Codes), fed : Seq(Codes), clients : BOOLEAN]

Entries == [kbd : Entry, blk : Entry]

(***************************************************************************)
(* What a driver has, in the order of the scancodes r its handler read;    *)
(* while its wait is registered nothing is buffered behind it.             *)
(***************************************************************************)
InOrder(p, r) ==
  /\ p.fed \o p.port \o p.buf = r
  /\ p.pending => p.buf = <<>>
  /\ p.pc = "off" => p = Process
  /\ p.pc \notin {"off", "vector"} => p.saved \in Entry
  /\ Len(p.buf) <= BufSize

(***************************************************************************)
(* The vectors in use are the block device's and one for each process that *)
(* has begun to claim the line; a process with a descriptor is in the slot *)
(* of its vector, and who is in a slot has its descriptor there.           *)
(***************************************************************************)
Opened == {"claimed", "loop", "dead"}

VectorsOwned(ve, dr) ==
  /\ ve[1]
  /\ \A d \in Drivers : dr[d].pc # "off" =>
       dr[d].vector \in Vectors /\ dr[d].vector # 1 /\ ve[dr[d].vector]
  /\ \A d, e \in Drivers :
       dr[d].pc # "off" /\ dr[e].pc # "off" /\ dr[d].vector = dr[e].vector => d = e
  /\ \A v \in Vectors : ve[v] =>
       v = 1 \/ \E d \in Drivers : dr[d].pc # "off" /\ dr[d].vector = v

SlotsOwned(sl, dr) ==
  /\ \A d \in Drivers : dr[d].pc \in Opened => sl[dr[d].vector] = d
  /\ \A v \in Vectors : sl[v] # 0 => dr[sl[v]].pc \in Opened /\ dr[sl[v]].vector = v

LoadInv ==
  /\ {"keys", "rooms"} \subseteq DOMAIN left
  /\ left.keys \subseteq Codes /\ left.rooms \subseteq 0 .. MAX_LINE

\* Vectors, slots and driver processes.
RoutingInv(ve, sl, dr, re) ==
  /\ ve \in [Vectors -> BOOLEAN] /\ sl \in [Vectors -> Drivers \cup {0}]
  /\ dr \in [Drivers -> Driver] /\ re \in [Drivers -> Seq(Codes)]
  /\ \A d \in Drivers : InOrder(dr[d], re[d])
  /\ VectorsOwned(ve, dr) /\ SlotsOwned(sl, dr)

IrqInv == gsi \in Entries /\ LoadInv /\ RoutingInv(vec, slot, drv, read)

(***************************************************************************)
(* Unless the line is astray, what it is routed to and what the processes  *)
(* that hold it have saved are a chain back to the kernel: each entry is   *)
(* the kernel's or leads to a process that holds the line, and no two lead *)
(* to the same.  A process that has read the entry and not yet routed the  *)
(* line has the kernel's entry as it was, if that is what it read.         *)
(***************************************************************************)
Home(e) == e = KernelEntry \/ \E d \in Drivers : Holds(d) /\ e.to = drv[d].vector

Chain ==
  /\ Home(gsi.kbd)
  /\ \A d \in Drivers : Holds(d) => Home(drv[d].saved) /\ drv[d].saved.to # gsi.kbd.to
  /\ \A d, e \in Drivers :
       Holds(d) /\ Holds(e) /\ drv[d].saved.to = drv[e].saved.to => d = e
  /\ \A d \in Drivers :
       drv[d].pc = "saved" /\ drv[d].saved.to = 0 => drv[d].saved = KernelEntry

ChainInv == astray \in BOOLEAN /\ (astray \/ Chain)

Lines == Seq(Codes)

Line == [buf : Lines, cursor : Nat, history : Seq(Lines), hist : Nat, saved : Lines]

\* A line with its cursor, history and saved line within their arrays.
GoodLine(st) ==
  /\ st \in Line
  /\ Len(st.buf) <= MAX_LINE /\ st.cursor <= Len(st.buf)
  /\ Len(st.history) <= MAX_HISTORY /\ st.hist <= Len(st.history)
  /\ Len(st.saved) <= MAX_LINE

EditorInv ==
  /\ GoodLine(line) /\ room \in 0 .. MAX_LINE
  /\ queue \in Seq(Codes) /\ Len(queue) <= QueueSize
  /\ IF line.hist = 0 THEN live = line.buf ELSE live = line.saved

(***************************************************************************)
(* A step of a task, a device or a file operation: the keyboard line, the  *)
(* vectors and the driver processes stay as they are.                      *)
(***************************************************************************)
Elsewhere ==
  \/ Keyboard \/ Shell \/ Block \/ Device \/ Resumes \/ DriverCommand \/ FileAsks

LEMMA NextSplits ==
    ASSUME Next
    PROVE  Elsewhere \/ Scancode \/ \E d \in Drivers : KbdDriver(d)
BY DEF Next, Elsewhere

LEMMA ElsewhereStill ==
    ASSUME gsi \in Entries, Elsewhere
    PROVE  UNCHANGED irqs /\ gsi' \in Entries /\ gsi'.kbd = gsi.kbd
<1> DEFINE Same == UNCHANGED irqs /\ gsi' \in Entries /\ gsi'.kbd = gsi.kbd
<1>0. gsi \in Entries
  OBVIOUS
<1>1. ASSUME UNCHANGED <<gsi, irqs>> PROVE Same
  BY <1>0, <1>1
<1>2. ASSUME NEW x, Step(x) PROVE Same
  <2>1. UNCHANGED <<gsi, irqs>>
    BY <1>2 DEF Step, Polls, Receives, Ends, Registers, Registered, Parks, Finishes, OnInfo
  <2> QED
    BY <2>1, <1>1
<1>3. CASE Keyboard
  <2>1. CASE KeysRegister \/ KeysCheck \/ OnKey \/ OnSetPrompt
    BY <2>1, <1>1 DEF KeysRegister, KeysCheck, OnKey, OnSetPrompt
  <2> QED
    BY <2>1, <1>2, <1>3 DEF Keyboard
<1>4. CASE Shell
  <2>1. CASE OnKeyLine
    BY <2>1, <1>1 DEF OnKeyLine
  <2> QED
    BY <2>1, <1>2, <1>4 DEF Shell
<1>5. CASE Block
  <2>1. CASE OnRead \/ IoSeen \/ IoCompletes \/ IoReplies \/ IoWaits \/ IoRegisters
    BY <2>1, <1>1 DEF OnRead, IoSeen, IoCompletes, IoReplies, IoWaits, IoRegisters
  <2>2. CASE IoUnmasks
    BY <2>2, <1>0 DEF IoUnmasks, Unmasked, Entry, Entries
  <2> QED
    BY <2>1, <2>2, <1>2, <1>5 DEF Block
<1>6. CASE Device
  <2>1. ASSUME Interrupt PROVE gsi' \in Entries /\ gsi'.kbd = gsi.kbd
    <3>1. UNCHANGED gsi \/ gsi' = [gsi EXCEPT !.blk = [gsi.blk EXCEPT !.masked = TRUE]]
      BY <2>1 DEF Interrupt
    <3>2. [gsi.blk EXCEPT !.masked = TRUE] \in Entry
      BY <1>0 DEF Entry, Entries
    <3> QED
      BY <3>1, <3>2, <1>0 DEF Entries
  <2>2. UNCHANGED irqs
    BY <1>6 DEF Device, DeviceDone, DeviceInterrupt
  <2>3. UNCHANGED gsi \/ Interrupt
    BY <1>6 DEF Device, DeviceDone, DeviceInterrupt
  <2> QED
    BY <2>1, <2>2, <2>3, <1>0
<1>7. CASE DriverCommand \/ FileAsks
  BY <1>7, <1>1 DEF DriverCommand, FileAsks
<1>8. CASE Resumes
  BY <1>8, <1>1 DEF Resumes, Prompts, Repolls
<1> QED
  BY <1>3, <1>4, <1>5, <1>6, <1>7, <1>8 DEF Elsewhere

(***************************************************************************)
(* What a behaviour may do is fixed; only its bounds are used up.          *)
(***************************************************************************)
LEMMA LoadStep ==
    ASSUME LoadInv, [Next]_vars
    PROVE  LoadInv' /\ left'.keys = left.keys /\ left'.rooms = left.rooms
<1> DEFINE Kept == /\ {"keys", "rooms"} \subseteq DOMAIN left'
                   /\ left'.keys = left.keys /\ left'.rooms = left.rooms
<1>0. {"keys", "rooms"} \subseteq DOMAIN left
  BY DEF LoadInv
<1>1. ASSUME UNCHANGED left PROVE Kept
  BY <1>0, <1>1
<1>2. ASSUME Scancode \/ DriverCommand \/ FileAsks PROVE Kept
  <2>1. \/ \E n : left' = [left EXCEPT !.presses = n]
        \/ \E n : left' = [left EXCEPT !.switches = n]
        \/ \E n : left' = [left EXCEPT !.asks = n]
    BY <1>2 DEF Scancode, DriverCommand, FileAsks
  <2> QED
    BY <2>1, <1>0
<1>3. ASSUME NEW d \in Drivers, KbdDriver(d) PROVE Kept
  <2>1. UNCHANGED left \/ \E n : left' = [left EXCEPT !.drivers = n]
    BY <1>3 DEF KbdDriver, IrqCreate, IrqSave, IrqRoute, IrqOpen, IrqOpenFails, IrqWait, Feed,
                KbdConnect, KbdExit, KbdFault
  <2> QED
    BY <2>1, <1>0
<1>4. ASSUME NEW x, Step(x) PROVE UNCHANGED left
  BY <1>4 DEF Step, Polls, Receives, Ends, Registers, Registered, Parks, Finishes, OnInfo
<1>5. ASSUME Keyboard \/ Shell \/ Resumes PROVE UNCHANGED left
  BY <1>4, <1>5 DEF Keyboard, Shell, Resumes, KeysRegister, KeysCheck, OnKey, OnSetPrompt,
                    OnKeyLine, Prompts, Repolls
<1>6. ASSUME Block \/ Device PROVE UNCHANGED left
  BY <1>4, <1>6 DEF Block, Device, OnRead, IoSeen, IoUnmasks, IoCompletes, IoReplies, IoWaits,
                    IoRegisters, DeviceDone, DeviceInterrupt
<1>7. Kept
  BY <1>1, <1>2, <1>3, <1>5, <1>6 DEF Next, vars
<1> QED
  BY <1>7 DEF LoadInv

(***************************************************************************)
(* Sequences in a row: posting the buffered codes, taking the first posted *)
(* one and adding one at the end leave the whole the same, or longer by    *)
(* the new code.                                                           *)
(***************************************************************************)
LEMMA PostBuffered ==
    ASSUME NEW S, NEW f \in Seq(S), NEW p \in Seq(S), NEW b \in Seq(S)
    PROVE  p \o b \in Seq(S) /\ f \o (p \o b) \o <<>> = f \o p \o b
<1>1. p \o b \in Seq(S) /\ f \o (p \o b) \in Seq(S)
  BY ConcatProperties
<1>2. f \o (p \o b) = f \o p \o b
  BY ConcatAssociative
<1> QED
  BY <1>1, <1>2, ConcatEmptySeq

LEMMA FeedFirst ==
    ASSUME NEW S, NEW f \in Seq(S), NEW p \in Seq(S), NEW b \in Seq(S), p # <<>>
    PROVE  /\ Append(f, Head(p)) \in Seq(S) /\ Tail(p) \in Seq(S)
           /\ Append(f, Head(p)) \o Tail(p) \o b = f \o p \o b
<1>1. Head(p) \in S /\ Tail(p) \in Seq(S)
  BY HeadTailProperties
<1> DEFINE h == Head(p)
           t == Tail(p)
<1>2. p = <<h>> \o t
  <2>1. Len(p) \in Nat \ {0} /\ 1 \in 1 .. Len(p) /\ Len(p) \in 1 .. Len(p)
    BY EmptySeq, LenProperties
  <2>2. SubSeq(p, 1, Len(p)) = <<p[1]>> \o SubSeq(p, 1 + 1, Len(p))
    BY <2>1, SubSeqRecursiveFirst
  <2>3. SubSeq(p, 1, Len(p)) = p /\ SubSeq(p, 2, Len(p)) = Tail(p) /\ Head(p) = p[1]
    BY <2>1, SubSeqFull, TailIsSubSeq
  <2> QED
    BY <2>2, <2>3
<1>3. <<h>> \in Seq(S) /\ Append(f, h) = f \o <<h>> /\ Append(f, h) \in Seq(S)
  BY <1>1, AppendIsConcat, AppendProperties
<1> HIDE DEF h, t
<1>4. (f \o <<h>>) \o t = f \o (<<h>> \o t)
  BY <1>1, <1>3, ConcatAssociative DEF t
<1> QED
  BY <1>1, <1>2, <1>3, <1>4 DEF h, t

LEMMA AddLast ==
    ASSUME NEW S, NEW f \in Seq(S), NEW p \in Seq(S), NEW b \in Seq(S), NEW c \in S
    PROVE  /\ Append(b, c) \in Seq(S) /\ Append(p, c) \in Seq(S)
           /\ Len(Append(b, c)) = Len(b) + 1
           /\ f \o p \o Append(b, c) = Append(f \o p \o b, c)
           /\ f \o Append(p, c) \o <<>> = Append(f \o p \o <<>>, c)
<1>1. /\ <<c>> \in Seq(S) /\ Append(b, c) = b \o <<c>> /\ Append(p, c) = p \o <<c>>
      /\ Append(b, c) \in Seq(S) /\ Append(p, c) \in Seq(S) /\ Len(Append(b, c)) = Len(b) + 1
  BY AppendIsConcat, AppendProperties
<1>2. /\ f \o p \in Seq(S) /\ f \o p \o b \in Seq(S) /\ f \o Append(p, c) \in Seq(S)
  BY <1>1, ConcatProperties
<1>3. (f \o p \o b) \o <<c>> = (f \o p) \o (b \o <<c>>)
  BY <1>1, <1>2, ConcatAssociative, SMTT(30)
<1>4. Append(f \o p \o b, c) = (f \o p \o b) \o <<c>>
  BY <1>2, AppendIsConcat
<1>5. f \o Append(p, c) \o <<>> = f \o Append(p, c) /\ f \o p \o <<>> = f \o p
  BY <1>2, ConcatEmptySeq
<1>6. (f \o p) \o <<c>> = f \o (p \o <<c>>)
  BY <1>1, ConcatAssociative, SMTT(30)
<1>7. Append(f \o p, c) = (f \o p) \o <<c>>
  BY <1>2, AppendIsConcat
<1> QED
  BY <1>1, <1>3, <1>4, <1>5, <1>6, <1>7

(***************************************************************************)
(* arm_irq keeps the order, and nothing is buffered behind a wait.         *)
(***************************************************************************)
LEMMA ArmedInOrder ==
    ASSUME NEW p \in Driver, NEW r \in Seq(Codes), InOrder(p, r), p.pc \notin {"off", "vector"}
    PROVE  /\ Armed(p) \in Driver /\ InOrder(Armed(p), r)
           /\ Armed(p).pc = p.pc /\ Armed(p).vector = p.vector /\ Armed(p).saved = p.saved
<1>1. /\ p.fed \in Seq(Codes) /\ p.port \in Seq(Codes) /\ p.buf \in Seq(Codes)
      /\ p.pending \in BOOLEAN
  BY DEF Driver
<1>2. CASE p.buf # <<>>
  <2>1. Armed(p) = [p EXCEPT !.port = p.port \o p.buf, !.buf = <<>>]
    BY <1>2 DEF Armed
  <2>2. /\ p.port \o p.buf \in Seq(Codes) /\ <<>> \in Seq(Codes) /\ Len(<<>>) = 0
        /\ p.fed \o (p.port \o p.buf) \o <<>> = p.fed \o p.port \o p.buf
    <3> DEFINE f == p.fed
               t == p.port
               b == p.buf
    <3> HIDE DEF f, t, b
    <3>1. f \in Seq(Codes) /\ t \in Seq(Codes) /\ b \in Seq(Codes)
      BY <1>1 DEF f, t, b
    <3>2. t \o b \in Seq(Codes) /\ f \o (t \o b) \o <<>> = f \o t \o b
      BY <3>1, PostBuffered, SMTT(30)
    <3>3. <<>> \in Seq(Codes) /\ Len(<<>>) = 0
      BY EmptySeq
    <3> QED
      BY <3>2, <3>3 DEF f, t, b
  <2>3. Armed(p) \in Driver
    BY <2>1, <2>2 DEF Driver
  <2>4. /\ Armed(p).fed = p.fed /\ Armed(p).port = p.port \o p.buf /\ Armed(p).buf = <<>>
        /\ Armed(p).pc = p.pc /\ Armed(p).vector = p.vector /\ Armed(p).saved = p.saved
    BY <2>1 DEF Driver
  <2>5. Len(Armed(p).buf) <= BufSize
    BY <2>2, <2>4, DevicesAssumption
  <2>6. Armed(p).fed \o Armed(p).port \o Armed(p).buf = r
    BY <2>2, <2>4 DEF InOrder
  <2> QED
    BY <2>3, <2>4, <2>5, <2>6 DEF InOrder
<1>3. CASE p.buf = <<>>
  <2>1. Armed(p) = [p EXCEPT !.pending = TRUE]
    BY <1>3 DEF Armed
  <2>2. /\ Armed(p) \in Driver
        /\ Armed(p).fed = p.fed /\ Armed(p).port = p.port /\ Armed(p).buf = p.buf
        /\ Armed(p).pc = p.pc /\ Armed(p).vector = p.vector /\ Armed(p).saved = p.saved
    BY <2>1 DEF Driver
  <2> QED
    BY <2>2, <1>3 DEF InOrder
<1> QED
  BY <1>2, <1>3

LEMMA VectorsStay ==
    ASSUME NEW ve, NEW dr, NEW dr2, VectorsOwned(ve, dr),
           \A e \in Drivers :
             (dr2[e].pc # "off" <=> dr[e].pc # "off") /\ dr2[e].vector = dr[e].vector
    PROVE  VectorsOwned(ve, dr2)
<1>1. ve[1] /\ \A d \in Drivers : dr2[d].pc # "off" =>
                  dr2[d].vector \in Vectors /\ dr2[d].vector # 1 /\ ve[dr2[d].vector]
  BY DEF VectorsOwned
<1>2. \A d, e \in Drivers :
        dr2[d].pc # "off" /\ dr2[e].pc # "off" /\ dr2[d].vector = dr2[e].vector => d = e
  BY DEF VectorsOwned
<1>3. ASSUME NEW v \in Vectors, ve[v]
      PROVE  v = 1 \/ \E d \in Drivers : dr2[d].pc # "off" /\ dr2[d].vector = v
  BY <1>3 DEF VectorsOwned
<1> QED
  BY <1>1, <1>2, <1>3 DEF VectorsOwned

(***************************************************************************)
(* A process goes on, keeping its vector and its descriptor if it has one. *)
(***************************************************************************)
LEMMA ProcessReplaced ==
    ASSUME NEW ve, NEW sl, NEW dr, NEW re, RoutingInv(ve, sl, dr, re),
           NEW d \in Drivers, dr[d].pc # "off",
           NEW q \in Driver, NEW r \in Seq(Codes), InOrder(q, r),
           q.pc # "off", q.vector = dr[d].vector, q.pc \in Opened <=> dr[d].pc \in Opened
    PROVE  RoutingInv(ve, sl, [dr EXCEPT ![d] = q], [re EXCEPT ![d] = r])
<1> DEFINE dr2 == [dr EXCEPT ![d] = q]
           re2 == [re EXCEPT ![d] = r]
<1>1. /\ dr2 \in [Drivers -> Driver] /\ re2 \in [Drivers -> Seq(Codes)]
      /\ dr2[d] = q /\ re2[d] = r
      /\ \A e \in Drivers : e # d => dr2[e] = dr[e] /\ re2[e] = re[e]
  BY DEF RoutingInv
<1> HIDE DEF dr2, re2
<1>2. \A e \in Drivers : InOrder(dr2[e], re2[e])
  BY <1>1 DEF RoutingInv
<1>3. \A e \in Drivers : /\ (dr2[e].pc # "off" <=> dr[e].pc # "off")
                         /\ (dr2[e].pc \in Opened <=> dr[e].pc \in Opened)
                         /\ dr2[e].vector = dr[e].vector
  BY <1>1
<1>4. \A v \in Vectors : sl[v] # 0 => sl[v] \in Drivers
  BY DEF RoutingInv
<1>5. VectorsOwned(ve, dr2)
  BY <1>3, VectorsStay DEF RoutingInv
<1>6. SlotsOwned(sl, dr2)
  BY <1>3, <1>4, ZenonT(30) DEF RoutingInv, SlotsOwned
<1> QED
  BY <1>1, <1>2, <1>5, <1>6 DEF RoutingInv, dr2, re2

(***************************************************************************)
(* sys_irq_create begins: a process takes a free vector.                   *)
(***************************************************************************)
LEMMA ProcessStarted ==
    ASSUME NEW ve, NEW sl, NEW dr, NEW re, RoutingInv(ve, sl, dr, re),
           NEW d \in Drivers, dr[d].pc = "off", NEW v \in Vectors, ~ve[v],
           NEW q \in Driver, NEW r \in Seq(Codes), InOrder(q, r),
           q.pc # "off", q.pc \notin Opened, q.vector = v
    PROVE  RoutingInv([ve EXCEPT ![v] = TRUE], sl, [dr EXCEPT ![d] = q], [re EXCEPT ![d] = r])
<1> DEFINE ve2 == [ve EXCEPT ![v] = TRUE]
           dr2 == [dr EXCEPT ![d] = q]
           re2 == [re EXCEPT ![d] = r]
<1>1. /\ dr2 \in [Drivers -> Driver] /\ re2 \in [Drivers -> Seq(Codes)]
      /\ dr2[d] = q /\ re2[d] = r
      /\ \A e \in Drivers : e # d => dr2[e] = dr[e] /\ re2[e] = re[e]
  BY DEF RoutingInv
<1>2. /\ ve2 \in [Vectors -> BOOLEAN] /\ ve2[v] = TRUE
      /\ \A u \in Vectors : u # v => ve2[u] = ve[u]
  BY DEF RoutingInv
<1> HIDE DEF ve2, dr2, re2
<1>3. \A e \in Drivers : InOrder(dr2[e], re2[e])
  BY <1>1 DEF RoutingInv
<1>4. v # 1 /\ ve2[1] /\ 1 \in Vectors
  BY <1>2, DevicesAssumption DEF RoutingInv, VectorsOwned
<1>5. ASSUME NEW e \in Drivers, dr2[e].pc # "off", e # d
      PROVE  /\ dr[e].pc # "off" /\ dr2[e].vector = dr[e].vector /\ dr[e].vector \in Vectors
             /\ dr[e].vector # 1 /\ ve[dr[e].vector] /\ dr[e].vector # v
  BY <1>1, <1>5 DEF RoutingInv, VectorsOwned
<1>6. ASSUME NEW e \in Drivers, dr2[e].pc # "off"
      PROVE  dr2[e].vector \in Vectors /\ dr2[e].vector # 1 /\ ve2[dr2[e].vector]
  <2>1. CASE e = d
    BY <2>1, <1>1, <1>2, <1>4
  <2>2. CASE e # d
    BY <2>2, <1>2, <1>5, <1>6
  <2> QED
    BY <2>1, <2>2
<1>7. ASSUME NEW e \in Drivers, NEW g \in Drivers,
             dr2[e].pc # "off", dr2[g].pc # "off", dr2[e].vector = dr2[g].vector
      PROVE  e = g
  <2>1. CASE e # d /\ g # d
    <3>1. /\ dr[e].pc # "off" /\ dr2[e].vector = dr[e].vector
          /\ dr[g].pc # "off" /\ dr2[g].vector = dr[g].vector
      BY <2>1, <1>5, <1>7
    <3>2. VectorsOwned(ve, dr) /\ dr[e].vector = dr[g].vector
      BY <3>1, <1>7 DEF RoutingInv
    <3> QED
      BY <3>1, <3>2 DEF VectorsOwned
  <2>2. CASE e = d /\ g # d
    BY <2>2, <1>1, <1>5, <1>7
  <2>3. CASE e # d /\ g = d
    BY <2>3, <1>1, <1>5, <1>7
  <2> QED
    BY <2>1, <2>2, <2>3
<1>8. ASSUME NEW u \in Vectors, ve2[u]
      PROVE  u = 1 \/ \E e \in Drivers : dr2[e].pc # "off" /\ dr2[e].vector = u
  <2>1. CASE u = v
    BY <2>1, <1>1
  <2>2. CASE u # v /\ u # 1
    <3>1. PICK e \in Drivers : dr[e].pc # "off" /\ dr[e].vector = u
      BY <2>2, <1>2, <1>8 DEF RoutingInv, VectorsOwned
    <3> QED
      BY <3>1, <1>1
  <2> QED
    BY <2>1, <2>2
<1>9. VectorsOwned(ve2, dr2)
  BY <1>4, <1>6, <1>7, <1>8 DEF VectorsOwned
<1>10. SlotsOwned(sl, dr2)
  <2>1. ASSUME NEW e \in Drivers, dr2[e].pc \in Opened PROVE sl[dr2[e].vector] = e
    BY <2>1, <1>1 DEF RoutingInv, SlotsOwned
  <2>2. ASSUME NEW u \in Vectors, sl[u] # 0
        PROVE  dr2[sl[u]].pc \in Opened /\ dr2[sl[u]].vector = u
    <3>1. sl[u] \in Drivers /\ dr[sl[u]].pc \in Opened /\ dr[sl[u]].vector = u
      BY <2>2 DEF RoutingInv, SlotsOwned
    <3>2. sl[u] # d
      BY <3>1 DEF Opened
    <3> QED
      BY <3>1, <3>2, <1>1
  <2> QED
    BY <2>1, <2>2 DEF SlotsOwned
<1> QED
  BY <1>1, <1>2, <1>3, <1>9, <1>10 DEF RoutingInv, ve2, dr2, re2

(***************************************************************************)
(* The end of sys_irq_create: the process is in the slot of its vector.    *)
(***************************************************************************)
LEMMA ProcessOpened ==
    ASSUME NEW ve, NEW sl, NEW dr, NEW re, RoutingInv(ve, sl, dr, re),
           NEW d \in Drivers, dr[d].pc # "off", NEW v, v = dr[d].vector,
           NEW q \in Driver, InOrder(q, re[d]), q.pc \in Opened, q.vector = v
    PROVE  RoutingInv(ve, [sl EXCEPT ![v] = d], [dr EXCEPT ![d] = q], re)
<1> DEFINE sl2 == [sl EXCEPT ![v] = d]
           dr2 == [dr EXCEPT ![d] = q]
<1>0. v \in Vectors /\ q.pc # "off" /\ d # 0
  BY DevicesAssumption DEF RoutingInv, VectorsOwned, Opened
<1>1. /\ dr2 \in [Drivers -> Driver] /\ dr2[d] = q
      /\ \A e \in Drivers : e # d => dr2[e] = dr[e]
  BY DEF RoutingInv
<1>2. /\ sl2 \in [Vectors -> Drivers \cup {0}] /\ sl2[v] = d
      /\ \A u \in Vectors : u # v => sl2[u] = sl[u]
  BY <1>0 DEF RoutingInv
<1> HIDE DEF sl2, dr2
<1>3. \A e \in Drivers : InOrder(dr2[e], re[e])
  BY <1>1 DEF RoutingInv
<1>4. \A e \in Drivers : /\ (dr2[e].pc # "off" <=> dr[e].pc # "off")
                         /\ dr2[e].vector = dr[e].vector
  BY <1>0, <1>1
<1>5. VectorsOwned(ve, dr2)
  BY <1>4, VectorsStay DEF RoutingInv
<1>6. ASSUME NEW e \in Drivers, dr2[e].pc \in Opened PROVE sl2[dr2[e].vector] = e
  <2>1. CASE e = d
    BY <2>1, <1>1, <1>2
  <2>2. CASE e # d
    <3>1. dr2[e] = dr[e] /\ dr[e].pc \in Opened /\ dr[e].pc # "off" /\ sl[dr[e].vector] = e
      BY <2>2, <1>1, <1>6 DEF RoutingInv, SlotsOwned, Opened
    <3>2. dr[e].vector \in Vectors /\ dr[e].vector # v
      BY <3>1, <2>2 DEF RoutingInv, VectorsOwned
    <3> QED
      BY <3>1, <3>2, <1>2
  <2> QED
    BY <2>1, <2>2
<1>7. ASSUME NEW u \in Vectors, sl2[u] # 0
      PROVE  dr2[sl2[u]].pc \in Opened /\ dr2[sl2[u]].vector = u
  <2>1. CASE u = v
    BY <2>1, <1>1, <1>2
  <2>2. CASE u # v
    <3>1. sl2[u] = sl[u] /\ sl[u] \in Drivers /\ dr[sl[u]].pc \in Opened /\ dr[sl[u]].vector = u
      BY <2>2, <1>2, <1>7 DEF RoutingInv, SlotsOwned
    <3> QED
      BY <3>1, <2>2, <1>1
  <2> QED
    BY <2>1, <2>2
<1>8. SlotsOwned(sl2, dr2)
  BY <1>6, <1>7 DEF SlotsOwned
<1> QED
  BY <1>1, <1>2, <1>3, <1>5, <1>8 DEF RoutingInv, sl2, dr2

LEMMA ProcessTyped == Process \in Driver /\ InOrder(Process, <<>>) /\ <<>> \in Seq(Codes)
<1>1. <<>> \in Seq(Codes) /\ Len(<<>>) = 0
  BY EmptySeq
<1>2. <<>> \o <<>> = <<>>
  BY <1>1, ConcatEmptySeq
<1>3. Process \in Driver
  BY <1>1 DEF Process, Driver
<1>4. /\ Process.fed = <<>> /\ Process.port = <<>> /\ Process.buf = <<>> /\ Process.pc = "off"
  BY DEF Process
<1> QED
  BY <1>1, <1>2, <1>3, <1>4, DevicesAssumption DEF InOrder

(***************************************************************************)
(* close_irq at the end of a process: its vector and slot are free again.  *)
(***************************************************************************)
LEMMA ProcessEnded ==
    ASSUME NEW ve, NEW sl, NEW dr, NEW re, RoutingInv(ve, sl, dr, re),
           NEW d \in Drivers, dr[d].pc # "off", NEW v, v = dr[d].vector
    PROVE  RoutingInv([ve EXCEPT ![v] = FALSE], [sl EXCEPT ![v] = 0],
                      [dr EXCEPT ![d] = Process], [re EXCEPT ![d] = <<>>])
<1> DEFINE ve2 == [ve EXCEPT ![v] = FALSE]
           sl2 == [sl EXCEPT ![v] = 0]
           dr2 == [dr EXCEPT ![d] = Process]
           re2 == [re EXCEPT ![d] = <<>>]
<1>0. v \in Vectors /\ v # 1 /\ Process.pc = "off"
  BY DEF RoutingInv, VectorsOwned, Process
<1>1. /\ dr2 \in [Drivers -> Driver] /\ re2 \in [Drivers -> Seq(Codes)]
      /\ dr2[d] = Process /\ re2[d] = <<>>
      /\ \A e \in Drivers : e # d => dr2[e] = dr[e] /\ re2[e] = re[e]
  BY ProcessTyped DEF RoutingInv
<1>2. /\ ve2 \in [Vectors -> BOOLEAN] /\ sl2 \in [Vectors -> Drivers \cup {0}]
      /\ sl2[v] = 0 /\ ve2[v] = FALSE
      /\ \A u \in Vectors : u # v => ve2[u] = ve[u] /\ sl2[u] = sl[u]
  BY <1>0 DEF RoutingInv
<1> HIDE DEF ve2, sl2, dr2, re2
<1>3. \A e \in Drivers : InOrder(dr2[e], re2[e])
  BY <1>1, ProcessTyped DEF RoutingInv
<1>4. ASSUME NEW e \in Drivers, dr2[e].pc # "off"
      PROVE  /\ e # d /\ dr2[e] = dr[e] /\ dr[e].pc # "off" /\ dr[e].vector \in Vectors
             /\ dr[e].vector # 1 /\ ve[dr[e].vector] /\ dr[e].vector # v
  <2>1. e # d /\ dr2[e] = dr[e]
    BY <1>0, <1>1, <1>4
  <2> QED
    BY <2>1, <1>4 DEF RoutingInv, VectorsOwned
<1>5. ve2[1]
  BY <1>0, <1>2, DevicesAssumption DEF RoutingInv, VectorsOwned
<1>6. ASSUME NEW e \in Drivers, dr2[e].pc # "off"
      PROVE  dr2[e].vector \in Vectors /\ dr2[e].vector # 1 /\ ve2[dr2[e].vector]
  BY <1>2, <1>4, <1>6
<1>7. ASSUME NEW e \in Drivers, NEW g \in Drivers,
             dr2[e].pc # "off", dr2[g].pc # "off", dr2[e].vector = dr2[g].vector
      PROVE  e = g
  BY <1>4, <1>7 DEF RoutingInv, VectorsOwned
<1>8. ASSUME NEW u \in Vectors, ve2[u]
      PROVE  u = 1 \/ \E e \in Drivers : dr2[e].pc # "off" /\ dr2[e].vector = u
  <2>1. u # v /\ ve[u]
    BY <1>2, <1>8
  <2>2. CASE u # 1
    <3>1. PICK e \in Drivers : dr[e].pc # "off" /\ dr[e].vector = u
      BY <2>1, <2>2 DEF RoutingInv, VectorsOwned
    <3> QED
      BY <3>1, <2>1, <1>1
  <2> QED
    BY <2>2
<1>9. VectorsOwned(ve2, dr2)
  BY <1>5, <1>6, <1>7, <1>8 DEF VectorsOwned
<1>10. SlotsOwned(sl2, dr2)
  <2>1. ASSUME NEW e \in Drivers, dr2[e].pc \in Opened PROVE sl2[dr2[e].vector] = e
    <3>1. dr2[e].pc # "off"
      BY <2>1 DEF Opened
    <3> QED
      BY <2>1, <3>1, <1>2, <1>4 DEF RoutingInv, SlotsOwned
  <2>2. ASSUME NEW u \in Vectors, sl2[u] # 0
        PROVE  dr2[sl2[u]].pc \in Opened /\ dr2[sl2[u]].vector = u
    <3>1. u # v /\ sl2[u] = sl[u] /\ sl[u] \in Drivers
          /\ dr[sl[u]].pc \in Opened /\ dr[sl[u]].vector = u
      BY <2>2, <1>2 DEF RoutingInv, SlotsOwned
    <3> QED
      BY <3>1, <1>1
  <2> QED
    BY <2>1, <2>2 DEF SlotsOwned
<1> QED
  BY <1>1, <1>2, <1>3, <1>9, <1>10 DEF RoutingInv, ve2, sl2, dr2, re2

(***************************************************************************)
(* The keyboard line, the vectors and the processes after each action.     *)
(***************************************************************************)
RoutedNext == gsi' \in Entries /\ RoutingInv(vec', slot', drv', read')

\* The same processes hold the line or are about to, with the vectors and the
\* saved entries they had.
SameClaims ==
  \A e \in Drivers : /\ (Holds(e)' <=> Holds(e)) /\ (drv'[e].pc = "saved" <=> drv[e].pc = "saved")
                     /\ drv'[e].vector = drv[e].vector
                     /\ Holds(e) \/ drv[e].pc = "saved" => drv'[e].saved = drv[e].saved

LEMMA EntryChanged ==
    ASSUME gsi \in Entries, NEW e \in Entry
    PROVE  /\ [gsi EXCEPT !.kbd = e] \in Entries /\ [gsi EXCEPT !.kbd = e].kbd = e
           /\ Unmasked(gsi.kbd) \in Entry
BY DEF Entries, Entry, Unmasked

LEMMA CreateRouted ==
    ASSUME IrqInv, NEW d \in Drivers, IrqCreate(d)
    PROVE  RoutedNext
<1>1. /\ drv[d].pc = "off" /\ RoutingInv(vec, slot, drv, read) /\ gsi \in Entries
      /\ UNCHANGED <<gsi, slot>> /\ read' = [read EXCEPT ![d] = <<>>]
  BY DEF IrqCreate, IrqInv
<1>2. PICK v \in FirstFree :
        /\ vec' = [vec EXCEPT ![v] = TRUE]
        /\ drv' = [drv EXCEPT ![d] = [Process EXCEPT !.pc = "vector", !.vector = v]]
  BY DEF IrqCreate
<1>3. v \in Vectors /\ ~vec[v]
  BY <1>2 DEF FirstFree
<1> DEFINE q == [Process EXCEPT !.pc = "vector", !.vector = v]
<1>4. q \in Driver /\ q.pc = "vector" /\ q.vector = v
      /\ q.fed = Process.fed /\ q.port = Process.port /\ q.buf = Process.buf
      /\ q.pending = Process.pending
  BY <1>3, ProcessTyped DEF Process, Driver
<1>5. drv' = [drv EXCEPT ![d] = q]
  BY <1>2
<1> HIDE DEF q
<1>6. InOrder(q, <<>>)
  BY <1>4, ProcessTyped DEF InOrder
<1>7. RoutingInv([vec EXCEPT ![v] = TRUE], slot, [drv EXCEPT ![d] = q], [read EXCEPT ![d] = <<>>])
  BY <1>1, <1>3, <1>4, <1>6, ProcessTyped, ProcessStarted DEF Opened
<1> QED
  BY <1>1, <1>2, <1>5, <1>7 DEF RoutedNext

(***************************************************************************)
(* The process d goes on with q; the handler has accepted r.               *)
(***************************************************************************)
LEMMA GoesOn ==
    ASSUME IrqInv, NEW d \in Drivers, drv[d].pc # "off",
           NEW q \in Driver, NEW r \in Seq(Codes), InOrder(q, r),
           q.pc # "off", q.vector = drv[d].vector, q.pc \in Opened <=> drv[d].pc \in Opened,
           gsi' \in Entries, UNCHANGED <<vec, slot>>,
           drv' = [drv EXCEPT ![d] = q], read' = [read EXCEPT ![d] = r]
    PROVE  RoutedNext
<1>1. RoutingInv(vec, slot, drv, read)
  BY DEF IrqInv
<1>2. RoutingInv(vec, slot, [drv EXCEPT ![d] = q], [read EXCEPT ![d] = r])
  BY <1>1, ProcessReplaced
<1> QED
  BY <1>2 DEF RoutedNext

LEMMA ClaimsKept ==
    ASSUME drv \in [Drivers -> Driver], NEW d \in Drivers, NEW q \in Driver,
           q.pc # "saved", drv[d].pc # "saved",
           q.pc \in {"routed", "claimed", "loop"} <=> Holds(d),
           q.vector = drv[d].vector, q.saved = drv[d].saved, drv' = [drv EXCEPT ![d] = q]
    PROVE  SameClaims
<1>1. drv'[d] = q /\ \A e \in Drivers : e # d => drv'[e] = drv[e]
  OBVIOUS
<1>2. \A e \in Drivers : Holds(e)' <=> Holds(e)
  BY <1>1 DEF Holds
<1> QED
  BY <1>1, <1>2 DEF SameClaims

\* The process d, which has a descriptor, runs on with q.
LEMMA RunsOn ==
    ASSUME IrqInv, NEW d \in Drivers, drv[d].pc \in Opened,
           NEW q \in Driver, NEW r \in Seq(Codes), InOrder(q, r),
           q.pc \in Opened, q.pc = "dead" <=> drv[d].pc = "dead",
           q.vector = drv[d].vector, q.saved = drv[d].saved,
           gsi' \in Entries, UNCHANGED <<vec, slot>>,
           drv' = [drv EXCEPT ![d] = q], read' = [read EXCEPT ![d] = r]
    PROVE  RoutedNext /\ SameClaims
<1>1. RoutedNext
  BY GoesOn DEF Opened
<1>2. drv \in [Drivers -> Driver]
  BY DEF IrqInv, RoutingInv
<1>3. /\ q.pc # "saved" /\ drv[d].pc # "saved"
      /\ q.pc \in {"routed", "claimed", "loop"} <=> Holds(d)
  BY DEF Opened, Holds
<1> QED
  BY <1>1, <1>2, <1>3, ClaimsKept

LEMMA ReadSame ==
    ASSUME IrqInv, NEW d \in Drivers
    PROVE  /\ drv[d] \in Driver /\ read[d] \in Seq(Codes) /\ InOrder(drv[d], read[d])
           /\ read = [read EXCEPT ![d] = read[d]] /\ gsi \in Entries
           /\ [gsi EXCEPT !.kbd = Unmasked(gsi.kbd)] \in Entries
<1>1. /\ drv[d] \in Driver /\ read[d] \in Seq(Codes) /\ InOrder(drv[d], read[d])
      /\ read = [read EXCEPT ![d] = read[d]] /\ gsi \in Entries
  BY DEF IrqInv, RoutingInv
<1>2. [gsi EXCEPT !.kbd = Unmasked(gsi.kbd)] \in Entries
  BY <1>1 DEF Entries, Entry, Unmasked
<1> QED
  BY <1>1, <1>2

LEMMA WaitRouted ==
    ASSUME IrqInv, NEW d \in Drivers, IrqWait(d)
    PROVE  RoutedNext /\ SameClaims
<1> DEFINE a == Armed(drv[d])
           q == [a EXCEPT !.pc = "loop"]
<1>1. /\ drv[d].pc = "claimed" /\ drv' = [drv EXCEPT ![d] = q]
      /\ gsi' = [gsi EXCEPT !.kbd = Unmasked(gsi.kbd)] /\ UNCHANGED <<vec, slot, read>>
  BY DEF IrqWait
<1>2. /\ drv[d] \in Driver /\ read[d] \in Seq(Codes) /\ InOrder(drv[d], read[d])
      /\ read = [read EXCEPT ![d] = read[d]] /\ gsi' \in Entries
  BY <1>1, ReadSame
<1>3. /\ a \in Driver /\ InOrder(a, read[d]) /\ a.pc = "claimed"
      /\ a.vector = drv[d].vector /\ a.saved = drv[d].saved
  BY <1>1, <1>2, ArmedInOrder
<1> HIDE DEF a
<1>4. /\ q \in Driver /\ q.pc = "loop" /\ q.vector = a.vector /\ q.saved = a.saved
      /\ q.fed = a.fed /\ q.port = a.port /\ q.buf = a.buf /\ q.pending = a.pending
  BY <1>3 DEF Driver
<1> HIDE DEF q
<1>5. InOrder(q, read[d])
  BY <1>3, <1>4 DEF InOrder
<1>6. drv[d].pc \in Opened /\ q.pc \in Opened /\ (q.pc = "dead" <=> drv[d].pc = "dead")
  BY <1>1, <1>4 DEF Opened
<1> QED
  BY <1>1, <1>2, <1>3, <1>4, <1>5, <1>6, RunsOn

LEMMA FeedRouted ==
    ASSUME IrqInv, NEW d \in Drivers, Feed(d)
    PROVE  RoutedNext /\ SameClaims
<1> DEFINE p == drv[d]
           t == [p EXCEPT !.fed = Append(p.fed, Head(p.port)), !.port = Tail(p.port)]
           q == Armed(t)
<1>1. /\ p.pc = "loop" /\ p.port # <<>> /\ drv' = [drv EXCEPT ![d] = q]
      /\ gsi' = [gsi EXCEPT !.kbd = Unmasked(gsi.kbd)] /\ UNCHANGED <<vec, slot, read>>
  BY DEF Feed
<1>2. /\ p \in Driver /\ read[d] \in Seq(Codes) /\ InOrder(p, read[d])
      /\ read = [read EXCEPT ![d] = read[d]] /\ gsi' \in Entries
  BY <1>1, ReadSame
<1>3. p.fed \in Seq(Codes) /\ p.port \in Seq(Codes) /\ p.buf \in Seq(Codes)
  BY <1>2 DEF Driver
<1>4. /\ Append(p.fed, Head(p.port)) \in Seq(Codes) /\ Tail(p.port) \in Seq(Codes)
      /\ Append(p.fed, Head(p.port)) \o Tail(p.port) \o p.buf = p.fed \o p.port \o p.buf
  <2> DEFINE f == p.fed
             s == p.port
             b == p.buf
  <2>1. f \in Seq(Codes) /\ s \in Seq(Codes) /\ b \in Seq(Codes) /\ s # <<>>
    BY <1>1, <1>3
  <2> HIDE DEF f, s, b
  <2>2. /\ Append(f, Head(s)) \in Seq(Codes) /\ Tail(s) \in Seq(Codes)
        /\ Append(f, Head(s)) \o Tail(s) \o b = f \o s \o b
    BY <2>1, FeedFirst
  <2> QED
    BY <2>2 DEF f, s, b
<1>5. /\ t \in Driver /\ t.pc = "loop" /\ t.vector = p.vector /\ t.saved = p.saved
      /\ t.fed = Append(p.fed, Head(p.port)) /\ t.port = Tail(p.port)
      /\ t.buf = p.buf /\ t.pending = p.pending
  <2> HIDE DEF p
  <2> QED
    BY <1>1, <1>2, <1>4 DEF Driver
<1> HIDE DEF p, t
<1>6. InOrder(t, read[d])
  BY <1>1, <1>2, <1>4, <1>5 DEF InOrder
<1>7. q \in Driver /\ InOrder(q, read[d]) /\ q.pc = "loop" /\ q.vector = p.vector /\ q.saved = p.saved
  BY <1>2, <1>5, <1>6, ArmedInOrder
<1> HIDE DEF q
<1>8. /\ drv[d].pc \in Opened /\ q.pc \in Opened /\ (q.pc = "dead" <=> drv[d].pc = "dead")
      /\ q.vector = drv[d].vector /\ q.saved = drv[d].saved
  BY <1>1, <1>7 DEF p, Opened
<1> QED
  BY <1>1, <1>2, <1>7, <1>8, RunsOn

LEMMA ConnectRouted ==
    ASSUME IrqInv, NEW d \in Drivers, KbdConnect(d)
    PROVE  RoutedNext /\ SameClaims
<1> DEFINE p == drv[d]
           q == [p EXCEPT !.clients = TRUE]
<1>1. p.pc = "loop" /\ drv' = [drv EXCEPT ![d] = q] /\ UNCHANGED <<gsi, vec, slot, read>>
  BY DEF KbdConnect
<1>2. /\ p \in Driver /\ read[d] \in Seq(Codes) /\ InOrder(p, read[d])
      /\ read = [read EXCEPT ![d] = read[d]] /\ gsi' \in Entries
  BY <1>1, ReadSame
<1> HIDE DEF p
<1>3. /\ q \in Driver /\ q.pc = "loop" /\ q.vector = p.vector /\ q.saved = p.saved
      /\ q.fed = p.fed /\ q.port = p.port /\ q.buf = p.buf /\ q.pending = p.pending
  BY <1>1, <1>2 DEF Driver
<1> HIDE DEF q
<1>4. InOrder(q, read[d])
  BY <1>1, <1>2, <1>3 DEF InOrder
<1>5. /\ drv[d].pc \in Opened /\ q.pc \in Opened /\ (q.pc = "dead" <=> drv[d].pc = "dead")
      /\ q.vector = drv[d].vector /\ q.saved = drv[d].saved
  BY <1>1, <1>3 DEF p, Opened
<1> QED
  BY <1>1, <1>2, <1>3, <1>4, <1>5, RunsOn

LEMMA SaveRouted ==
    ASSUME IrqInv, NEW d \in Drivers, IrqSave(d)
    PROVE  RoutedNext
<1> DEFINE p == drv[d]
           q == [p EXCEPT !.pc = "saved", !.saved = gsi.kbd]
<1>1. p.pc = "vector" /\ drv' = [drv EXCEPT ![d] = q] /\ UNCHANGED <<gsi, vec, slot, read>>
  BY DEF IrqSave
<1>2. /\ p \in Driver /\ read[d] \in Seq(Codes) /\ InOrder(p, read[d])
      /\ read = [read EXCEPT ![d] = read[d]] /\ gsi \in Entries
  BY ReadSame
<1>3. gsi' \in Entries /\ gsi.kbd \in Entry
  BY <1>1, <1>2 DEF Entries
<1> HIDE DEF p
<1>4. /\ q \in Driver /\ q.pc = "saved" /\ q.vector = p.vector /\ q.saved \in Entry
      /\ q.fed = p.fed /\ q.port = p.port /\ q.buf = p.buf /\ q.pending = p.pending
  BY <1>2, <1>3 DEF Driver
<1> HIDE DEF q
<1>5. InOrder(q, read[d])
  BY <1>2, <1>4 DEF InOrder
<1>6. /\ drv[d].pc # "off" /\ q.pc # "off" /\ q.vector = drv[d].vector
      /\ (q.pc \in Opened <=> drv[d].pc \in Opened)
  BY <1>1, <1>4 DEF p, Opened
<1> QED
  BY <1>1, <1>2, <1>3, <1>4, <1>5, <1>6, GoesOn

LEMMA RouteRouted ==
    ASSUME IrqInv, NEW d \in Drivers, IrqRoute(d)
    PROVE  RoutedNext
<1> DEFINE p == drv[d]
           q == [p EXCEPT !.pc = "routed"]
<1>1. /\ p.pc = "saved" /\ drv' = [drv EXCEPT ![d] = q] /\ UNCHANGED <<vec, slot, read>>
      /\ gsi' = [gsi EXCEPT !.kbd = Routed(drv[d].vector)]
  BY DEF IrqRoute
<1>2. /\ p \in Driver /\ read[d] \in Seq(Codes) /\ InOrder(p, read[d])
      /\ read = [read EXCEPT ![d] = read[d]] /\ gsi \in Entries
  BY ReadSame
<1>3. gsi' \in Entries
  <2>1. Routed(drv[d].vector) \in Entry
    BY <1>1 DEF IrqInv, RoutingInv, VectorsOwned, Routed, Entry
  <2> QED
    BY <1>1, <1>2, <2>1, EntryChanged
<1> HIDE DEF p
<1>4. /\ q \in Driver /\ q.pc = "routed" /\ q.vector = p.vector /\ q.saved = p.saved
      /\ q.fed = p.fed /\ q.port = p.port /\ q.buf = p.buf /\ q.pending = p.pending
  BY <1>1, <1>2 DEF Driver
<1> HIDE DEF q
<1>5. InOrder(q, read[d])
  BY <1>1, <1>2, <1>4 DEF InOrder
<1>6. /\ drv[d].pc # "off" /\ q.pc # "off" /\ q.vector = drv[d].vector
      /\ (q.pc \in Opened <=> drv[d].pc \in Opened)
  BY <1>1, <1>4 DEF p, Opened
<1> QED
  BY <1>1, <1>2, <1>3, <1>4, <1>5, <1>6, GoesOn

LEMMA OpenRouted ==
    ASSUME IrqInv, NEW d \in Drivers, IrqOpen(d)
    PROVE  RoutedNext /\ SameClaims
<1> DEFINE p == drv[d]
           q == [p EXCEPT !.pc = "claimed"]
<1>1. /\ p.pc = "routed" /\ drv' = [drv EXCEPT ![d] = q] /\ UNCHANGED <<gsi, vec, read>>
      /\ slot' = [slot EXCEPT ![drv[d].vector] = d]
  BY DEF IrqOpen
<1>2. /\ p \in Driver /\ read[d] \in Seq(Codes) /\ InOrder(p, read[d]) /\ gsi \in Entries
  BY ReadSame
<1> HIDE DEF p
<1>3. /\ q \in Driver /\ q.pc = "claimed" /\ q.vector = p.vector /\ q.saved = p.saved
      /\ q.fed = p.fed /\ q.port = p.port /\ q.buf = p.buf /\ q.pending = p.pending
  BY <1>1, <1>2 DEF Driver
<1> HIDE DEF q
<1>4. InOrder(q, read[d])
  BY <1>1, <1>2, <1>3 DEF InOrder
<1>5. /\ drv[d].pc = "routed" /\ q.pc \in Opened /\ q.vector = drv[d].vector
      /\ q.saved = drv[d].saved
  BY <1>1, <1>3 DEF p, Opened
<1>6. RoutingInv(vec, slot, drv, read) /\ drv \in [Drivers -> Driver]
  BY DEF IrqInv, RoutingInv
<1>7. RoutingInv(vec, [slot EXCEPT ![drv[d].vector] = d], [drv EXCEPT ![d] = q], read)
  BY <1>3, <1>4, <1>5, <1>6, ProcessOpened
<1>8. SameClaims
  BY <1>1, <1>3, <1>5, <1>6, ClaimsKept DEF Holds
<1> QED
  BY <1>1, <1>2, <1>7, <1>8 DEF RoutedNext

\* Without a descriptor the process is in no slot yet, so that giving up is
\* like closing.
LEMMA OpenFailsRouted ==
    ASSUME IrqInv, NEW d \in Drivers, IrqOpenFails(d)
    PROVE  RoutedNext
<1>1. PICK v : v = drv[d].vector
  OBVIOUS
<1>2. /\ drv[d].pc = "routed" /\ UNCHANGED <<gsi, slot>> /\ vec' = [vec EXCEPT ![v] = FALSE]
      /\ drv' = [drv EXCEPT ![d] = Process] /\ read' = [read EXCEPT ![d] = <<>>]
  BY <1>1 DEF IrqOpenFails
<1>3. RoutingInv(vec, slot, drv, read) /\ gsi \in Entries
  BY DEF IrqInv
<1>4. v \in Vectors /\ slot \in [Vectors -> Drivers \cup {0}]
  BY <1>1, <1>2, <1>3 DEF RoutingInv, VectorsOwned
<1>5. slot[v] = 0
  <2> SUFFICES ASSUME slot[v] # 0 PROVE FALSE
    OBVIOUS
  <2>1. slot[v] \in Drivers /\ drv[slot[v]].pc \in Opened /\ drv[slot[v]].vector = v
    BY <1>3, <1>4 DEF RoutingInv, SlotsOwned
  <2>2. slot[v] = d
    BY <2>1, <1>1, <1>2, <1>3 DEF RoutingInv, VectorsOwned, Opened
  <2> QED
    BY <2>1, <2>2, <1>2 DEF Opened
<1>6. slot = [slot EXCEPT ![v] = 0]
  BY <1>4, <1>5
<1>7. RoutingInv([vec EXCEPT ![v] = FALSE], [slot EXCEPT ![v] = 0],
                 [drv EXCEPT ![d] = Process], [read EXCEPT ![d] = <<>>])
  BY <1>1, <1>2, <1>3, ProcessEnded
<1> QED
  BY <1>2, <1>3, <1>6, <1>7 DEF RoutedNext

LEMMA FaultRouted ==
    ASSUME IrqInv, NEW d \in Drivers, KbdFault(d)
    PROVE  RoutedNext
<1> DEFINE p == drv[d]
           q == [p EXCEPT !.pc = "dead"]
<1>1. /\ p.pc \in {"claimed", "loop"} /\ drv' = [drv EXCEPT ![d] = q]
      /\ UNCHANGED <<gsi, vec, slot, read>>
  BY DEF KbdFault
<1>2. /\ p \in Driver /\ read[d] \in Seq(Codes) /\ InOrder(p, read[d])
      /\ read = [read EXCEPT ![d] = read[d]] /\ gsi' \in Entries
  BY <1>1, ReadSame
<1> HIDE DEF p
<1>3. /\ q \in Driver /\ q.pc = "dead" /\ q.vector = p.vector /\ q.saved = p.saved
      /\ q.fed = p.fed /\ q.port = p.port /\ q.buf = p.buf /\ q.pending = p.pending
  BY <1>1, <1>2 DEF Driver
<1> HIDE DEF q
<1>4. InOrder(q, read[d])
  BY <1>1, <1>2, <1>3 DEF InOrder
<1>5. /\ drv[d].pc # "off" /\ q.pc # "off" /\ q.vector = drv[d].vector
      /\ (q.pc \in Opened <=> drv[d].pc \in Opened)
  BY <1>1, <1>3 DEF p, Opened
<1> QED
  BY <1>1, <1>2, <1>3, <1>4, <1>5, GoesOn

LEMMA ExitRouted ==
    ASSUME IrqInv, NEW d \in Drivers, KbdExit(d)
    PROVE  RoutedNext
<1>1. PICK v : v = drv[d].vector
  OBVIOUS
<1>2. /\ drv[d].pc \notin {"off", "vector"} /\ gsi' = [gsi EXCEPT !.kbd = drv[d].saved]
      /\ vec' = [vec EXCEPT ![v] = FALSE] /\ slot' = [slot EXCEPT ![v] = 0]
      /\ drv' = [drv EXCEPT ![d] = Process] /\ read' = [read EXCEPT ![d] = <<>>]
  BY <1>1 DEF KbdExit, CloseIrq, Freed
<1>3. RoutingInv(vec, slot, drv, read) /\ gsi \in Entries /\ drv[d].saved \in Entry
  BY <1>2 DEF IrqInv, RoutingInv, InOrder
<1>4. RoutingInv([vec EXCEPT ![v] = FALSE], [slot EXCEPT ![v] = 0],
                 [drv EXCEPT ![d] = Process], [read EXCEPT ![d] = <<>>])
  BY <1>1, <1>2, <1>3, ProcessEnded
<1>5. gsi' \in Entries
  BY <1>2, <1>3, EntryChanged
<1> QED
  BY <1>2, <1>4, <1>5 DEF RoutedNext

(***************************************************************************)
(* irq_fd_dispatch: posted if the wait is registered, and then nothing is  *)
(* buffered; buffered behind the others otherwise; dropped, and not        *)
(* counted as read, when the buffer is full.                               *)
(***************************************************************************)
LEMMA ScancodeRouted ==
    ASSUME IrqInv, Scancode
    PROVE  RoutedNext /\ SameClaims
<1>1. gsi' = gsi /\ gsi \in Entries /\ UNCHANGED <<vec, slot>>
  BY DEF Scancode, IrqInv
<1>2. PICK code \in left.keys :
        IF gsi.kbd.to = 0 THEN KernelInterrupt(code)
        ELSE IF slot[gsi.kbd.to] # 0 THEN FdInterrupt(slot[gsi.kbd.to], code)
        ELSE UNCHANGED <<drv, read, queue, waker, actor>>
  BY DEF Scancode
<1>3. CASE UNCHANGED <<drv, read>>
  BY <1>1, <1>3 DEF IrqInv, RoutedNext, SameClaims, Holds
<1>4. CASE gsi.kbd.to # 0 /\ slot[gsi.kbd.to] # 0 /\ FdInterrupt(slot[gsi.kbd.to], code)
  <2>1. PICK d : d = slot[gsi.kbd.to]
    OBVIOUS
  <2>2. gsi.kbd.to \in Vectors
    BY <1>1, <1>4 DEF Entries, Entry
  <2>3. d \in Drivers /\ drv[d].pc \in Opened /\ FdInterrupt(d, code)
    BY <2>1, <2>2, <1>4 DEF IrqInv, RoutingInv, SlotsOwned
  <2>4. code \in Codes
    BY DEF IrqInv, LoadInv
  <2>5. PICK p : p = drv[d]
    OBVIOUS
  <2>6. /\ p \in Driver /\ read[d] \in Seq(Codes) /\ InOrder(p, read[d])
        /\ read = [read EXCEPT ![d] = read[d]] /\ p.pc \in Opened
    BY <2>3, <2>5, ReadSame
  <2> DEFINE f == p.fed
             s == p.port
             b == p.buf
  <2>7. /\ f \in Seq(Codes) /\ s \in Seq(Codes) /\ b \in Seq(Codes)
        /\ f \o s \o b = read[d] /\ (p.pending => b = <<>>) /\ Len(b) <= BufSize
        /\ p.pending \in BOOLEAN
    BY <2>6 DEF Driver, InOrder
  <2>8. /\ Append(b, code) \in Seq(Codes) /\ Append(s, code) \in Seq(Codes)
        /\ Len(Append(b, code)) = Len(b) + 1
        /\ f \o s \o Append(b, code) = Append(f \o s \o b, code)
        /\ f \o Append(s, code) \o <<>> = Append(f \o s \o <<>>, code)
    <3>1. f \in Seq(Codes) /\ s \in Seq(Codes) /\ b \in Seq(Codes)
      BY <2>7
    <3> HIDE DEF f, s, b
    <3> QED
      BY <2>4, <3>1, AddLast, SMTT(30)
  <2>9. Append(read[d], code) \in Seq(Codes) /\ Len(b) \in Nat /\ BufSize \in Nat
    BY <2>4, <2>6, <2>7, AppendProperties, LenProperties, DevicesAssumption
  <2>10. CASE p.pending
    <3> DEFINE q == [p EXCEPT !.port = Append(s, code), !.pending = FALSE]
    <3>1. drv' = [drv EXCEPT ![d] = q] /\ read' = [read EXCEPT ![d] = Append(read[d], code)]
      BY <2>3, <2>5, <2>10 DEF FdInterrupt
    <3>2. /\ q \in Driver /\ q.pc = p.pc /\ q.vector = p.vector /\ q.saved = p.saved
          /\ q.fed = f /\ q.port = Append(s, code) /\ q.buf = b /\ q.pending = FALSE
      BY <2>6, <2>8 DEF Driver
    <3> HIDE DEF q
    <3>3. q.fed \o q.port \o q.buf = Append(read[d], code)
      BY <3>2, <2>7, <2>8, <2>10
    <3>4. InOrder(q, Append(read[d], code))
      BY <3>2, <3>3, <2>6, <2>7, <2>10 DEF InOrder, Opened
    <3>5. /\ q.pc \in Opened /\ (q.pc = "dead" <=> drv[d].pc = "dead")
          /\ q.vector = drv[d].vector /\ q.saved = drv[d].saved
      BY <3>2, <2>5, <2>6
    <3> QED
      BY <3>1, <3>2, <3>4, <3>5, <2>3, <2>9, <1>1, RunsOn
  <2>11. CASE ~p.pending /\ Len(b) < BufSize
    <3> DEFINE q == [p EXCEPT !.buf = Append(b, code)]
    <3>1. drv' = [drv EXCEPT ![d] = q] /\ read' = [read EXCEPT ![d] = Append(read[d], code)]
      BY <2>3, <2>5, <2>11 DEF FdInterrupt
    <3>2. /\ q \in Driver /\ q.pc = p.pc /\ q.vector = p.vector /\ q.saved = p.saved
          /\ q.fed = f /\ q.port = s /\ q.buf = Append(b, code) /\ q.pending = p.pending
      BY <2>6, <2>8 DEF Driver
    <3> HIDE DEF q
    <3>3. q.fed \o q.port \o q.buf = Append(read[d], code)
      BY <3>2, <2>7, <2>8
    <3>4. Len(q.buf) <= BufSize
      BY <3>2, <2>8, <2>9, <2>11
    <3>5. InOrder(q, Append(read[d], code))
      BY <3>2, <3>3, <3>4, <2>6, <2>11 DEF InOrder, Opened
    <3>6. /\ q.pc \in Opened /\ (q.pc = "dead" <=> drv[d].pc = "dead")
          /\ q.vector = drv[d].vector /\ q.saved = drv[d].saved
      BY <3>2, <2>5, <2>6
    <3> QED
      BY <3>1, <3>2, <3>5, <3>6, <2>3, <2>9, <1>1, RunsOn
  <2>12. CASE ~p.pending /\ ~(Len(b) < BufSize)
    <3>1. drv' = [drv EXCEPT ![d] = p] /\ read' = read
      BY <2>3, <2>5, <2>12 DEF FdInterrupt
    <3>2. drv' = drv
      BY <3>1, <2>3, <2>5 DEF IrqInv, RoutingInv
    <3> QED
      BY <3>1, <3>2, <1>3
  <2> QED
    BY <2>10, <2>11, <2>12
<1> QED
  BY <1>2, <1>3, <1>4 DEF KernelInterrupt

(***************************************************************************)
(* Every step keeps vectors, slots, processes and the order of scancodes.  *)
(***************************************************************************)
LEMMA RoutingStep ==
    ASSUME IrqInv, [Next]_vars
    PROVE  IrqInv'
<1>1. LoadInv'
  BY LoadStep DEF IrqInv
<1>2. RoutedNext
  <2>1. CASE UNCHANGED vars
    BY <2>1 DEF vars, irqs, IrqInv, RoutedNext
  <2>2. CASE Elsewhere
    <3>1. UNCHANGED irqs /\ gsi' \in Entries
      BY <2>2, ElsewhereStill DEF IrqInv
    <3> QED
      BY <3>1 DEF irqs, IrqInv, RoutedNext
  <2>3. CASE Scancode
    BY <2>3, ScancodeRouted
  <2>4. ASSUME NEW d \in Drivers, KbdDriver(d) PROVE RoutedNext
    BY <2>4, CreateRouted, SaveRouted, RouteRouted, OpenRouted, OpenFailsRouted, WaitRouted,
       FeedRouted, ConnectRouted, ExitRouted, FaultRouted
    DEF KbdDriver
  <2> QED
    BY <2>1, <2>2, <2>3, <2>4, NextSplits
<1> QED
  BY <1>1, <1>2 DEF IrqInv, RoutedNext

LEMMA RoutingStart == Init => IrqInv
<1> SUFFICES ASSUME Init PROVE IrqInv
  OBVIOUS
<1>1. gsi \in Entries
  BY DevicesAssumption DEF Init, KernelEntry, Entries, Entry
<1>2. LoadInv
  <2>1. left \in Workloads
    BY DEF Init
  <2>2. left.keys \subseteq Codes
    BY <2>1 DEF Codes
  <2> QED
    BY <2>1, <2>2, DevicesAssumption DEF LoadInv
<1>3. /\ vec \in [Vectors -> BOOLEAN] /\ slot \in [Vectors -> Drivers \cup {0}]
      /\ drv \in [Drivers -> Driver] /\ read \in [Drivers -> Seq(Codes)]
  BY ProcessTyped DEF Init
<1>4. \A d \in Drivers : drv[d] = Process /\ read[d] = <<>> /\ drv[d].pc = "off"
  BY DEF Init, Process
<1>5. VectorsOwned(vec, drv) /\ SlotsOwned(slot, drv)
  BY <1>4, DevicesAssumption DEF Init, VectorsOwned, SlotsOwned, Opened
<1> QED
  BY <1>1, <1>2, <1>3, <1>4, <1>5, ProcessTyped DEF IrqInv, RoutingInv

(***************************************************************************)
(* The driver process decodes the scancodes that its descriptor's handler  *)
(* accepted, each once and in the order they were read from the            *)
(* controller, for any number of drivers and whether they come from the    *)
(* interrupt (irq_fd_dispatch) or from a later wait (arm_irq).             *)
(***************************************************************************)
THEOREM ScancodeOrder == Spec => []ScancodesInOrder
<1>1. Init => IrqInv
  BY RoutingStart
<1>2. IrqInv /\ [Next]_vars => IrqInv'
  BY RoutingStep
<1>3. IrqInv => ScancodesInOrder
  BY DEF IrqInv, RoutingInv, InOrder, ScancodesInOrder
<1> QED
  BY <1>1, <1>2, <1>3, PTL DEF Spec

(***************************************************************************)
(* The chain back to the kernel is kept while nobody claims or gives up    *)
(* the line, also when it is unmasked.                                     *)
(***************************************************************************)
LEMMA ChainKept ==
    ASSUME ChainInv, SameClaims, UNCHANGED astray,
           gsi'.kbd = gsi.kbd \/ gsi'.kbd = Unmasked(gsi.kbd), gsi \in Entries
    PROVE  ChainInv'
<1> SUFFICES ASSUME Chain PROVE Chain'
  BY DEF ChainInv
<1>1. gsi'.kbd.to = gsi.kbd.to /\ (gsi.kbd = KernelEntry => gsi'.kbd = KernelEntry)
  <2>1. gsi.kbd \in Entry
    BY DEF Entries
  <2>2. ASSUME NEW e \in Entry PROVE Unmasked(e).to = e.to
    BY DEF Unmasked, Entry
  <2>3. Unmasked(KernelEntry) = KernelEntry
    <3>1. KernelEntry \in [to : Nat, masked : BOOLEAN] /\ KernelEntry.masked = FALSE
      BY DEF KernelEntry
    <3>2. [KernelEntry EXCEPT !.masked = KernelEntry.masked] = KernelEntry
      BY <3>1
    <3> QED
      BY <3>1, <3>2, Zenon DEF Unmasked
  <2> QED
    BY <2>1, <2>2, <2>3
<1>2. \A e \in Drivers : Holds(e)' <=> Holds(e)
  BY DEF SameClaims
<1>3. \A e \in Drivers : Holds(e) => drv'[e].saved = drv[e].saved
  BY DEF SameClaims
<1>4. \A e \in Drivers : drv'[e].vector = drv[e].vector
  BY DEF SameClaims
<1>5. Home(gsi.kbd)'
  BY <1>1, <1>2, <1>4 DEF Chain, Home
<1>6. ASSUME NEW d \in Drivers, Holds(d)'
      PROVE  Home(drv[d].saved)' /\ (drv[d].saved.to # gsi.kbd.to)'
  <2>1. Holds(d) /\ drv'[d].saved = drv[d].saved
    BY <1>2, <1>3, <1>6
  <2> QED
    BY <2>1, <1>1, <1>2, <1>4 DEF Chain, Home
<1>7. ASSUME NEW d \in Drivers, NEW e \in Drivers, Holds(d)', Holds(e)',
             (drv[d].saved.to = drv[e].saved.to)'
      PROVE  d = e
  <2>1. Holds(d) /\ drv'[d].saved = drv[d].saved /\ Holds(e) /\ drv'[e].saved = drv[e].saved
    BY <1>2, <1>3, <1>7
  <2> QED
    BY <2>1, <1>7 DEF Chain
<1>8. ASSUME NEW d \in Drivers, (drv[d].pc = "saved" /\ drv[d].saved.to = 0)'
      PROVE  (drv[d].saved = KernelEntry)'
  <2>1. drv[d].pc = "saved" /\ drv'[d].saved = drv[d].saved
    BY <1>8 DEF SameClaims
  <2> QED
    BY <2>1, <1>8 DEF Chain, KernelEntry
<1> QED
  BY <1>5, <1>6, <1>7, <1>8 DEF Chain

\* sys_irq_create reads the entry: if that is the kernel's, it is as it was.
LEMMA SaveChain ==
    ASSUME IrqInv, ChainInv, NEW d \in Drivers, IrqSave(d)
    PROVE  ChainInv'
<1> SUFFICES ASSUME Chain PROVE Chain'
  BY DEF ChainInv, IrqSave
<1>1. /\ drv[d].pc = "vector" /\ UNCHANGED gsi
      /\ drv' = [drv EXCEPT ![d] = [drv[d] EXCEPT !.pc = "saved", !.saved = gsi.kbd]]
  BY DEF IrqSave
<1>2. drv \in [Drivers -> Driver]
  BY DEF IrqInv, RoutingInv
<1>3. /\ drv'[d].pc = "saved" /\ drv'[d].saved = gsi.kbd
      /\ \A e \in Drivers : e # d => drv'[e] = drv[e]
  BY <1>1, <1>2 DEF Driver
<1>4. ~Holds(d) /\ ~Holds(d)' /\ \A e \in Drivers : Holds(e)' <=> Holds(e)
  BY <1>1, <1>3 DEF Holds
<1>5. gsi.kbd.to = 0 => gsi.kbd = KernelEntry
  <2>1. \A e \in Drivers : Holds(e) => drv[e].vector # 0
    BY DevicesAssumption DEF IrqInv, RoutingInv, VectorsOwned, Holds
  <2> QED
    BY <2>1 DEF Chain, Home
<1>6. \A e \in Drivers : Holds(e)' => e # d /\ Holds(e) /\ drv'[e] = drv[e]
  BY <1>3, <1>4
<1>7. \A en : Home(en) => Home(en)'
  BY <1>1, <1>3, <1>4 DEF Home, KernelEntry
<1>8. Home(gsi.kbd)'
  BY <1>1, <1>3, <1>4 DEF Chain, Home, KernelEntry
<1>9. ASSUME NEW e \in Drivers, Holds(e)'
      PROVE  Home(drv[e].saved)' /\ (drv[e].saved.to # gsi.kbd.to)'
  <2>1. e # d /\ Holds(e) /\ drv'[e] = drv[e]
    BY <1>6, <1>9
  <2> QED
    BY <2>1, <1>1, <1>3, <1>4 DEF Chain, Home, KernelEntry
<1>10. ASSUME NEW e \in Drivers, NEW g \in Drivers, Holds(e)', Holds(g)',
              (drv[e].saved.to = drv[g].saved.to)'
       PROVE  e = g
  BY <1>6, <1>10 DEF Chain
<1>11. ASSUME NEW e \in Drivers, (drv[e].pc = "saved" /\ drv[e].saved.to = 0)'
       PROVE  (drv[e].saved = KernelEntry)'
  BY <1>3, <1>5, <1>11 DEF Chain, KernelEntry
<1> QED
  BY <1>8, <1>9, <1>10, <1>11 DEF Chain

(***************************************************************************)
(* route_gsi while the line is where it was when its entry was read: what  *)
(* the line led to, the process has saved, and the line leads to it.       *)
(***************************************************************************)
LEMMA RouteChain ==
    ASSUME IrqInv, ChainInv, NEW d \in Drivers, IrqRoute(d)
    PROVE  ChainInv'
<1>0. astray' = (astray \/ gsi.kbd.to # drv[d].saved.to)
  BY DEF IrqRoute
<1>00. astray' \in BOOLEAN
  BY <1>0, Zenon DEF ChainInv
<1> SUFFICES ASSUME ~astray' PROVE Chain'
  BY <1>00 DEF ChainInv
<1>1. Chain /\ gsi.kbd.to = drv[d].saved.to
  BY <1>0 DEF ChainInv
<1>2. /\ drv[d].pc = "saved" /\ gsi' = [gsi EXCEPT !.kbd = Routed(drv[d].vector)]
      /\ drv' = [drv EXCEPT ![d] = [drv[d] EXCEPT !.pc = "routed"]]
  BY DEF IrqRoute
<1>3. drv \in [Drivers -> Driver] /\ gsi \in Entries
  BY DEF IrqInv, RoutingInv
<1>4. gsi'.kbd.to = drv[d].vector
  BY <1>2, <1>3 DEF Entries, Routed
<1>5. /\ drv'[d].pc = "routed" /\ drv'[d].saved = drv[d].saved /\ drv'[d].vector = drv[d].vector
      /\ \A e \in Drivers : e # d => drv'[e] = drv[e]
  BY <1>2, <1>3 DEF Driver
<1>6. ~Holds(d) /\ Holds(d)' /\ \A e \in Drivers : e # d => (Holds(e)' <=> Holds(e))
  BY <1>2, <1>5 DEF Holds
<1>7. ASSUME NEW e \in Drivers, Holds(e)
      PROVE  e # d /\ drv'[e] = drv[e] /\ Holds(e)' /\ drv[e].vector # drv[d].vector
  <2>1. e # d /\ drv'[e] = drv[e] /\ Holds(e)'
    BY <1>5, <1>6, <1>7
  <2>2. drv[e].pc # "off" /\ drv[d].pc # "off"
    BY <1>2, <1>7 DEF Holds
  <2> QED
    BY <2>1, <2>2 DEF IrqInv, RoutingInv, VectorsOwned
<1>8. drv[d].vector # 0
  BY <1>2, DevicesAssumption DEF IrqInv, RoutingInv, VectorsOwned
<1>9. ASSUME NEW en, Home(en)
      PROVE  /\ en = KernelEntry \/ \E g \in Drivers : Holds(g)' /\ en.to = drv'[g].vector
             /\ en.to # drv[d].vector
  <2>1. CASE en = KernelEntry
    BY <2>1, <1>8 DEF KernelEntry
  <2>2. CASE \E g \in Drivers : Holds(g) /\ en.to = drv[g].vector
    BY <2>2, <1>7
  <2> QED
    BY <1>9, <2>1, <2>2 DEF Home
<1>10. Home(gsi.kbd)'
  BY <1>4, <1>5, <1>6 DEF Home
<1>11. Home(drv[d].saved)' /\ (drv[d].saved.to # gsi.kbd.to)'
  <2>1. CASE gsi.kbd = KernelEntry
    <3>1. drv[d].saved = KernelEntry
      BY <2>1, <1>1, <1>2 DEF Chain, KernelEntry
    <3> QED
      BY <3>1, <1>4, <1>5, <1>8 DEF Home, KernelEntry
  <2>2. CASE \E g \in Drivers : Holds(g) /\ gsi.kbd.to = drv[g].vector
    <3>1. PICK g \in Drivers : Holds(g) /\ gsi.kbd.to = drv[g].vector
      BY <2>2
    <3>2. Holds(g)' /\ drv'[d].saved.to = drv'[g].vector /\ drv'[d].saved.to # drv[d].vector
      BY <3>1, <1>1, <1>5, <1>7
    <3> QED
      BY <3>2, <1>4 DEF Home
  <2> QED
    BY <1>1, <2>1, <2>2 DEF Chain, Home
<1>12. ASSUME NEW e \in Drivers, Holds(e)'
       PROVE  Home(drv[e].saved)' /\ (drv[e].saved.to # gsi.kbd.to)'
  <2>1. CASE e = d
    BY <2>1, <1>11
  <2>2. CASE e # d
    <3>1. Holds(e) /\ drv'[e] = drv[e] /\ Home(drv[e].saved)
      BY <2>2, <1>1, <1>5, <1>6, <1>12 DEF Chain
    <3>2. /\ drv'[e].saved = KernelEntry
             \/ \E g \in Drivers : Holds(g)' /\ drv'[e].saved.to = drv'[g].vector
          /\ drv'[e].saved.to # drv[d].vector
      BY <3>1, <1>9
    <3> QED
      BY <3>2, <1>4 DEF Home, KernelEntry
  <2> QED
    BY <2>1, <2>2
<1>13. ASSUME NEW e \in Drivers, NEW g \in Drivers, Holds(e)', Holds(g)',
              (drv[e].saved.to = drv[g].saved.to)'
       PROVE  e = g
  <2>1. \A x \in Drivers : x # d /\ Holds(x)' =>
          Holds(x) /\ drv'[x] = drv[x] /\ drv[x].saved.to # drv'[d].saved.to
    BY <1>1, <1>5, <1>6 DEF Chain
  <2> QED
    BY <1>1, <1>13, <2>1 DEF Chain
<1>14. ASSUME NEW e \in Drivers, (drv[e].pc = "saved" /\ drv[e].saved.to = 0)'
       PROVE  (drv[e].saved = KernelEntry)'
  BY <1>1, <1>5, <1>14 DEF Chain, KernelEntry
<1> QED
  BY <1>10, <1>12, <1>13, <1>14 DEF Chain

(***************************************************************************)
(* close_irq by the process the line leads to: the line goes where that    *)
(* process had it from, and nobody else leads to it.                       *)
(***************************************************************************)
LEMMA ExitChain ==
    ASSUME IrqInv, ChainInv, NEW d \in Drivers, KbdExit(d)
    PROVE  ChainInv'
<1>0. astray' = (astray \/ gsi.kbd.to # drv[d].vector)
  BY DEF KbdExit
<1>00. astray' \in BOOLEAN
  BY <1>0, Zenon DEF ChainInv
<1> SUFFICES ASSUME ~astray' PROVE Chain'
  BY <1>00 DEF ChainInv
<1>1. Chain /\ gsi.kbd.to = drv[d].vector
  BY <1>0 DEF ChainInv
<1>2. /\ Holds(d) /\ gsi' = [gsi EXCEPT !.kbd = drv[d].saved]
      /\ drv' = [drv EXCEPT ![d] = Process]
  BY DEF KbdExit, CloseIrq, Holds
<1>3. drv \in [Drivers -> Driver] /\ gsi \in Entries
  BY DEF IrqInv, RoutingInv
<1>4. gsi'.kbd = drv[d].saved
  BY <1>2, <1>3 DEF Entries
<1>5. drv'[d].pc = "off" /\ \A e \in Drivers : e # d => drv'[e] = drv[e]
  BY <1>2, <1>3 DEF Process
<1>6. ~Holds(d)' /\ \A e \in Drivers : e # d => (Holds(e)' <=> Holds(e))
  BY <1>5 DEF Holds
<1>7. ASSUME NEW en, Home(en), en.to # drv[d].vector
      PROVE  en = KernelEntry \/ \E g \in Drivers : Holds(g)' /\ en.to = drv'[g].vector
  <2>1. CASE \E g \in Drivers : Holds(g) /\ en.to = drv[g].vector
    BY <2>1, <1>5, <1>6, <1>7
  <2> QED
    BY <1>7, <2>1 DEF Home
<1>8. Home(gsi.kbd)'
  <2>1. Home(drv[d].saved) /\ drv[d].saved.to # drv[d].vector
    BY <1>1, <1>2 DEF Chain
  <2> QED
    BY <2>1, <1>4, <1>7 DEF Home, KernelEntry
<1>9. ASSUME NEW e \in Drivers, Holds(e)'
      PROVE  Home(drv[e].saved)' /\ (drv[e].saved.to # gsi.kbd.to)'
  <2>1. e # d /\ Holds(e) /\ drv'[e] = drv[e]
    BY <1>5, <1>6, <1>9
  <2>2. Home(drv[e].saved) /\ drv[e].saved.to # drv[d].vector /\ drv[e].saved.to # drv[d].saved.to
    BY <2>1, <1>1, <1>2 DEF Chain
  <2> QED
    BY <2>1, <2>2, <1>4, <1>7 DEF Home, KernelEntry
<1>10. ASSUME NEW e \in Drivers, NEW g \in Drivers, Holds(e)', Holds(g)',
              (drv[e].saved.to = drv[g].saved.to)'
       PROVE  e = g
  <2>1. Holds(e) /\ drv'[e] = drv[e] /\ Holds(g) /\ drv'[g] = drv[g]
    BY <1>5, <1>6, <1>10
  <2> QED
    BY <2>1, <1>1, <1>10 DEF Chain
<1>11. ASSUME NEW e \in Drivers, (drv[e].pc = "saved" /\ drv[e].saved.to = 0)'
       PROVE  (drv[e].saved = KernelEntry)'
  BY <1>1, <1>5, <1>11 DEF Chain, KernelEntry
<1> QED
  BY <1>8, <1>9, <1>10, <1>11 DEF Chain

LEMMA ChainStep ==
    ASSUME IrqInv, ChainInv, [Next]_vars
    PROVE  ChainInv'
<1>0. gsi \in Entries /\ drv \in [Drivers -> Driver]
  BY DEF IrqInv, RoutingInv
<1>1. ASSUME UNCHANGED irqs, gsi'.kbd = gsi.kbd PROVE ChainInv'
  <2>1. SameClaims /\ UNCHANGED astray
    BY <1>1 DEF irqs, SameClaims, Holds
  <2> QED
    BY <1>0, <1>1, <2>1, ChainKept
<1>2. CASE UNCHANGED vars
  BY <1>1, <1>2 DEF vars
<1>3. CASE Elsewhere
  BY <1>0, <1>1, <1>3, ElsewhereStill
<1>4. CASE Scancode
  <2>1. SameClaims
    BY <1>4, ScancodeRouted
  <2>2. UNCHANGED <<gsi, astray>>
    BY <1>4 DEF Scancode
  <2> QED
    BY <1>0, <2>1, <2>2, ChainKept
<1>5. ASSUME NEW d \in Drivers, IrqOpen(d) \/ IrqWait(d) \/ Feed(d) \/ KbdConnect(d)
      PROVE  ChainInv'
  <2>1. SameClaims
    BY <1>5, OpenRouted, WaitRouted, FeedRouted, ConnectRouted
  <2>2. UNCHANGED astray
    BY <1>5 DEF IrqOpen, IrqWait, Feed, KbdConnect
  <2>3. gsi' = gsi \/ gsi' = [gsi EXCEPT !.kbd = Unmasked(gsi.kbd)]
    BY <1>5 DEF IrqOpen, IrqWait, Feed, KbdConnect
  <2>4. gsi'.kbd = gsi.kbd \/ gsi'.kbd = Unmasked(gsi.kbd)
    BY <1>0, <2>3 DEF Entries
  <2> QED
    BY <1>0, <2>1, <2>2, <2>4, ChainKept
<1>6. ASSUME NEW d \in Drivers, IrqCreate(d) PROVE ChainInv'
  <2>1. PICK v : drv' = [drv EXCEPT ![d] = [Process EXCEPT !.pc = "vector", !.vector = v]]
    BY <1>6 DEF IrqCreate
  <2>2. drv[d].pc = "off" /\ UNCHANGED <<gsi, astray>>
    BY <1>6 DEF IrqCreate
  <2>3. drv'[d].pc = "vector" /\ \A e \in Drivers : e # d => drv'[e] = drv[e]
    BY <1>0, <2>1 DEF Process
  <2>4. \A e \in Drivers : Holds(e) => Holds(e)' /\ drv'[e] = drv[e]
    BY <2>2, <2>3 DEF Holds
  <2>5. \A e \in Drivers : Holds(e)' => Holds(e) /\ drv'[e] = drv[e]
    BY <2>3 DEF Holds
  <2>6. \A e \in Drivers : drv'[e].pc = "saved" => drv'[e] = drv[e]
    BY <2>3
  <2> SUFFICES ASSUME Chain PROVE Chain'
    BY <2>2 DEF ChainInv
  <2>7. Home(gsi.kbd)'
    BY <2>2, <2>4 DEF Chain, Home, KernelEntry
  <2>8. ASSUME NEW e \in Drivers, Holds(e)'
        PROVE  Home(drv[e].saved)' /\ (drv[e].saved.to # gsi.kbd.to)'
    <3>1. Holds(e) /\ drv'[e] = drv[e]
      BY <2>5, <2>8
    <3> QED
      BY <3>1, <2>2, <2>4 DEF Chain, Home, KernelEntry
  <2>9. ASSUME NEW e \in Drivers, NEW g \in Drivers, Holds(e)', Holds(g)',
               (drv[e].saved.to = drv[g].saved.to)'
        PROVE  e = g
    <3>1. Holds(e) /\ drv'[e] = drv[e] /\ Holds(g) /\ drv'[g] = drv[g]
      BY <2>5, <2>9
    <3> QED
      BY <3>1, <2>9 DEF Chain
  <2>10. ASSUME NEW e \in Drivers, (drv[e].pc = "saved" /\ drv[e].saved.to = 0)'
         PROVE  (drv[e].saved = KernelEntry)'
    BY <2>6, <2>10 DEF Chain, KernelEntry
  <2> QED
    BY <2>7, <2>8, <2>9, <2>10 DEF Chain
<1>7. ASSUME NEW d \in Drivers, IrqOpenFails(d) \/ KbdFault(d) PROVE ChainInv'
  BY <1>7 DEF IrqOpenFails, KbdFault, ChainInv
<1>8. ASSUME NEW d \in Drivers, KbdDriver(d) PROVE ChainInv'
  BY <1>5, <1>6, <1>7, <1>8, SaveChain, RouteChain, ExitChain DEF KbdDriver
<1> QED
  BY <1>2, <1>3, <1>4, <1>8, NextSplits

LEMMA ChainStart == Init => ChainInv
<1> SUFFICES ASSUME Init PROVE ChainInv
  OBVIOUS
<1>1. gsi.kbd = KernelEntry /\ astray = FALSE
  BY DEF Init
<1>2. \A d \in Drivers : drv[d].pc = "off" /\ ~Holds(d)
  BY DEF Init, Process, Holds
<1> QED
  BY <1>1, <1>2 DEF ChainInv, Chain, Home

(***************************************************************************)
(* In every behaviour, however many driver processes claim the keyboard,   *)
(* exit or die and in whatever order, the line is the kernel's and         *)
(* unmasked or leads to a process that holds it, unless a process died of  *)
(* a fault, found no free descriptor, or lost the line to another before   *)
(* giving it up; and the vectors in use are the block device's and those   *)
(* of processes that have one, without exception (sys_irq_create,          *)
(* close_irq, kill_user_process).                                          *)
(***************************************************************************)
THEOREM KeyboardComesBack == Spec => []KeyboardReturns
<1>1. Init => IrqInv /\ ChainInv
  BY RoutingStart, ChainStart
<1>2. IrqInv /\ ChainInv /\ [Next]_vars => IrqInv' /\ ChainInv'
  BY RoutingStep, ChainStep
<1>3. IrqInv /\ ChainInv => KeyboardReturns
  <2> SUFFICES ASSUME IrqInv, ChainInv PROVE KeyboardReturns
    OBVIOUS
  <2>1. \/ astray \/ gsi.kbd = KernelEntry
        \/ \E d \in Drivers : Holds(d) /\ gsi.kbd.to = drv[d].vector
    BY DEF ChainInv, Chain, Home
  <2>2. VectorsOwned(vec, drv) /\ vec \in [Vectors -> BOOLEAN]
    BY DEF IrqInv, RoutingInv
  <2>3. \A v \in Vectors :
          vec[v] <=> v = 1 \/ \E d \in Drivers : drv[d].pc # "off" /\ drv[d].vector = v
    BY <2>2, ZenonT(30) DEF VectorsOwned
  <2> QED
    BY <2>1, <2>3 DEF KeyboardReturns
<1> QED
  BY <1>1, <1>2, <1>3, PTL DEF Spec

-----------------------------------------------------------------------------
(***************************************************************************)
(* A set of naturals with a bound has a greatest element, and Max is it.   *)
(***************************************************************************)
LEMMA MaxInSet ==
    ASSUME NEW n \in Nat, NEW T, T \subseteq 0 .. n, T # {}
    PROVE  Max(T) \in T /\ \A y \in T : Max(T) >= y
<1> DEFINE D == {n - x : x \in T}
<1>1. D \subseteq Nat /\ D # {}
  <2>1. \A x \in T : x \in 0 .. n /\ n - x \in Nat
    OBVIOUS
  <2> QED
    BY <2>1
<1>2. PICK m : m = Min(D) /\ m \in D /\ \A y \in D : m <= y
  <2> HIDE DEF D
  <2> QED
    BY <1>1, MinInSet
<1>3. PICK x \in T : m = n - x
  BY <1>2
<1>4. ASSUME NEW y \in T PROVE x >= y
  <2>1. n - y \in D
    OBVIOUS
  <2>2. n - x <= n - y
    BY <1>2, <1>3, <2>1
  <2> QED
    BY <2>2
<1> QED
  BY <1>4 DEF Max

(***************************************************************************)
(* The line editor.  What a key handler makes of a line: a line within the *)
(* same arrays, and while an entry of the history is shown, the line the   *)
(* user left is the saved one.                                             *)
(***************************************************************************)
Handled(st, st2) ==
  /\ GoodLine(st2)
  /\ st2.hist # 0 => st2.saved = IF st.hist = 0 THEN st.buf ELSE st.saved

\* A handler that leaves history and browsing alone.
Edits(st, st2) == GoodLine(st2) /\ st2.hist = st.hist /\ st2.saved = st.saved

LEMMA LineTypes ==
    ASSUME NEW st, GoodLine(st)
    PROVE  /\ st.buf \in Lines /\ st.cursor \in Nat /\ st.history \in Seq(Lines)
           /\ st.hist \in Nat /\ st.saved \in Lines /\ <<>> \in Lines /\ Len(<<>>) = 0
           /\ Len(st.buf) \in Nat /\ Len(st.history) \in Nat /\ Len(st.saved) \in Nat
           /\ MAX_LINE \in Nat \ {0} /\ MAX_HISTORY \in Nat \ {0}
           /\ st.cursor \in 0 .. Len(st.buf)
<1>1. /\ st.buf \in Lines /\ st.cursor \in Nat /\ st.history \in Seq(Lines)
      /\ st.hist \in Nat /\ st.saved \in Lines
  BY DEF GoodLine, Line
<1>2. Len(st.buf) \in Nat /\ Len(st.history) \in Nat /\ Len(st.saved) \in Nat
  BY <1>1, LenProperties DEF Lines
<1>3. st.cursor \in 0 .. Len(st.buf)
  BY <1>1, <1>2 DEF GoodLine
<1> QED
  BY <1>1, <1>2, <1>3, EmptySeq, DevicesAssumption DEF Lines

LEMMA CursorSplits ==
    ASSUME NEW st, GoodLine(st)
    PROVE  /\ Before(st) \in Lines /\ Len(Before(st)) = st.cursor
           /\ After(st) \in Lines /\ Len(After(st)) = Len(st.buf) - st.cursor
<1>1. st.buf \in Seq(Codes) /\ st.cursor \in 0 .. Len(st.buf)
  BY LineTypes DEF Lines
<1>2. /\ SubSeq(st.buf, 1, st.cursor) \in Seq(Codes)
      /\ Len(SubSeq(st.buf, 1, st.cursor)) = st.cursor
      /\ SubSeq(st.buf, st.cursor + 1, Len(st.buf)) \in Seq(Codes)
      /\ Len(SubSeq(st.buf, st.cursor + 1, Len(st.buf))) = Len(st.buf) - st.cursor
  <2> DEFINE b == st.buf
             k == st.cursor
  <2>1. b \in Seq(Codes) /\ k \in 0 .. Len(b)
    BY <1>1
  <2> HIDE DEF b, k
  <2>2. /\ SubSeq(b, 1, k) \in Seq(Codes) /\ Len(SubSeq(b, 1, k)) = k
        /\ SubSeq(b, k + 1, Len(b)) \in Seq(Codes)
        /\ Len(SubSeq(b, k + 1, Len(b))) = Len(b) - k
    BY <2>1, SplitTypes
  <2> QED
    BY <2>2 DEF b, k
<1> QED
  BY <1>2 DEF Before, After, Lines

LEMMA EditedEdits ==
    ASSUME NEW st, GoodLine(st), NEW l \in Lines, NEW r \in Lines,
           Len(l) + Len(r) <= MAX_LINE
    PROVE  Edits(st, Edited(st, l, r))
<1> DEFINE st2 == Edited(st, l, r)
<1>1. l \o r \in Lines /\ Len(l \o r) = Len(l) + Len(r) /\ Len(l) \in Nat /\ Len(r) \in Nat
  BY ConcatProperties, LenProperties DEF Lines
<1>2. /\ st2 \in Line /\ st2.buf = l \o r /\ st2.cursor = Len(l) /\ st2.hist = st.hist
      /\ st2.saved = st.saved /\ st2.history = st.history
  BY <1>1 DEF Edited, GoodLine, Line
<1> HIDE DEF st2
<1>3. Len(st2.buf) <= MAX_LINE /\ st2.cursor <= Len(st2.buf)
  BY <1>1, <1>2
<1>4. GoodLine(st2)
  BY <1>2, <1>3 DEF GoodLine
<1> QED
  BY <1>2, <1>4 DEF Edits, st2

LEMMA MoveToEdits ==
    ASSUME NEW st, GoodLine(st), NEW i \in 0 .. Len(st.buf)
    PROVE  Edits(st, MoveTo(st, i))
<1> DEFINE st2 == MoveTo(st, i)
<1>1. Len(st.buf) \in Nat
  BY LineTypes
<1>2. /\ st2 \in Line /\ st2.buf = st.buf /\ st2.cursor = i /\ st2.hist = st.hist
      /\ st2.saved = st.saved /\ st2.history = st.history
  BY <1>1 DEF MoveTo, GoodLine, Line
<1> HIDE DEF st2
<1>3. GoodLine(st2)
  BY <1>1, <1>2 DEF GoodLine
<1> QED
  BY <1>2, <1>3 DEF Edits, st2

LEMMA EditsHandled ==
    ASSUME NEW st, NEW st2, Edits(st, st2)
    PROVE  Handled(st, st2)
BY DEF Edits, Handled

LEMMA SameHandled ==
    ASSUME NEW st, GoodLine(st)
    PROVE  Handled(st, st)
BY DEF Handled

(***************************************************************************)
(* The handlers that edit the line at the cursor.                          *)
(***************************************************************************)
LEMMA CursorHandlers ==
    ASSUME NEW st, GoodLine(st)
    PROVE  /\ Handled(st, MoveLeft(st)) /\ Handled(st, MoveRight(st))
           /\ Handled(st, MoveTo(st, 0)) /\ Handled(st, MoveTo(st, Len(st.buf)))
<1>1. Len(st.buf) \in Nat /\ st.cursor \in 0 .. Len(st.buf)
  BY LineTypes
<1>2. \A i \in 0 .. Len(st.buf) : Handled(st, MoveTo(st, i))
  BY MoveToEdits, EditsHandled
<1>3. Handled(st, MoveLeft(st))
  <2>1. CASE st.cursor > 0
    <3>1. st.cursor - 1 \in 0 .. Len(st.buf)
      BY <1>1, <2>1
    <3> QED
      BY <1>2, <2>1, <3>1 DEF MoveLeft
  <2>2. CASE ~(st.cursor > 0)
    BY <2>2, SameHandled DEF MoveLeft
  <2> QED
    BY <2>1, <2>2
<1>4. Handled(st, MoveRight(st))
  <2>1. CASE st.cursor < Len(st.buf)
    <3>1. st.cursor + 1 \in 0 .. Len(st.buf)
      BY <1>1, <2>1
    <3> QED
      BY <1>2, <2>1, <3>1 DEF MoveRight
  <2>2. CASE ~(st.cursor < Len(st.buf))
    BY <2>2, SameHandled DEF MoveRight
  <2> QED
    BY <2>1, <2>2
<1>5. 0 \in 0 .. Len(st.buf) /\ Len(st.buf) \in 0 .. Len(st.buf)
  BY <1>1
<1> QED
  BY <1>2, <1>3, <1>4, <1>5

LEMMA DeleteHandlers ==
    ASSUME NEW st, GoodLine(st)
    PROVE  /\ Handled(st, Backspace(st)) /\ Handled(st, DeleteForward(st))
           /\ Handled(st, KillToEnd(st)) /\ Handled(st, KillToStart(st))
<1> DEFINE l == Before(st)
           r == After(st)
           n == Len(st.buf)
<1>1. /\ l \in Lines /\ Len(l) = st.cursor /\ r \in Lines /\ Len(r) = n - st.cursor
      /\ <<>> \in Lines /\ Len(<<>>) = 0
      /\ n \in Nat /\ st.cursor \in 0 .. n /\ n <= MAX_LINE /\ MAX_LINE \in Nat
  BY CursorSplits, LineTypes DEF GoodLine
<1>2. ASSUME NEW a \in Lines, NEW b \in Lines, Len(a) + Len(b) <= MAX_LINE
      PROVE  Handled(st, Edited(st, a, b))
  BY <1>2, EditedEdits, EditsHandled
<1> HIDE DEF l, r, n
<1>3. Handled(st, Backspace(st))
  <2>1. CASE st.cursor = 0
    BY <2>1, SameHandled DEF Backspace
  <2>2. CASE st.cursor # 0
    <3>1. Front(l) \in Lines /\ Len(Front(l)) = st.cursor - 1
      <4>1. l \in Seq(Codes) /\ st.cursor - 1 \in 0 .. Len(l) /\ Len(l) - 1 = st.cursor - 1
        BY <1>1, <2>2 DEF Lines
      <4>2. /\ SubSeq(l, 1, st.cursor - 1) \in Seq(Codes)
            /\ Len(SubSeq(l, 1, st.cursor - 1)) = st.cursor - 1
        BY <4>1, SplitTypes
      <4> QED
        BY <4>1, <4>2 DEF Front, Lines
    <3>2. Len(Front(l)) + Len(r) <= MAX_LINE
      BY <3>1, <1>1
    <3>3. Handled(st, Edited(st, Front(l), r))
      BY <3>1, <3>2, <1>1, <1>2
    <3> QED
      BY <2>2, <3>3 DEF Backspace, l, r
  <2> QED
    BY <2>1, <2>2
<1>4. Handled(st, DeleteForward(st))
  <2>1. CASE st.cursor = n
    BY <2>1, SameHandled DEF DeleteForward, n
  <2>2. CASE st.cursor # n
    <3>1. r # <<>>
      BY <1>1, <2>2
    <3>2. Tail(r) \in Lines /\ Len(Tail(r)) = Len(r) - 1
      BY <1>1, <3>1, HeadTailProperties DEF Lines
    <3>3. Len(l) + Len(Tail(r)) <= MAX_LINE
      BY <3>2, <1>1
    <3>4. Handled(st, Edited(st, l, Tail(r)))
      BY <3>2, <3>3, <1>1, <1>2
    <3> QED
      BY <2>2, <3>4 DEF DeleteForward, l, r, n
  <2> QED
    BY <2>1, <2>2
<1>5. Handled(st, KillToEnd(st))
  <2>1. Len(l) + Len(<<>>) <= MAX_LINE
    BY <1>1
  <2>2. Handled(st, Edited(st, l, <<>>))
    BY <2>1, <1>1, <1>2
  <2> QED
    BY <2>2 DEF KillToEnd, l
<1>6. Handled(st, KillToStart(st))
  <2>1. Len(<<>>) + Len(r) <= MAX_LINE
    BY <1>1
  <2>2. Handled(st, Edited(st, <<>>, r))
    BY <2>1, <1>1, <1>2
  <2> QED
    BY <2>2 DEF KillToStart, r
<1> QED
  BY <1>3, <1>4, <1>5, <1>6

LEMMA DeleteWordHandled ==
    ASSUME NEW st, GoodLine(st)
    PROVE  Handled(st, DeleteWord(st))
<1> DEFINE l == Before(st)
           r == After(st)
           solid == {i \in DOMAIN l : l[i] # Space}
           gap == {i \in DOMAIN l : l[i] = Space /\ \E j \in solid : i < j}
           keep == IF solid = {} \/ gap = {} THEN 0 ELSE Max(gap)
<1>1. /\ l \in Seq(Codes) /\ Len(l) = st.cursor /\ r \in Lines /\ Len(r) = Len(st.buf) - st.cursor
      /\ Len(st.buf) \in Nat /\ st.cursor \in 0 .. Len(st.buf)
      /\ Len(st.buf) <= MAX_LINE /\ MAX_LINE \in Nat
  BY CursorSplits, LineTypes DEF GoodLine, Lines
<1>2. DOMAIN l = 1 .. Len(l) /\ Len(l) \in Nat
  <2> HIDE DEF l
  <2> QED
    BY <1>1, LenProperties
<1> HIDE DEF l, r
<1>3. keep \in 0 .. Len(l)
  <2>1. gap \subseteq 0 .. Len(l)
    BY <1>2
  <2>2. gap # {} => Max(gap) \in gap
    <3> HIDE DEF gap
    <3> QED
      BY <1>2, <2>1, MaxInSet
  <2> HIDE DEF gap, solid
  <2>3. CASE gap = {}
    BY <1>2, <2>3
  <2>4. CASE gap # {}
    <3>1. Max(gap) \in 0 .. Len(l)
      BY <2>1, <2>2, <2>4
    <3> QED
      BY <1>2, <3>1
  <2> QED
    BY <2>3, <2>4
<1>4. DeleteWord(st) = Edited(st, SubSeq(l, 1, keep), r)
  BY DEF DeleteWord, l, r
<1> HIDE DEF keep
<1>5. SubSeq(l, 1, keep) \in Lines /\ Len(SubSeq(l, 1, keep)) = keep
  BY <1>1, <1>3, SplitTypes DEF Lines
<1>6. Len(SubSeq(l, 1, keep)) + Len(r) <= MAX_LINE
  BY <1>1, <1>3, <1>5
<1>7. Edits(st, Edited(st, SubSeq(l, 1, keep), r))
  <2>1. PICK a : a = SubSeq(l, 1, keep)
    OBVIOUS
  <2>2. a \in Lines /\ r \in Lines /\ Len(a) + Len(r) <= MAX_LINE
    BY <2>1, <1>1, <1>5, <1>6
  <2>3. Edits(st, Edited(st, a, r))
    BY <2>2, EditedEdits
  <2> QED
    BY <2>1, <2>3
<1> QED
  BY <1>4, <1>7, EditsHandled

LEMMA InsertCharHandled ==
    ASSUME NEW st, GoodLine(st), NEW c \in Codes, NEW max \in 0 .. MAX_LINE
    PROVE  Handled(st, InsertChar(st, c, max))
<1>1. /\ Before(st) \in Lines /\ Len(Before(st)) = st.cursor
      /\ After(st) \in Lines /\ Len(After(st)) = Len(st.buf) - st.cursor
      /\ Len(st.buf) \in Nat /\ st.cursor \in 0 .. Len(st.buf) /\ MAX_LINE \in Nat
  BY CursorSplits, LineTypes
<1>2. CASE Len(st.buf) >= max
  BY <1>2, SameHandled DEF InsertChar
<1>3. CASE ~(Len(st.buf) >= max)
  <2>1. PICK a, b : a = Append(Before(st), c) /\ b = After(st)
    OBVIOUS
  <2>2. a \in Lines /\ Len(a) = st.cursor + 1 /\ b \in Lines
    BY <2>1, <1>1, AppendProperties DEF Lines
  <2>3. Len(a) + Len(b) <= MAX_LINE
    BY <2>1, <2>2, <1>1, <1>3
  <2>4. Handled(st, Edited(st, a, b))
    BY <2>2, <2>3, EditedEdits, EditsHandled
  <2> QED
    BY <2>1, <2>4, <1>3 DEF InsertChar
<1> QED
  BY <1>2, <1>3

(***************************************************************************)
(* submit: the trimmed line goes to the history, which keeps its bound.    *)
(***************************************************************************)
LEMMA TrimmedTyped ==
    ASSUME NEW s \in Lines
    PROVE  Trimmed(s) \in Lines
<1>1. /\ s \in Seq(Codes) /\ Len(s) \in Nat /\ DOMAIN s = 1 .. Len(s)
      /\ \A i \in 1 .. Len(s) : s[i] \in Codes
  BY LenProperties, ElementOfSeq DEF Lines
<1>2. CASE Blank(s)
  BY <1>2, EmptySeq DEF Trimmed, Lines
<1>3. CASE ~Blank(s)
  <2> DEFINE solid == {i \in DOMAIN s : s[i] # Space}
  <2>1. solid # {} /\ solid \subseteq 0 .. Len(s) /\ solid \subseteq Nat /\ solid \subseteq 1 .. Len(s)
    BY <1>1, <1>3 DEF Blank
  <2>2. Trimmed(s) = SubSeq(s, Min(solid), Max(solid))
    BY <1>3 DEF Trimmed
  <2> HIDE DEF solid
  <2>3. PICK a, b : a = Min(solid) /\ b = Max(solid)
    OBVIOUS
  <2>4. a \in 1 .. Len(s) /\ b \in 1 .. Len(s)
    BY <1>1, <2>1, <2>3, MinInSet, MaxInSet
  <2>5. a \in Int /\ b \in Int /\ \A i \in a .. b : s[i] \in Codes
    BY <1>1, <2>4
  <2>6. SubSeq(s, a, b) \in Seq(Codes)
    BY <2>5, SubSeqProperties
  <2> QED
    BY <2>2, <2>3, <2>6 DEF Lines
<1> QED
  BY <1>2, <1>3

LEMMA PushedBounded ==
    ASSUME NEW h \in Seq(Lines), Len(h) <= MAX_HISTORY, NEW s \in Lines
    PROVE  Pushed(h, s) \in Seq(Lines) /\ Len(Pushed(h, s)) <= MAX_HISTORY
<1>1. Len(h) \in Nat /\ MAX_HISTORY \in Nat \ {0}
  BY LenProperties, DevicesAssumption
<1>2. CASE h # <<>> /\ Last(h) = s
  BY <1>2 DEF Pushed
<1>3. CASE ~(h # <<>> /\ Last(h) = s)
  <2>1. CASE Len(h) = MAX_HISTORY
    <3>1. h # <<>>
      BY <1>1, <2>1
    <3>2. Tail(h) \in Seq(Lines) /\ Len(Tail(h)) = Len(h) - 1
      BY <3>1, HeadTailProperties
    <3>3. Append(Tail(h), s) \in Seq(Lines) /\ Len(Append(Tail(h), s)) = Len(Tail(h)) + 1
      BY <3>2, AppendProperties
    <3> QED
      BY <1>1, <1>3, <2>1, <3>2, <3>3 DEF Pushed
  <2>2. CASE Len(h) # MAX_HISTORY
    <3>1. Append(h, s) \in Seq(Lines) /\ Len(Append(h, s)) = Len(h) + 1
      BY AppendProperties
    <3> QED
      BY <1>1, <1>3, <2>2, <3>1 DEF Pushed
  <2> QED
    BY <2>1, <2>2
<1> QED
  BY <1>2, <1>3

LEMMA SubmittedHandled ==
    ASSUME NEW st, GoodLine(st)
    PROVE  Handled(st, Submitted(st)) /\ Handled(st, Interrupted(st))
<1>1. /\ st \in Line /\ st.buf \in Lines /\ st.history \in Seq(Lines) /\ <<>> \in Lines
      /\ Len(<<>>) = 0 /\ Len(st.history) <= MAX_HISTORY /\ Len(st.saved) <= MAX_LINE
      /\ MAX_LINE \in Nat /\ Len(st.history) \in Nat
  BY LineTypes DEF GoodLine
<1>2. ASSUME NEW h \in Seq(Lines), Len(h) <= MAX_HISTORY
      PROVE  Handled(st, [st EXCEPT !.buf = <<>>, !.cursor = 0, !.hist = 0, !.history = h])
  <2> DEFINE st2 == [st EXCEPT !.buf = <<>>, !.cursor = 0, !.hist = 0, !.history = h]
  <2>1. /\ st2 \in Line /\ st2.buf = <<>> /\ st2.cursor = 0 /\ st2.hist = 0
        /\ st2.saved = st.saved /\ st2.history = h
    BY <1>1 DEF Line
  <2>2. Len(h) \in Nat
    BY LenProperties
  <2> HIDE DEF st2
  <2>3. GoodLine(st2)
    BY <1>1, <1>2, <2>1, <2>2 DEF GoodLine
  <2> QED
    BY <2>1, <2>3 DEF Handled, st2
<1>3. Handled(st, Submitted(st))
  <2>1. PICK t, h : t = Trimmed(st.buf) /\ h = IF t = <<>> THEN st.history ELSE Pushed(st.history, t)
    OBVIOUS
  <2>2. t \in Lines
    BY <1>1, <2>1, TrimmedTyped
  <2>3. h \in Seq(Lines) /\ Len(h) <= MAX_HISTORY
    BY <1>1, <2>1, <2>2, PushedBounded
  <2>4. Submitted(st) = [st EXCEPT !.buf = <<>>, !.cursor = 0, !.hist = 0, !.history = h]
    BY <2>1 DEF Submitted
  <2> QED
    BY <2>3, <2>4, <1>2
<1>4. Handled(st, Interrupted(st))
  <2> DEFINE st2 == [st EXCEPT !.buf = <<>>, !.cursor = 0, !.hist = 0]
  <2>1. /\ st2 \in Line /\ st2.buf = <<>> /\ st2.cursor = 0 /\ st2.hist = 0
        /\ st2.saved = st.saved /\ st2.history = st.history
    BY <1>1 DEF Line
  <2> HIDE DEF st2
  <2>2. GoodLine(st2)
    BY <1>1, <2>1 DEF GoodLine
  <2> QED
    BY <2>1, <2>2 DEF Handled, Interrupted, st2
<1> QED
  BY <1>3, <1>4

(***************************************************************************)
(* restore_from_history cuts the entry to the line's array.                *)
(***************************************************************************)
LEMMA FromHistoryGood ==
    ASSUME NEW st, GoodLine(st), NEW i \in 1 .. Len(st.history)
    PROVE  GoodLine(FromHistory(st, i)) /\ FromHistory(st, i).saved = st.saved
<1>1. /\ st \in Line /\ st.history \in Seq(Lines) /\ Len(st.history) \in Nat /\ MAX_LINE \in Nat
  BY LineTypes DEF GoodLine
<1>2. PICK e : e = st.history[i]
  OBVIOUS
<1>3. e \in Lines /\ Len(e) \in Nat
  BY <1>1, <1>2, ElementOfSeq, LenProperties DEF Lines
<1>4. PICK n : n = Min({Len(e), MAX_LINE})
  OBVIOUS
<1>5. n \in 0 .. Len(e) /\ n <= MAX_LINE
  <2> DEFINE T == {Len(e), MAX_LINE}
  <2>1. T \subseteq Nat /\ T # {} /\ Len(e) \in T /\ MAX_LINE \in T
    BY <1>1, <1>3
  <2>2. n = Min(T)
    BY <1>4
  <2> HIDE DEF T
  <2>3. n \in T /\ \A y \in T : n <= y
    BY <2>1, <2>2, MinInSet
  <2> QED
    BY <2>1, <2>3, <1>3
<1>6. PICK b : b = SubSeq(e, 1, n)
  OBVIOUS
<1>7. b \in Lines /\ Len(b) = n
  BY <1>3, <1>5, <1>6, SplitTypes DEF Lines
<1> DEFINE st2 == [st EXCEPT !.buf = b, !.cursor = Len(b), !.hist = i]
<1>8. FromHistory(st, i) = st2
  BY <1>2, <1>4, <1>6 DEF FromHistory
<1>9. /\ st2 \in Line /\ st2.buf = b /\ st2.cursor = Len(b) /\ st2.hist = i
      /\ st2.saved = st.saved /\ st2.history = st.history
  <2>1. st \in Line /\ b \in Lines /\ Len(b) \in Nat /\ i \in Nat
    BY <1>1, <1>5, <1>7
  <2> QED
    BY <2>1 DEF Line
<1> HIDE DEF st2
<1>10. GoodLine(st2)
  BY <1>1, <1>5, <1>7, <1>9 DEF GoodLine
<1> QED
  BY <1>8, <1>9, <1>10

LEMMA HistoryHandlers ==
    ASSUME NEW st, GoodLine(st)
    PROVE  Handled(st, HistoryUp(st)) /\ Handled(st, HistoryDown(st))
<1>1. /\ st \in Line /\ st.buf \in Lines /\ st.history \in Seq(Lines) /\ Len(st.history) \in Nat
      /\ st.hist \in Nat /\ st.hist <= Len(st.history) /\ MAX_LINE \in Nat
      /\ st.saved \in Lines /\ Len(st.saved) <= MAX_LINE /\ Len(st.buf) <= MAX_LINE
      /\ Len(st.saved) \in Nat
  BY LineTypes DEF GoodLine
<1>2. Handled(st, HistoryUp(st))
  <2>1. CASE st.history = <<>>
    BY <2>1, SameHandled DEF HistoryUp
  <2>2. CASE st.history # <<>> /\ st.hist = 0
    <3> DEFINE s2 == [st EXCEPT !.saved = st.buf]
    <3>1. /\ s2 \in Line /\ s2.buf = st.buf /\ s2.cursor = st.cursor /\ s2.hist = st.hist
          /\ s2.saved = st.buf /\ s2.history = st.history
      BY <1>1 DEF Line
    <3>2. HistoryUp(st) = FromHistory(s2, Len(st.history))
      BY <2>2 DEF HistoryUp
    <3> HIDE DEF s2
    <3>3. GoodLine(s2)
      BY <1>1, <3>1 DEF GoodLine
    <3>4. Len(st.history) \in 1 .. Len(s2.history)
      BY <1>1, <2>2, <3>1, EmptySeq
    <3>5. PICK n : n = Len(st.history)
      OBVIOUS
    <3>6. GoodLine(FromHistory(s2, n)) /\ FromHistory(s2, n).saved = s2.saved
      BY <3>3, <3>4, <3>5, FromHistoryGood
    <3> QED
      BY <2>2, <3>1, <3>2, <3>5, <3>6 DEF Handled
  <2>3. CASE st.history # <<>> /\ st.hist # 0
    <3>1. PICK i : i = Max({1, st.hist - 1})
      OBVIOUS
    <3>2. i \in 1 .. Len(st.history)
      <4> DEFINE T == {1, st.hist - 1}
      <4>1. T \subseteq 0 .. Len(st.history) /\ T # {} /\ 1 \in T
        BY <1>1, <2>3
      <4>2. i = Max(T)
        BY <3>1
      <4> HIDE DEF T
      <4>3. i \in T /\ \A y \in T : i >= y
        BY <1>1, <4>1, <4>2, MaxInSet
      <4>4. i = 1 \/ i = st.hist - 1
        BY <4>3 DEF T
      <4>5. i >= 1
        BY <4>1, <4>3
      <4> QED
        BY <1>1, <2>3, <4>4, <4>5
    <3>3. HistoryUp(st) = FromHistory(st, i)
      BY <2>3, <3>1 DEF HistoryUp
    <3>4. GoodLine(FromHistory(st, i)) /\ FromHistory(st, i).saved = st.saved
      BY <3>2, FromHistoryGood
    <3> QED
      BY <2>3, <3>3, <3>4 DEF Handled
  <2> QED
    BY <2>1, <2>2, <2>3
<1>3. Handled(st, HistoryDown(st))
  <2>1. CASE st.hist = 0
    BY <2>1, SameHandled DEF HistoryDown
  <2>2. CASE st.hist # 0 /\ st.hist >= Len(st.history)
    <3> DEFINE s2 == [st EXCEPT !.buf = st.saved, !.cursor = Len(st.saved), !.hist = 0]
    <3>1. HistoryDown(st) = s2
      BY <2>2 DEF HistoryDown
    <3>2. /\ s2 \in Line /\ s2.buf = st.saved /\ s2.cursor = Len(st.saved) /\ s2.hist = 0
          /\ s2.saved = st.saved /\ s2.history = st.history
      BY <1>1 DEF Line
    <3> HIDE DEF s2
    <3>3. GoodLine(s2)
      BY <1>1, <3>2 DEF GoodLine
    <3> QED
      BY <3>1, <3>2, <3>3 DEF Handled
  <2>3. CASE st.hist # 0 /\ ~(st.hist >= Len(st.history))
    <3>1. PICK i : i = st.hist + 1
      OBVIOUS
    <3>2. i \in 1 .. Len(st.history)
      BY <1>1, <2>3, <3>1
    <3>3. HistoryDown(st) = FromHistory(st, i)
      BY <2>3, <3>1 DEF HistoryDown
    <3>4. GoodLine(FromHistory(st, i)) /\ FromHistory(st, i).saved = st.saved
      BY <3>2, FromHistoryGood
    <3> QED
      BY <2>3, <3>3, <3>4 DEF Handled
  <2> QED
    BY <2>1, <2>2, <2>3
<1> QED
  BY <1>2, <1>3

(***************************************************************************)
(* Whatever key is pressed: the match of on_key.                           *)
(***************************************************************************)
LEMMA PressedHandled ==
    ASSUME NEW st, GoodLine(st), NEW key \in Codes, NEW max \in 0 .. MAX_LINE
    PROVE  Handled(st, Pressed(st, key, max))
<1>1. Handled(st, Submitted(st)) /\ Handled(st, Interrupted(st))
  BY SubmittedHandled
<1>2. /\ Handled(st, Backspace(st)) /\ Handled(st, DeleteForward(st))
      /\ Handled(st, KillToEnd(st)) /\ Handled(st, KillToStart(st))
  BY DeleteHandlers
<1>3. /\ Handled(st, MoveLeft(st)) /\ Handled(st, MoveRight(st))
      /\ Handled(st, MoveTo(st, 0)) /\ Handled(st, MoveTo(st, Len(st.buf)))
  BY CursorHandlers
<1>4. Handled(st, HistoryUp(st)) /\ Handled(st, HistoryDown(st))
  BY HistoryHandlers
<1>5. Handled(st, DeleteWord(st))
  BY DeleteWordHandled
<1>6. Handled(st, InsertChar(st, key, max))
  BY InsertCharHandled
<1> QED
  BY <1>1, <1>2, <1>3, <1>4, <1>5, <1>6 DEF Pressed

-----------------------------------------------------------------------------
(***************************************************************************)
(* Only a key, the handler that queues it and the prompt change what the   *)
(* editor works on.                                                        *)
(***************************************************************************)
LEMMA EditorElsewhere ==
    ASSUME [Next]_vars
    PROVE  OnKey \/ OnSetPrompt \/ Scancode \/ UNCHANGED <<queue, line, live, room>>
<1> DEFINE Same == UNCHANGED <<queue, line, live, room>>
<1>1. ASSUME NEW x, Step(x) PROVE Same
  BY <1>1 DEF Step, Polls, Receives, Ends, Registers, Registered, Parks, Finishes, OnInfo, editor
<1>2. ASSUME Keyboard PROVE OnKey \/ OnSetPrompt \/ Same
  BY <1>1, <1>2 DEF Keyboard, KeysRegister, KeysCheck, editor
<1>3. ASSUME Shell \/ Resumes PROVE Same
  BY <1>1, <1>3 DEF Shell, Resumes, OnKeyLine, Prompts, Repolls, editor
<1>4. ASSUME Block \/ Device PROVE Same
  BY <1>1, <1>4 DEF Block, Device, OnRead, IoSeen, IoUnmasks, IoCompletes, IoReplies, IoWaits,
                    IoRegisters, DeviceDone, DeviceInterrupt, editor
<1>5. ASSUME DriverCommand \/ FileAsks PROVE Same
  BY <1>5 DEF DriverCommand, FileAsks, editor
<1>6. ASSUME NEW d \in Drivers, KbdDriver(d) PROVE Same
  BY <1>6 DEF KbdDriver, IrqCreate, IrqSave, IrqRoute, IrqOpen, IrqOpenFails, IrqWait, Feed,
              KbdConnect, KbdExit, KbdFault, editor
<1>7. ASSUME UNCHANGED vars PROVE Same
  BY <1>7 DEF vars
<1> QED
  BY <1>2, <1>3, <1>4, <1>5, <1>6, <1>7 DEF Next

\* The kernel's handler queues a code, or drops it when the queue is full.
LEMMA ScancodeQueued ==
    ASSUME EditorInv, LoadInv, Scancode
    PROVE  queue' \in Seq(Codes) /\ Len(queue') <= QueueSize
<1>1. queue \in Seq(Codes) /\ Len(queue) <= QueueSize /\ Len(queue) \in Nat /\ QueueSize \in Nat
  BY LenProperties, DevicesAssumption DEF EditorInv
<1>2. PICK code \in Codes : UNCHANGED queue \/ (queue' = Append(queue, code) /\ Len(queue) < QueueSize)
  BY DEF Scancode, KernelInterrupt, FdInterrupt, LoadInv
<1>3. Append(queue, code) \in Seq(Codes) /\ Len(Append(queue, code)) = Len(queue) + 1
  BY <1>1, AppendProperties
<1> QED
  BY <1>1, <1>2, <1>3

LEMMA OnKeyKept ==
    ASSUME EditorInv, OnKey
    PROVE  EditorInv'
<1>1. /\ GoodLine(line) /\ room \in 0 .. MAX_LINE
      /\ queue \in Seq(Codes) /\ queue # <<>> /\ Len(queue) <= QueueSize
      /\ IF line.hist = 0 THEN live = line.buf ELSE live = line.saved
  BY DEF EditorInv, OnKey
<1>2. /\ Head(queue) \in Codes /\ Tail(queue) \in Seq(Codes)
      /\ Len(Tail(queue)) = Len(queue) - 1 /\ Len(queue) \in Nat /\ QueueSize \in Nat
  BY <1>1, HeadTailProperties, LenProperties, DevicesAssumption
<1>3. PICK after : after = Pressed(line, Head(queue), room)
  OBVIOUS
<1>4. Handled(line, after)
  BY <1>1, <1>2, <1>3, PressedHandled
<1>5. /\ line' = after /\ queue' = Tail(queue) /\ room' = room
      /\ live' = IF after.hist = 0 THEN after.buf ELSE live
  BY <1>3 DEF OnKey
<1>6. queue' \in Seq(Codes) /\ Len(queue') <= QueueSize
  BY <1>1, <1>2, <1>5
<1>7. GoodLine(line')
  BY <1>4, <1>5 DEF Handled
<1>8. IF line'.hist = 0 THEN live' = line'.buf ELSE live' = line'.saved
  BY <1>1, <1>4, <1>5 DEF Handled
<1>9. GoodLine(line)'
  BY <1>7 DEF GoodLine
<1> QED
  BY <1>1, <1>5, <1>6, <1>8, <1>9 DEF EditorInv

LEMMA EditorStep ==
    ASSUME EditorInv, LoadInv, [Next]_vars
    PROVE  EditorInv'
<1>1. CASE OnKey
  BY <1>1, OnKeyKept
<1>2. CASE OnSetPrompt
  <2>1. room' \in left.rooms /\ UNCHANGED <<queue, line, live>>
    BY <1>2 DEF OnSetPrompt
  <2> QED
    BY <2>1 DEF EditorInv, LoadInv, GoodLine
<1>3. CASE Scancode
  <2>1. UNCHANGED <<line, live, room>>
    BY <1>3 DEF Scancode, editor
  <2> QED
    BY <1>3, <2>1, ScancodeQueued DEF EditorInv, GoodLine
<1>4. CASE UNCHANGED <<queue, line, live, room>>
  BY <1>4 DEF EditorInv, GoodLine
<1> QED
  BY <1>1, <1>2, <1>3, <1>4, EditorElsewhere

LEMMA EditorStart == Init => EditorInv
<1> SUFFICES ASSUME Init PROVE EditorInv
  OBVIOUS
<1>1. /\ line = EmptyLine /\ live = <<>> /\ room = MAX_LINE /\ queue = <<>>
      /\ MAX_LINE \in Nat /\ MAX_HISTORY \in Nat /\ QueueSize \in Nat
  BY DevicesAssumption DEF Init
<1>2. <<>> \in Lines /\ <<>> \in Seq(Lines) /\ <<>> \in Seq(Codes) /\ Len(<<>>) = 0
  BY EmptySeq DEF Lines
<1>3. /\ EmptyLine \in Line /\ EmptyLine.buf = <<>> /\ EmptyLine.cursor = 0
      /\ EmptyLine.history = <<>> /\ EmptyLine.hist = 0 /\ EmptyLine.saved = <<>>
  BY <1>2 DEF EmptyLine, Line
<1>4. GoodLine(EmptyLine)
  BY <1>1, <1>2, <1>3 DEF GoodLine
<1>5. room \in 0 .. MAX_LINE
  BY <1>1
<1> QED
  BY <1>1, <1>2, <1>3, <1>4, <1>5 DEF EditorInv

(***************************************************************************)
(* While the user browses the history, the line they left is the saved one *)
(* whatever they do to the entries, and history_down past the newest entry *)
(* gives it back (keyboard_actor.rs, history_up and history_down).         *)
(***************************************************************************)
THEOREM SavedLineKept == Spec => []SavedLine
<1>1. Init => EditorInv /\ LoadInv
  BY EditorStart, RoutingStart DEF IrqInv
<1>2. EditorInv /\ LoadInv /\ [Next]_vars => EditorInv' /\ LoadInv'
  BY EditorStep, LoadStep
<1>3. EditorInv => SavedLine
  BY DEF EditorInv, SavedLine
<1> QED
  BY <1>1, <1>2, <1>3, PTL DEF Spec

(***************************************************************************)
(* The scancode queue, the line and its cursor, the history and every      *)
(* descriptor's scancode buffer stay within their arrays.                  *)
(***************************************************************************)
THEOREM DevicesBounded == Spec => []TypeOK
<1>1. Init => EditorInv /\ IrqInv
  BY EditorStart, RoutingStart
<1>2. EditorInv /\ IrqInv /\ [Next]_vars => EditorInv' /\ IrqInv'
  BY EditorStep, RoutingStep DEF IrqInv
<1>3. EditorInv /\ IrqInv => TypeOK
  <2> SUFFICES ASSUME EditorInv, IrqInv PROVE TypeOK
    OBVIOUS
  <2>1. \A d \in Drivers : Len(drv[d].buf) <= BufSize
    BY DEF IrqInv, RoutingInv, InOrder
  <2>2. GoodLine(line) /\ Len(queue) <= QueueSize
    BY DEF EditorInv
  <2>3. /\ Len(line.buf) <= MAX_LINE /\ line.cursor \in 0 .. Len(line.buf)
        /\ Len(line.history) <= MAX_HISTORY /\ line.hist \in 0 .. Len(line.history)
    BY <2>2, LineTypes DEF GoodLine
  <2> QED
    BY <2>1, <2>2, <2>3 DEF TypeOK
<1> QED
  BY <1>1, <1>2, <1>3, PTL DEF Spec

-----------------------------------------------------------------------------
(***************************************************************************)
(*                             The compositor                              *)
(*                                                                         *)
(* The compositor's locals, and its list of windows: each has an id that   *)
(* was given out, no two have the same.                                    *)
(***************************************************************************)
Drags == [mode : {"none", "move", "resize"}, wid : Nat]

Locals == [pc : {"enter", "drain", "sending"}, next_wid : Nat \ {0}, focused : Nat,
           drag : Drags, button : BOOLEAN, dirty : BOOLEAN]

HasId(w) == "id" \in DOMAIN w

Stack(ws, n) ==
  /\ \E S : ws \in Seq(S)
  /\ \A i \in 1 .. Len(ws) : HasId(ws[i]) /\ ws[i].id \in 1 .. n - 1
  /\ \A i, j \in 1 .. Len(ws) : ws[i].id = ws[j].id => i = j
  /\ Len(ws) <= MAX_WINDOWS

Top(ws) == IF ws = <<>> THEN 0 ELSE Last(ws).id

(***************************************************************************)
(* The inductive invariant: that ids are unique is what makes the window   *)
(* that is raised, closed or given the focus the one that was hit.         *)
(***************************************************************************)
StackInv == comp \in Locals /\ Stack(windows, comp.next_wid) /\ comp.focused = Top(windows)

LEMMA StackFacts ==
    ASSUME NEW ws, NEW n \in Nat, Stack(ws, n)
    PROVE  /\ Len(ws) \in Nat /\ DOMAIN ws = 1 .. Len(ws)
           /\ ws = [i \in 1 .. Len(ws) |-> ws[i]]
           /\ (ws = <<>>) <=> Len(ws) = 0
           /\ Top(ws) = IF Len(ws) = 0 THEN 0 ELSE ws[Len(ws)].id
           /\ Top(ws) \in Nat
<1>1. PICK S : ws \in Seq(S)
  BY DEF Stack
<1>2. /\ Len(ws) \in Nat /\ DOMAIN ws = 1 .. Len(ws) /\ ws = [i \in 1 .. Len(ws) |-> ws[i]]
      /\ (ws = <<>>) <=> Len(ws) = 0
  BY <1>1, LenProperties, EmptySeq
<1>3. Top(ws) = IF Len(ws) = 0 THEN 0 ELSE ws[Len(ws)].id
  BY <1>2 DEF Top, Last
<1>4. CASE Len(ws) = 0
  BY <1>2, <1>3, <1>4
<1>5. CASE Len(ws) # 0
  <2>1. Len(ws) \in 1 .. Len(ws)
    BY <1>2, <1>5
  <2>2. ws[Len(ws)].id \in 1 .. n - 1
    BY <2>1 DEF Stack
  <2> QED
    BY <1>2, <1>3, <1>5, <2>2
<1> QED
  BY <1>4, <1>5

\* A list of the same length is a sequence, and a stack if the ids are the same.
LEMMA SameStack ==
    ASSUME NEW ws, NEW n \in Nat, Stack(ws, n), NEW ws2, NEW m \in Nat, n <= m,
           ws2 = [i \in 1 .. Len(ws) |-> ws2[i]],
           \A i \in 1 .. Len(ws) : HasId(ws2[i]) /\ ws2[i].id = ws[i].id
    PROVE  Stack(ws2, m) /\ Top(ws2) = Top(ws)
<1>1. PICK k : k = Len(ws)
  OBVIOUS
<1>2. k \in Nat /\ (\A i \in 1 .. k : HasId(ws[i]) /\ ws[i].id \in 1 .. n - 1)
      /\ (\A i, j \in 1 .. k : ws[i].id = ws[j].id => i = j) /\ k <= MAX_WINDOWS
  BY <1>1, StackFacts DEF Stack
<1>3. ws2 = [i \in 1 .. k |-> ws2[i]] /\ \A i \in 1 .. k : HasId(ws2[i]) /\ ws2[i].id = ws[i].id
  BY <1>1
<1> DEFINE T == {ws2[i] : i \in 1 .. k}
<1>4. ws2 \in [1 .. k -> T]
  BY <1>3
<1>5. ws2 \in Seq(T)
  <2> HIDE DEF T
  <2> QED
    BY <1>2, <1>4, SeqDef
<1>6. Len(ws2) = k
  <2> HIDE DEF T
  <2> QED
    BY <1>2, <1>4, <1>5, LenProperties
<1>7. Stack(ws2, m)
  <2>1. \A i \in 1 .. k : HasId(ws2[i]) /\ ws2[i].id \in 1 .. m - 1
    BY <1>2, <1>3
  <2>2. \A i, j \in 1 .. k : ws2[i].id = ws2[j].id => i = j
    BY <1>2, <1>3
  <2>3. \E S : ws2 \in Seq(S)
    BY <1>5
  <2> QED
    BY <1>2, <1>6, <2>1, <2>2, <2>3 DEF Stack
<1>8. Top(ws2) = Top(ws)
  <2>1. Top(ws2) = IF k = 0 THEN 0 ELSE ws2[k].id
    BY <1>6, <1>7, StackFacts
  <2>2. Top(ws) = IF k = 0 THEN 0 ELSE ws[k].id
    BY <1>1, StackFacts
  <2>3. k # 0 => k \in 1 .. k
    BY <1>2
  <2> QED
    BY <1>3, <2>1, <2>2, <2>3
<1> QED
  BY <1>7, <1>8

\* What windows.remove(idx) leaves.
LEMMA RemovedStack ==
    ASSUME NEW ws, NEW n \in Nat, Stack(ws, n), NEW i \in 1 .. Len(ws)
    PROVE  /\ Stack(RemoveAt(ws, i), n)
           /\ Len(RemoveAt(ws, i)) = Len(ws) - 1
           /\ i # Len(ws) => Top(RemoveAt(ws, i)) = Top(ws)
           /\ \A j \in 1 .. Len(RemoveAt(ws, i)) : RemoveAt(ws, i)[j].id # ws[i].id
<1>1. PICK S : ws \in Seq(S)
  BY DEF Stack
<1>2. PICK k : k = Len(ws) /\ k \in Nat
  BY StackFacts
<1>3. PICK a, b : a = SubSeq(ws, 1, i - 1) /\ b = SubSeq(ws, i + 1, k)
  OBVIOUS
<1>4. i \in 1 .. k /\ i - 1 \in 0 .. k /\ \A j \in 1 .. k : ws[j] \in S
  BY <1>1, <1>2, ElementOfSeq
<1>5. a \in Seq(S) /\ Len(a) = i - 1 /\ \A j \in 1 .. i - 1 : a[j] = ws[j]
  <2>1. a \in Seq(S) /\ Len(a) = i - 1
    BY <1>1, <1>2, <1>3, <1>4, SplitTypes
  <2>2. \A j \in 1 .. i - 1 : a[j] = ws[j]
    BY <1>1, <1>2, <1>3, <1>4, SplitTypes
  <2> QED
    BY <2>1, <2>2
<1>6. b \in Seq(S) /\ Len(b) = k - i /\ \A j \in 1 .. k - i : b[j] = ws[i + j]
  <2>1. i + 1 \in Int /\ k \in Int /\ \A j \in i + 1 .. k : ws[j] \in S
    BY <1>2, <1>4
  <2>2. /\ b \in Seq(S) /\ Len(b) = IF i + 1 <= k THEN k - (i + 1) + 1 ELSE 0
        /\ \A j \in 1 .. k - (i + 1) + 1 : b[j] = ws[(i + 1) + j - 1]
    BY <1>3, <2>1, SubSeqProperties
  <2> QED
    BY <1>2, <1>4, <2>2
<1>7. PICK r : r = RemoveAt(ws, i) /\ r = a \o b
  BY <1>2, <1>3 DEF RemoveAt
<1>8. r \in Seq(S) /\ Len(r) = k - 1
      /\ \A j \in 1 .. k - 1 : r[j] = IF j <= i - 1 THEN a[j] ELSE b[j - (i - 1)]
  <2>1. a \in Seq(S) /\ b \in Seq(S)
    BY <1>5, <1>6
  <2>2. /\ a \o b \in Seq(S) /\ Len(a \o b) = Len(a) + Len(b)
        /\ \A j \in 1 .. Len(a) + Len(b) : (a \o b)[j] = IF j <= Len(a) THEN a[j] ELSE b[j - Len(a)]
    BY <2>1, ConcatProperties
  <2>3. Len(a) = i - 1 /\ Len(b) = k - i
    BY <1>5, <1>6
  <2>4. Len(a) + Len(b) = k - 1
    BY <1>2, <1>4, <2>3
  <2>5. /\ r \in Seq(S) /\ Len(r) = Len(a) + Len(b)
        /\ \A j \in 1 .. Len(a) + Len(b) : r[j] = IF j <= Len(a) THEN a[j] ELSE b[j - Len(a)]
    BY <2>2, <1>7
  <2> QED
    BY <2>3, <2>4, <2>5
<1> DEFINE at(j) == IF j < i THEN j ELSE j + 1
<1>9. ASSUME NEW j \in 1 .. k - 1 PROVE r[j] = ws[at(j)] /\ at(j) \in 1 .. k /\ at(j) # i
  <2>1. CASE j < i
    BY <1>2, <1>4, <1>5, <1>8, <2>1
  <2>2. CASE ~(j < i)
    <3>1. j - (i - 1) \in 1 .. k - i /\ ~(j <= i - 1) /\ i + (j - (i - 1)) = j + 1
      BY <1>2, <1>4, <2>2
    <3>2. r[j] = b[j - (i - 1)]
      BY <1>8, <3>1
    <3>3. r[j] = ws[i + (j - (i - 1))]
      BY <1>6, <3>1, <3>2
    <3> QED
      BY <1>2, <1>4, <2>2, <3>1, <3>3
  <2> QED
    BY <2>1, <2>2
<1>10. /\ \A j \in 1 .. k : HasId(ws[j]) /\ ws[j].id \in 1 .. n - 1
       /\ \A j, l \in 1 .. k : ws[j].id = ws[l].id => j = l
       /\ k <= MAX_WINDOWS /\ MAX_WINDOWS \in Nat
  BY <1>2, DesktopAssumption DEF Stack
<1>11. \A j, l \in 1 .. k - 1 : at(j) = at(l) => j = l
  BY <1>2, <1>4
<1>12. k = 0 + k /\ (k - 1 # 0 /\ i # k => at(k - 1) = k)
  BY <1>2, <1>4
<1> HIDE DEF at
<1>13. Stack(r, n)
  <2>1. \A j \in 1 .. k - 1 : HasId(r[j]) /\ r[j].id \in 1 .. n - 1
    BY <1>9, <1>10
  <2>2. \A j, l \in 1 .. k - 1 : r[j].id = r[l].id => j = l
    <3> SUFFICES ASSUME NEW j \in 1 .. k - 1, NEW l \in 1 .. k - 1, r[j].id = r[l].id
                 PROVE  j = l
      OBVIOUS
    <3>1. r[j] = ws[at(j)] /\ r[l] = ws[at(l)] /\ at(j) \in 1 .. k /\ at(l) \in 1 .. k
      BY <1>9
    <3>2. at(j) = at(l)
      BY <3>1, <1>10
    <3> QED
      BY <3>2, <1>11
  <2>3. k - 1 <= MAX_WINDOWS
    BY <1>2, <1>10
  <2> QED
    BY <1>8, <2>1, <2>2, <2>3 DEF Stack
<1>14. ASSUME i # k PROVE Top(r) = Top(ws)
  <2>1. k - 1 # 0 /\ k # 0 /\ k - 1 \in 1 .. k - 1
    BY <1>2, <1>4, <1>14
  <2>2. Top(r) = r[k - 1].id /\ Top(ws) = ws[k].id
    BY <1>2, <1>8, <1>13, <2>1, StackFacts
  <2>3. r[k - 1] = ws[k]
    BY <1>9, <1>12, <1>14, <2>1
  <2> QED
    BY <2>2, <2>3
<1>15. \A j \in 1 .. k - 1 : r[j].id # ws[i].id
  BY <1>4, <1>9, <1>10
<1> QED
  BY <1>2, <1>7, <1>8, <1>13, <1>14, <1>15

\* What push adds on top.
LEMMA PushedStack ==
    ASSUME NEW ws, NEW n \in Nat, Stack(ws, n), Len(ws) < MAX_WINDOWS,
           NEW w, HasId(w), NEW m \in Nat, n <= m, w.id \in 1 .. m - 1,
           \A i \in 1 .. Len(ws) : ws[i].id # w.id
    PROVE  Stack(Append(ws, w), m) /\ Top(Append(ws, w)) = w.id
<1>1. PICK S : ws \in Seq(S)
  BY DEF Stack
<1>2. PICK k : k = Len(ws) /\ k \in Nat
  BY StackFacts
<1>3. PICK r : r = Append(ws, w)
  OBVIOUS
<1> DEFINE T == S \cup {w}
<1>4. ws \in Seq(T) /\ w \in T
  <2>1. ws \in [1 .. k -> S]
    BY <1>1, <1>2, LenProperties
  <2>2. ws \in [1 .. k -> T]
    BY <2>1
  <2> HIDE DEF T
  <2>3. ws \in Seq(T)
    BY <1>2, <2>2, SeqDef
  <2> QED
    BY <2>3 DEF T
<1>5. /\ r \in Seq(T) /\ Len(r) = k + 1 /\ r[k + 1] = w
      /\ \A i \in 1 .. k : r[i] = ws[i]
  <2> HIDE DEF T
  <2> QED
    BY <1>2, <1>3, <1>4, AppendProperties
<1> HIDE DEF T
<1>6. /\ \A i \in 1 .. k : HasId(ws[i]) /\ ws[i].id \in 1 .. n - 1 /\ ws[i].id # w.id
      /\ \A i, j \in 1 .. k : ws[i].id = ws[j].id => i = j
      /\ k + 1 <= MAX_WINDOWS
  BY <1>2, DesktopAssumption DEF Stack
<1>7. \A i \in 1 .. k + 1 : i \in 1 .. k \/ i = k + 1
  BY <1>2
<1>8. \A i \in 1 .. k + 1 : HasId(r[i]) /\ r[i].id \in 1 .. m - 1
  BY <1>5, <1>6, <1>7
<1>9. \A i, j \in 1 .. k + 1 : r[i].id = r[j].id => i = j
  BY <1>5, <1>6, <1>7
<1>10. Stack(r, m)
  BY <1>5, <1>6, <1>8, <1>9 DEF Stack
<1>11. Top(r) = w.id
  BY <1>2, <1>5, <1>10, StackFacts
<1> QED
  BY <1>3, <1>10, <1>11

-----------------------------------------------------------------------------
(***************************************************************************)
(* Steps of the compositor.  Those that leave the ids of the windows, the  *)
(* focus and the next id as they were keep the invariant.                  *)
(***************************************************************************)
LEMMA StackKept ==
    ASSUME StackInv, comp' \in Locals, comp'.next_wid >= comp.next_wid,
           comp'.focused = comp.focused,
           windows' = [i \in 1 .. Len(windows) |-> windows'[i]],
           \A i \in 1 .. Len(windows) : HasId(windows'[i]) /\ windows'[i].id = windows[i].id
    PROVE  StackInv'
<1>1. comp.next_wid \in Nat /\ comp'.next_wid \in Nat /\ comp.next_wid <= comp'.next_wid
  BY DEF StackInv, Locals
<1>2. PICK ws, n, ws2, m : ws = windows /\ n = comp.next_wid /\ ws2 = windows' /\ m = comp'.next_wid
  OBVIOUS
<1>3. Stack(ws2, m) /\ Top(ws2) = Top(ws)
  BY <1>1, <1>2, SameStack DEF StackInv
<1>4. Stack(windows, comp.next_wid)'
  BY <1>2, <1>3 DEF Stack
<1>5. Top(windows)' = Top(windows)
  BY <1>2, <1>3 DEF Top
<1> QED
  BY <1>4, <1>5 DEF StackInv

LEMMA WindowsStill ==
    ASSUME StackInv, comp' \in Locals, comp'.next_wid >= comp.next_wid,
           comp'.focused = comp.focused, UNCHANGED windows
    PROVE  StackInv'
<1>1. comp.next_wid \in Nat /\ Stack(windows, comp.next_wid)
  BY DEF StackInv, Locals
<1>2. windows = [i \in 1 .. Len(windows) |-> windows[i]]
  BY <1>1, StackFacts
<1>3. \A i \in 1 .. Len(windows) : HasId(windows[i])
  BY <1>1 DEF Stack
<1> QED
  BY <1>2, <1>3, StackKept

\* A change of another field of one window.
LEMMA FieldSet ==
    ASSUME StackInv, NEW i \in DOMAIN windows, NEW w,
           HasId(w), w.id = windows[i].id, windows' = [windows EXCEPT ![i] = w],
           comp' \in Locals, comp'.next_wid >= comp.next_wid, comp'.focused = comp.focused
    PROVE  StackInv'
<1>1. comp.next_wid \in Nat /\ Stack(windows, comp.next_wid)
  BY DEF StackInv, Locals
<1>2. DOMAIN windows = 1 .. Len(windows)
  BY <1>1, StackFacts
<1>3. windows' = [j \in 1 .. Len(windows) |-> windows'[j]]
  BY <1>2
<1>4. \A j \in 1 .. Len(windows) : HasId(windows[j])
  BY <1>1 DEF Stack
<1>5. \A j \in 1 .. Len(windows) : windows'[j] = IF j = i THEN w ELSE windows[j]
  BY <1>2
<1>6. \A j \in 1 .. Len(windows) : HasId(windows'[j]) /\ windows'[j].id = windows[j].id
  BY <1>4, <1>5
<1> QED
  BY <1>3, <1>6, StackKept

LEMMA WindowFound ==
    ASSUME NEW wid, Open(wid)
    PROVE  WindowOf(wid) \in DOMAIN windows /\ windows[WindowOf(wid)].id = wid
BY DEF Open, WindowOf

\* Copying the messages to the windows' buffers.
LEMMA EnterKept ==
    ASSUME StackInv, Enter
    PROVE  StackInv'
<1>1. comp.next_wid \in Nat /\ Stack(windows, comp.next_wid)
  BY DEF StackInv, Locals
<1>2. DOMAIN windows = 1 .. Len(windows) /\ \A i \in 1 .. Len(windows) : HasId(windows[i])
  BY <1>1, StackFacts DEF Stack
<1>3. windows' = [i \in 1 .. Len(windows) |-> [windows[i] EXCEPT !.cmd = Written(i)]]
  BY <1>2 DEF Enter
<1>4. \A i \in 1 .. Len(windows) : windows'[i] = [windows[i] EXCEPT !.cmd = Written(i)]
  BY <1>3
<1>5. \A i \in 1 .. Len(windows) : HasId(windows'[i]) /\ windows'[i].id = windows[i].id
  BY <1>2, <1>4 DEF HasId
<1>6. windows' = [i \in 1 .. Len(windows) |-> windows'[i]]
  BY <1>3
<1>7. comp' = [comp EXCEPT !.pc = "drain"]
  BY DEF Enter
<1>8. comp' \in Locals /\ comp'.next_wid >= comp.next_wid /\ comp'.focused = comp.focused
  BY <1>7 DEF StackInv, Locals
<1> QED
  BY <1>5, <1>6, <1>8, StackKept

\* A new window is on top and has the focus.
LEMMA ConnectKept ==
    ASSUME StackInv, HandleConnect
    PROVE  StackInv'
<1>1. /\ comp \in Locals /\ comp.next_wid \in Nat \ {0} /\ Stack(windows, comp.next_wid)
  BY DEF StackInv, Locals
<1>2. CASE /\ UNCHANGED windows
           /\ \/ comp' = [comp EXCEPT !.dirty = TRUE]
              \/ comp' = [comp EXCEPT !.dirty = TRUE, !.next_wid = @ + 1]
  <2>1. CASE comp' = [comp EXCEPT !.dirty = TRUE]
    <3>1. comp' \in Locals /\ comp'.next_wid = comp.next_wid /\ comp'.focused = comp.focused
      BY <1>1, <2>1 DEF Locals
    <3>2. comp'.next_wid >= comp.next_wid
      BY <1>1, <3>1
    <3> QED
      BY <1>2, <3>1, <3>2, WindowsStill
  <2>2. CASE comp' = [comp EXCEPT !.dirty = TRUE, !.next_wid = @ + 1]
    <3>1. PICK m : m = comp.next_wid + 1
      OBVIOUS
    <3>2. m \in Nat \ {0} /\ m >= comp.next_wid
      BY <1>1, <3>1
    <3>3. comp' = [comp EXCEPT !.dirty = TRUE, !.next_wid = m]
      BY <2>2, <3>1
    <3>4. comp' \in Locals /\ comp'.next_wid = m /\ comp'.focused = comp.focused
      BY <1>1, <3>2, <3>3 DEF Locals
    <3> QED
      BY <1>2, <3>2, <3>4, WindowsStill
  <2> QED
    BY <1>2, <2>1, <2>2
<1>3. CASE /\ Len(windows) < MAX_WINDOWS
           /\ comp' = [comp EXCEPT !.dirty = TRUE, !.next_wid = @ + 1, !.focused = comp.next_wid]
           /\ \E c : windows' = Append(windows, NewWindow(c))
  <2>1. comp' \in Locals /\ comp'.next_wid = comp.next_wid + 1 /\ comp'.focused = comp.next_wid
    <3>1. PICK n, m : n = comp.next_wid /\ m = comp.next_wid + 1
      OBVIOUS
    <3>2. n \in Nat /\ m \in Nat \ {0}
      BY <1>1, <3>1
    <3>3. comp' = [comp EXCEPT !.dirty = TRUE, !.next_wid = m, !.focused = n]
      BY <1>3, <3>1
    <3>4. comp' \in Locals /\ comp'.next_wid = m /\ comp'.focused = n
      BY <1>1, <3>2, <3>3 DEF Locals
    <3> QED
      BY <3>1, <3>4
  <2>2. PICK w : windows' = Append(windows, w) /\ HasId(w) /\ w.id = comp.next_wid
    BY <1>3 DEF NewWindow, HasId
  <2>3. PICK ws, n, m : ws = windows /\ n = comp.next_wid /\ m = comp.next_wid + 1
    OBVIOUS
  <2>4. n \in Nat /\ m \in Nat /\ n <= m /\ w.id \in 1 .. m - 1 /\ Stack(ws, n) /\ Len(ws) < MAX_WINDOWS
    BY <1>1, <1>3, <2>2, <2>3
  <2>5. \A i \in 1 .. Len(ws) : ws[i].id # w.id
    <3>1. \A i \in 1 .. Len(ws) : ws[i].id \in 1 .. n - 1
      BY <2>4 DEF Stack
    <3> QED
      BY <2>2, <2>3, <2>4, <3>1
  <2>6. Stack(Append(ws, w), m) /\ Top(Append(ws, w)) = w.id
    BY <2>2, <2>4, <2>5, PushedStack
  <2>7. Stack(windows, comp.next_wid)'
    BY <2>1, <2>2, <2>3, <2>6 DEF Stack
  <2>8. Top(windows)' = w.id
    BY <2>2, <2>3, <2>6 DEF Top
  <2> QED
    BY <2>1, <2>2, <2>7, <2>8 DEF StackInv
<1> QED
  BY <1>2, <1>3 DEF HandleConnect

\* windows.retain and the choice of the next focus.
LEMMA ClosedKept ==
    ASSUME StackInv, NEW i \in DOMAIN windows, NEW k \in Locals,
           k.next_wid = comp.next_wid,
           k.focused = comp.focused \/ k.focused = windows[i].id,
           Closed(k, windows[i].id)
    PROVE  StackInv'
<1>1. comp \in Locals /\ comp.next_wid \in Nat \ {0} /\ Stack(windows, comp.next_wid)
      /\ comp.focused = Top(windows)
  BY DEF StackInv, Locals
<1>2. /\ DOMAIN windows = 1 .. Len(windows) /\ Len(windows) \in Nat
      /\ Top(windows) = IF Len(windows) = 0 THEN 0 ELSE windows[Len(windows)].id
  BY <1>1, StackFacts
<1>3. WindowOf(windows[i].id) = i
  <2>1. Open(windows[i].id)
    BY DEF Open
  <2>2. /\ WindowOf(windows[i].id) \in DOMAIN windows
        /\ windows[WindowOf(windows[i].id)].id = windows[i].id
    BY <2>1, WindowFound
  <2> QED
    BY <1>1, <1>2, <2>2 DEF Stack
<1>4. PICK rest, j : rest = RemoveAt(windows, i) /\ j = windows[i].id
  OBVIOUS
<1>5. /\ Stack(rest, comp.next_wid)
      /\ i # Len(windows) => Top(rest) = Top(windows)
  BY <1>1, <1>2, <1>4, RemovedStack
<1>6. /\ windows' = rest
      /\ comp' = [k EXCEPT !.dirty = TRUE, !.focused = IF k.focused # j THEN k.focused ELSE Top(rest)]
  BY <1>3, <1>4 DEF Closed, Top
<1>7. Top(rest) \in Nat
  BY <1>1, <1>5, StackFacts
<1>8. /\ comp' \in Locals /\ comp'.next_wid = comp.next_wid
      /\ comp'.focused = IF k.focused # j THEN k.focused ELSE Top(rest)
  BY <1>6, <1>7 DEF Locals
<1>9. comp'.focused = Top(rest)
  <2>1. CASE k.focused = j
    BY <1>8, <2>1
  <2>2. CASE k.focused # j
    <3>1. i # Len(windows)
      BY <1>1, <1>2, <1>4, <2>2
    <3> QED
      BY <1>1, <1>4, <1>5, <1>8, <2>2, <3>1
  <2> QED
    BY <2>1, <2>2
<1>10. Stack(windows, comp.next_wid)'
  BY <1>5, <1>6, <1>8 DEF Stack
<1>11. Top(windows)' = Top(rest)
  BY <1>6 DEF Top
<1> QED
  BY <1>8, <1>9, <1>10, <1>11 DEF StackInv

LEMMA CommandKept ==
    ASSUME StackInv, HandleCommand
    PROVE  StackInv'
<1>1. comp \in Locals /\ comp.next_wid \in Nat
  BY DEF StackInv, Locals
<1>2. PICK wid : /\ wid = Head(cq).ud - TAG_CMD_BASE
                 /\ \/ UNCHANGED <<windows, comp>>
                    \/ Open(wid) /\ Closed(comp, wid)
                    \/ /\ Open(wid)
                       /\ \E b \in BOOLEAN : comp' = [comp EXCEPT !.dirty = b]
                       /\ windows' = [windows EXCEPT ![WindowOf(wid)].cmd = "none"]
  <2>1. comp.dirty \in BOOLEAN
    BY <1>1 DEF Locals
  <2> QED
    BY <2>1 DEF HandleCommand
<1>3. CASE UNCHANGED <<windows, comp>>
  BY <1>1, <1>3, WindowsStill
<1>4. CASE Open(wid) /\ Closed(comp, wid)
  <2>1. PICK i \in DOMAIN windows : windows[i].id = wid
    BY <1>4 DEF Open
  <2> QED
    BY <1>1, <1>4, <2>1, ClosedKept
<1>5. CASE /\ Open(wid)
           /\ \E b \in BOOLEAN : comp' = [comp EXCEPT !.dirty = b]
           /\ windows' = [windows EXCEPT ![WindowOf(wid)].cmd = "none"]
  <2>1. PICK i \in DOMAIN windows : i = WindowOf(wid)
    BY <1>5, WindowFound
  <2>2. PICK w : w = [windows[i] EXCEPT !.cmd = "none"]
    OBVIOUS
  <2>3. windows' = [windows EXCEPT ![i] = w]
    BY <1>5, <2>1, <2>2
  <2>4. HasId(windows[i])
    BY <1>1, StackFacts DEF StackInv, Stack
  <2>5. HasId(w) /\ w.id = windows[i].id
    BY <2>2, <2>4 DEF HasId
  <2>6. PICK b \in BOOLEAN : comp' = [comp EXCEPT !.dirty = b]
    BY <1>5
  <2>7. comp' \in Locals /\ comp'.next_wid = comp.next_wid /\ comp'.focused = comp.focused
    BY <1>1, <2>6 DEF Locals
  <2>8. comp'.next_wid >= comp.next_wid
    BY <1>1, <2>7
  <2> QED
    BY <2>3, <2>5, <2>7, <2>8, FieldSet
<1> QED
  BY <1>2, <1>3, <1>4, <1>5

\* A window that is hit comes to the top with the focus, or is closed.
LEMMA PressKept ==
    ASSUME StackInv, Press
    PROVE  StackInv'
<1>1. comp \in Locals /\ comp.next_wid \in Nat \ {0} /\ Stack(windows, comp.next_wid)
  BY DEF StackInv, Locals
<1>2. /\ DOMAIN windows = 1 .. Len(windows) /\ Len(windows) \in Nat
      /\ MAX_WINDOWS \in Nat /\ Len(windows) <= MAX_WINDOWS
  BY <1>1, StackFacts, DesktopAssumption DEF Stack
<1>3. \A i \in DOMAIN windows : HasId(windows[i]) /\ windows[i].id \in 1 .. comp.next_wid - 1
  BY <1>1, <1>2 DEF Stack
<1>4. CASE comp' = [comp EXCEPT !.button = TRUE] /\ UNCHANGED windows
  <2>1. comp' \in Locals /\ comp'.next_wid = comp.next_wid /\ comp'.focused = comp.focused
    BY <1>1, <1>4 DEF Locals
  <2>2. comp'.next_wid >= comp.next_wid
    BY <1>1, <2>1
  <2> QED
    BY <1>4, <2>1, <2>2, WindowsStill
<1>5. ASSUME NEW i \in DOMAIN windows, windows' = Raised(i),
             NEW d \in Drags,
             comp' = [comp EXCEPT !.button = TRUE, !.dirty = TRUE, !.focused = windows[i].id,
                                  !.drag = d]
      PROVE  StackInv'
  <2>1. windows[i].id \in Nat
    BY <1>1, <1>3
  <2>2. comp' \in Locals /\ comp'.next_wid = comp.next_wid /\ comp'.focused = windows[i].id
    BY <1>1, <1>5, <2>1 DEF Locals
  <2>3. PICK rest, w, n : rest = RemoveAt(windows, i) /\ w = windows[i] /\ n = comp.next_wid
    OBVIOUS
  <2>4. /\ Stack(rest, n) /\ Len(rest) = Len(windows) - 1
        /\ \A j \in 1 .. Len(rest) : rest[j].id # w.id
    BY <1>1, <1>2, <2>3, RemovedStack
  <2>5. n \in Nat /\ n <= n /\ HasId(w) /\ w.id \in 1 .. n - 1 /\ Len(rest) < MAX_WINDOWS
    BY <1>1, <1>2, <1>3, <2>3, <2>4
  <2>6. Stack(Append(rest, w), n) /\ Top(Append(rest, w)) = w.id
    BY <2>4, <2>5, PushedStack
  <2>7. windows' = Append(rest, w)
    BY <1>5, <2>3 DEF Raised
  <2>8. Stack(windows, comp.next_wid)'
    BY <2>2, <2>3, <2>6, <2>7 DEF Stack
  <2>9. Top(windows)' = w.id
    BY <2>6, <2>7 DEF Top
  <2> QED
    BY <2>2, <2>3, <2>8, <2>9 DEF StackInv
<1>6. ASSUME NEW i \in DOMAIN windows,
             Closed([comp EXCEPT !.button = TRUE, !.focused = windows[i].id], windows[i].id)
      PROVE  StackInv'
  <2>1. windows[i].id \in Nat
    BY <1>1, <1>3
  <2>2. PICK k : k = [comp EXCEPT !.button = TRUE, !.focused = windows[i].id]
    OBVIOUS
  <2>3. k \in Locals /\ k.next_wid = comp.next_wid /\ k.focused = windows[i].id
    BY <1>1, <2>1, <2>2 DEF Locals
  <2> QED
    BY <1>6, <2>2, <2>3, ClosedKept
<1>7. ASSUME NEW i \in DOMAIN windows, NEW zone \in WindowZones \cap budget.hits
      PROVE  (IF zone = "content" THEN NoDrag
              ELSE [mode |-> IF zone = "title" THEN "move" ELSE "resize", wid |-> windows[i].id])
               \in Drags
  <2>1. windows[i].id \in Nat
    BY <1>1, <1>3
  <2> QED
    BY <2>1 DEF NoDrag, Drags
<1> QED
  BY <1>4, <1>5, <1>6, <1>7 DEF Press

LEMMA MouseKept ==
    ASSUME StackInv, Move \/ Release \/ ResizeStart
    PROVE  StackInv'
<1>1. comp \in Locals
  BY DEF StackInv
<1>2. UNCHANGED windows
  BY DEF Move, Release, ResizeStart
<1>3. \/ comp' = comp \/ comp' = [comp EXCEPT !.dirty = TRUE]
      \/ \E b \in BOOLEAN : comp' = [comp EXCEPT !.button = b]
      \/ comp' = [comp EXCEPT !.button = FALSE, !.dirty = TRUE, !.drag = NoDrag]
      \/ comp' = [comp EXCEPT !.pc = "sending"]
  BY DEF Move, Release, ResizeStart, Released
<1>4. comp' \in Locals /\ comp'.next_wid = comp.next_wid /\ comp'.focused = comp.focused
  <2>1. NoDrag \in Drags
    BY DEF NoDrag, Drags
  <2>2. CASE comp' = comp
    BY <1>1, <2>2
  <2>3. CASE comp' = [comp EXCEPT !.dirty = TRUE]
    BY <1>1, <2>3 DEF Locals
  <2>4. CASE \E b \in BOOLEAN : comp' = [comp EXCEPT !.button = b]
    <3>1. PICK b \in BOOLEAN : comp' = [comp EXCEPT !.button = b]
      BY <2>4
    <3> QED
      BY <1>1, <3>1 DEF Locals
  <2>5. CASE comp' = [comp EXCEPT !.button = FALSE, !.dirty = TRUE, !.drag = NoDrag]
    BY <1>1, <2>1, <2>5 DEF Locals
  <2>6. CASE comp' = [comp EXCEPT !.pc = "sending"]
    BY <1>1, <2>6 DEF Locals
  <2> QED
    BY <1>3, <2>2, <2>3, <2>4, <2>5, <2>6
<1>5. comp'.next_wid >= comp.next_wid
  BY <1>1, <1>4 DEF Locals
<1> QED
  BY <1>2, <1>4, <1>5, WindowsStill

\* finalize_resize gives a window another buffer.
LEMMA ResizeKept ==
    ASSUME StackInv, ResizeSent
    PROVE  StackInv'
<1>1. comp \in Locals /\ comp.next_wid \in Nat
  BY DEF StackInv, Locals
<1>2. PICK i : i = WindowOf(comp.drag.wid)
  OBVIOUS
<1>3. PICK g : windows' = [windows EXCEPT ![i] = [windows[i] EXCEPT !.gen = g]]
  BY <1>2 DEF ResizeSent
<1>4. NoDrag \in Drags
  BY DEF NoDrag, Drags
<1>5. PICK k : k = [comp EXCEPT !.button = FALSE, !.dirty = TRUE, !.drag = NoDrag]
  OBVIOUS
<1>6. k \in Locals /\ k.next_wid = comp.next_wid /\ k.focused = comp.focused
  BY <1>1, <1>4, <1>5 DEF Locals
<1>7. comp' = [k EXCEPT !.pc = "drain"]
  BY <1>5 DEF ResizeSent, Released
<1>8. comp' \in Locals /\ comp'.next_wid = comp.next_wid /\ comp'.focused = comp.focused
  BY <1>6, <1>7 DEF Locals
<1>9. comp'.next_wid >= comp.next_wid
  BY <1>1, <1>8
<1>10. CASE i \in DOMAIN windows
  <2>1. PICK w : w = [windows[i] EXCEPT !.gen = g]
    OBVIOUS
  <2>2. HasId(windows[i])
    BY <1>1, <1>10, StackFacts DEF StackInv, Stack
  <2>3. HasId(w) /\ w.id = windows[i].id
    BY <2>1, <2>2 DEF HasId
  <2> QED
    BY <1>3, <1>8, <1>9, <1>10, <2>1, <2>3, FieldSet
<1>11. CASE i \notin DOMAIN windows
  <2>1. windows = [j \in DOMAIN windows |-> windows[j]]
    BY <1>1, StackFacts DEF StackInv
  <2>2. windows' = windows
    BY <1>3, <1>11, <2>1
  <2> QED
    BY <1>8, <1>9, <2>2, WindowsStill
<1> QED
  BY <1>10, <1>11

\* Clients and devices leave the compositor's windows and locals alone.
LEMMA OthersStill ==
    ASSUME NEW c, ClientStep(c) \/ KeyPressed \/ MouseMoved
                  \/ Connect(c) \/ ShellOutput(c) \/ ShellClosed(c) \/ DemoExit(c)
    PROVE  UNCHANGED <<windows, comp>>
BY DEF ClientStep, Created, Turn, Signal, Send, KeyPressed, MouseMoved, Connect, ShellOutput,
       ShellClosed, DemoExit

LEMMA StackStep ==
    ASSUME StackInv, [DesktopNext]_desktopVars
    PROVE  StackInv'
<1>1. comp \in Locals /\ comp.next_wid \in Nat
  BY DEF StackInv, Locals
<1>2. ASSUME UNCHANGED <<windows, comp>> PROVE StackInv'
  BY <1>1, <1>2, WindowsStill
<1>3. ASSUME HandleDamage \/ HandleKey \/ Paint PROVE StackInv'
  <2>1. UNCHANGED windows
    BY <1>3 DEF HandleDamage, HandleKey, Paint
  <2>2. \/ comp' = comp \/ comp' = [comp EXCEPT !.dirty = TRUE]
        \/ comp' = [comp EXCEPT !.pc = "enter", !.dirty = FALSE]
    BY <1>3 DEF HandleDamage, HandleKey, Paint
  <2>3. CASE comp' = comp
    BY <1>2, <2>1, <2>3
  <2>4. CASE comp' = [comp EXCEPT !.dirty = TRUE]
    <3>1. comp' \in Locals /\ comp'.next_wid = comp.next_wid /\ comp'.focused = comp.focused
      BY <1>1, <2>4 DEF Locals
    <3>2. comp'.next_wid >= comp.next_wid
      BY <1>1, <3>1
    <3> QED
      BY <2>1, <3>1, <3>2, WindowsStill
  <2>5. CASE comp' = [comp EXCEPT !.pc = "enter", !.dirty = FALSE]
    <3>1. comp' \in Locals /\ comp'.next_wid = comp.next_wid /\ comp'.focused = comp.focused
      BY <1>1, <2>5 DEF Locals
    <3>2. comp'.next_wid >= comp.next_wid
      BY <1>1, <3>1
    <3> QED
      BY <2>1, <3>1, <3>2, WindowsStill
  <2> QED
    BY <2>2, <2>3, <2>4, <2>5
<1>4. CASE Compositor
  BY <1>3, <1>4, EnterKept, ConnectKept, CommandKept, PressKept, MouseKept, ResizeKept
  DEF Compositor
<1>5. CASE \E c \in Clients : ClientStep(c)
  BY <1>2, <1>5, OthersStill
<1>6. CASE Environment
  BY <1>2, <1>6, OthersStill DEF Environment
<1>7. CASE UNCHANGED desktopVars
  BY <1>2, <1>7 DEF desktopVars
<1> QED
  BY <1>4, <1>5, <1>6, <1>7 DEF DesktopNext

LEMMA StackStart == DesktopInit => StackInv
<1> SUFFICES ASSUME DesktopInit PROVE StackInv
  OBVIOUS
<1>1. windows = <<>> /\ comp.next_wid = 1 /\ comp.focused = 0
  BY DEF DesktopInit
<1>2. comp \in Locals
  BY DEF DesktopInit, Locals, NoDrag, Drags
<1>3. Len(windows) = 0 /\ \E S : windows \in Seq(S)
  BY <1>1, EmptySeq
<1>4. Stack(windows, comp.next_wid)
  BY <1>3, DesktopAssumption DEF Stack
<1> QED
  BY <1>1, <1>2, <1>4 DEF StackInv, Top

(***************************************************************************)
(* The focused window is always the topmost one, and keys go nowhere only  *)
(* when no window is open, for any number of clients and in whatever order *)
(* windows are opened, clicked on, raised and closed (the compositor's     *)
(* handle_connect, its mouse handler and MSG_CLOSE).                       *)
(***************************************************************************)
THEOREM FocusOnTop == DesktopSpec => []FocusIsTop
<1>1. DesktopInit => StackInv
  BY StackStart
<1>2. StackInv /\ [DesktopNext]_desktopVars => StackInv'
  BY StackStep
<1>3. StackInv => FocusIsTop
  BY DEF StackInv, Top, FocusIsTop
<1> QED
  BY <1>1, <1>2, <1>3, PTL DEF DesktopSpec

(***************************************************************************)
(* There are at most MAX_WINDOWS windows, no two have the same id, and all *)
(* ids are below the next one that handle_connect gives out: an event or   *)
(* command queued under an id (TAG_DAMAGE_BASE + id, TAG_CMD_BASE + id)    *)
(* finds one window at most, and windows.retain takes out one.             *)
(***************************************************************************)
THEOREM WindowIdsUnique == DesktopSpec => []Stack(windows, comp.next_wid)
<1>1. DesktopInit => StackInv
  BY StackStart
<1>2. StackInv /\ [DesktopNext]_desktopVars => StackInv'
  BY StackStep
<1>3. StackInv => Stack(windows, comp.next_wid)
  BY DEF StackInv
<1> QED
  BY <1>1, <1>2, <1>3, PTL DEF DesktopSpec
=============================================================================
