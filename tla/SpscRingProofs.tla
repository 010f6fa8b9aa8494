--------------------------- MODULE SpscRingProofs ---------------------------
(***************************************************************************)
(* The shared-memory ring is a bounded FIFO for every capacity, every      *)
(* width of the counters that is a multiple of it, and every batch size;   *)
(* and len() is at most the capacity when the two sides alone call it.     *)
(***************************************************************************)
EXTENDS SpscRing, Integers, SequenceTheorems, TLAPS

(***************************************************************************)
(* The head a push has loaded may be old, so that it sees the ring fuller  *)
(* than it is, never emptier; an entry written and not yet published is in *)
(* the slot after the last.                                                *)
(***************************************************************************)
ProducerInv ==
    /\ p_pc # "idle" => /\ Sub(tail, head) <= Sub(tail, p_head)
                        /\ Sub(tail, p_head) <= EntryCount
    /\ p_pc = "written" => /\ Sub(tail, p_head) < EntryCount
                           /\ slots[Slot(tail)] = p_entry

(***************************************************************************)
(* The tail a pop has loaded may be old, so that it sees the ring emptier  *)
(* than it is, never fuller; what it has read is still in the ring.        *)
(***************************************************************************)
ConsumerInv ==
    c_pc = "loaded" =>
        /\ Sub(c_tail, head) <= Sub(tail, head)
        /\ Len(c_got) <= Count
        /\ \A i \in 1 .. Len(c_got) : c_got[i] = slots[Slot(Add(head, i - 1))]

(***************************************************************************)
(* A side that is inside len() does nothing else meanwhile.                *)
(***************************************************************************)
ObserverInv ==
    /\ Measuring("producer") => p_pc = "idle" /\ l_tail["producer"] = tail
    /\ Measuring("consumer") =>
          c_pc = "idle" /\ Sub(l_tail["consumer"], head) <= Sub(tail, head)

(***************************************************************************)
(* The inductive invariant.                                                *)
(***************************************************************************)
RingInv ==
    /\ TypeOK
    /\ Sub(tail, head) <= EntryCount
    /\ ProducerInv
    /\ ConsumerInv
    /\ ObserverInv

-----------------------------------------------------------------------------
(***************************************************************************)
(* The counters wrap: what wrapping_add and wrapping_sub of ring.rs return *)
(* without the modulus.                                                    *)
(***************************************************************************)
LEMMA Wrapping ==
    /\ Modulus \in Nat /\ EntryCount \in Nat \ {0}
    /\ EntryCount < Modulus /\ Modulus \notin Index
    /\ \A a, n \in Index : /\ Add(a, n) \in Index
                           /\ Add(a, n) = IF a + n < Modulus THEN a + n
                                                             ELSE a + n - Modulus
    /\ \A a, b \in Index : /\ Sub(a, b) \in Index /\ Sub(a, b) \in Nat
                           /\ Sub(a, b) = IF a >= b THEN a - b
                                                    ELSE a - b + Modulus
<1>1. PICK k \in 2 .. Modulus : Modulus = k * EntryCount
  BY SpscRingAssumption
<1>2. EntryCount \in Nat \ {0}
  BY SpscRingAssumption
<1>3. Modulus \in Nat /\ EntryCount < Modulus
  <2>1. k \in Nat /\ k >= 2 /\ Modulus \in Int
    BY <1>1, <1>2
  <2>2. k * EntryCount >= 2 * EntryCount
    BY <2>1, <1>2
  <2> QED
    BY <2>1, <2>2, <1>1, <1>2
<1>4. \A x \in Nat : /\ x < Modulus => x % Modulus = x
                     /\ x >= Modulus /\ x < Modulus + Modulus
                            => x % Modulus = x - Modulus
  BY <1>2, <1>3
<1>5. ASSUME NEW a \in Index, NEW n \in Index
      PROVE  Add(a, n) = IF a + n < Modulus THEN a + n ELSE a + n - Modulus
  <2>1. PICK x \in Nat : x = a + n /\ x < Modulus + Modulus
    BY <1>3 DEF Index
  <2>2. x % Modulus = IF x < Modulus THEN x ELSE x - Modulus
    BY <1>3, <1>4, <2>1
  <2>3. Add(a, n) = IF x < Modulus THEN x ELSE x - Modulus
    BY <2>1, <2>2 DEF Add
  <2> QED
    BY <2>1, <2>3, <1>3 DEF Index
<1>6. ASSUME NEW a \in Index, NEW b \in Index
      PROVE  Sub(a, b) = IF a >= b THEN a - b ELSE a - b + Modulus
  <2>1. PICK x \in Nat : x = a + Modulus - b /\ x < Modulus + Modulus
    BY <1>3 DEF Index
  <2>2. x % Modulus = IF x < Modulus THEN x ELSE x - Modulus
    BY <1>3, <1>4, <2>1
  <2>3. Sub(a, b) = IF x < Modulus THEN x ELSE x - Modulus
    BY <2>1, <2>2 DEF Sub
  <2> QED
    BY <2>1, <2>3, <1>3 DEF Index
<1> QED
  BY <1>2, <1>3, <1>5, <1>6 DEF Index

(***************************************************************************)
(* Moving along the ring: n entries on from b, the distance to a is n less *)
(* (pop and the batch of io_ring_enter advance head, push advances tail).  *)
(***************************************************************************)
LEMMA Moving ==
    ASSUME NEW a \in Index, NEW b \in Index, NEW n \in Nat
    PROVE  /\ n <= Sub(a, b) => /\ Add(b, n) \in Index
                                /\ Sub(a, Add(b, n)) = Sub(a, b) - n
           /\ Sub(a, b) + n < Modulus => /\ Add(a, n) \in Index
                                         /\ Sub(Add(a, n), b) = Sub(a, b) + n
<1>1. /\ Modulus \in Nat /\ a \in 0 .. (Modulus - 1) /\ b \in 0 .. (Modulus - 1)
      /\ Sub(a, b) = IF a >= b THEN a - b ELSE a - b + Modulus
  BY Wrapping DEF Index
<1>2. ASSUME n <= Sub(a, b)
      PROVE  Add(b, n) \in Index /\ Sub(a, Add(b, n)) = Sub(a, b) - n
  <2>1. n \in Index
    BY <1>1, <1>2 DEF Index
  <2>2. PICK h \in Index : h = Add(b, n)
    BY <2>1, Wrapping
  <2>3. h = IF b + n < Modulus THEN b + n ELSE b + n - Modulus
    BY <2>1, <2>2, Wrapping
  <2>4. Sub(a, h) = IF a >= h THEN a - h ELSE a - h + Modulus
    BY Wrapping
  <2>5. h \in 0 .. (Modulus - 1)
    BY DEF Index
  <2>6. Sub(a, h) = Sub(a, b) - n
    BY <1>1, <1>2, <2>3, <2>4, <2>5
  <2> QED
    BY <2>2, <2>6
<1>3. ASSUME Sub(a, b) + n < Modulus
      PROVE  Add(a, n) \in Index /\ Sub(Add(a, n), b) = Sub(a, b) + n
  <2>1. n \in Index
    BY <1>1, <1>3 DEF Index
  <2>2. PICK h \in Index : h = Add(a, n)
    BY <2>1, Wrapping
  <2>3. h = IF a + n < Modulus THEN a + n ELSE a + n - Modulus
    BY <2>1, <2>2, Wrapping
  <2>4. Sub(h, b) = IF h >= b THEN h - b ELSE h - b + Modulus
    BY Wrapping
  <2>5. h \in 0 .. (Modulus - 1)
    BY DEF Index
  <2>6. Sub(h, b) = Sub(a, b) + n
    BY <1>1, <1>3, <2>3, <2>4, <2>5
  <2> QED
    BY <2>2, <2>6
<1> QED
  BY <1>2, <1>3

(***************************************************************************)
(* Two additions to a counter are one (the loop over a batch adds i to the *)
(* head, the release adds the count).                                      *)
(***************************************************************************)
LEMMA AddTwice ==
    ASSUME NEW a \in Index, NEW m \in Nat, NEW n \in Nat, m + n < Modulus
    PROVE  Add(Add(a, m), n) = Add(a, m + n)
<1>1. Modulus \in Nat /\ a \in 0 .. (Modulus - 1)
  BY Wrapping DEF Index
<1>2. m \in Index /\ n \in Index /\ m + n \in Index
  BY <1>1 DEF Index
<1>3. PICK h \in Index : h = Add(a, m)
  BY <1>2, Wrapping
<1>4. h = IF a + m < Modulus THEN a + m ELSE a + m - Modulus
  BY <1>2, <1>3, Wrapping
<1>5. Add(h, n) = IF h + n < Modulus THEN h + n ELSE h + n - Modulus
  BY <1>2, Wrapping
<1>6. PICK s \in Index : s = m + n
  BY <1>2
<1>7. Add(a, s) = IF a + s < Modulus THEN a + s ELSE a + s - Modulus
  BY Wrapping
<1>8. Add(h, n) = Add(a, s)
  BY <1>1, <1>4, <1>5, <1>6, <1>7
<1> QED
  BY <1>3, <1>6, <1>8

(***************************************************************************)
(* Two counters that are less than a capacity apart have different slots:  *)
(* the capacity divides the modulus, so wrapping does not disturb them.    *)
(***************************************************************************)
LEMMA SlotsDiffer ==
    ASSUME NEW a \in Index, NEW b \in Index,
           Sub(a, b) \in 1 .. (EntryCount - 1)
    PROVE  Slot(a) # Slot(b)
<1>1. PICK k \in 2 .. Modulus : Modulus = k * EntryCount
  BY SpscRingAssumption
<1> DEFINE d == Sub(a, b)
           p == a \div EntryCount
           q == b \div EntryCount
<1>2. /\ Modulus \in Nat /\ EntryCount \in Nat \ {0} /\ k \in Nat
      /\ a \in Nat /\ b \in Nat /\ d \in 1 .. (EntryCount - 1)
      /\ d = a - b \/ d = a - b + Modulus
  BY <1>1, Wrapping DEF Index
<1>3. /\ p \in Int /\ a = (EntryCount * p) + (a % EntryCount)
      /\ q \in Int /\ b = (EntryCount * q) + (b % EntryCount)
  BY <1>2
<1> HIDE DEF d, p, q
<1>4. SUFFICES ASSUME a % EntryCount = b % EntryCount PROVE FALSE
  BY DEF Slot
<1>5. \E m \in Int : d = EntryCount * m
  <2>1. a % EntryCount \in Int
    BY <1>2
  <2>2. a - b = EntryCount * (p - q)
    BY <1>2, <1>3, <1>4, <2>1
  <2>3. CASE d = a - b
    <3>1. p - q \in Int /\ d = EntryCount * (p - q)
      BY <2>2, <2>3, <1>3
    <3> QED
      BY <3>1, Zenon
  <2>4. CASE d = a - b + Modulus
    <3>1. p - q + k \in Int /\ d = EntryCount * (p - q + k)
      BY <2>2, <2>4, <1>1, <1>2, <1>3
    <3> QED
      BY <3>1, Zenon
  <2> QED
    BY <2>3, <2>4, <1>2
<1>6. PICK m \in Int : d = EntryCount * m
  BY <1>5
<1>7. CASE m <= 0
  <2>1. EntryCount * m <= 0
    BY <1>7, <1>2
  <2> QED
    BY <2>1, <1>6, <1>2
<1>8. CASE m >= 1
  <2>1. EntryCount * m >= EntryCount
    BY <1>8, <1>2
  <2> QED
    BY <2>1, <1>6, <1>2
<1> QED
  BY <1>7, <1>8

-----------------------------------------------------------------------------
(***************************************************************************)
(* A masked index is the index of an entry.                                *)
(***************************************************************************)
LEMMA SlotInRange == \A a \in Index : Slot(a) \in 0 .. (EntryCount - 1)
BY Wrapping DEF Slot, Index

(***************************************************************************)
(* The entries from a head h up to a tail t, as a sequence.                *)
(***************************************************************************)
LEMMA EntriesAreSeq ==
    ASSUME NEW h \in Index, NEW t \in Index,
           NEW s \in [0 .. (EntryCount - 1) -> Values]
    PROVE  LET q == [i \in 1 .. Sub(t, h) |-> s[Slot(Add(h, i - 1))]]
           IN  /\ q \in Seq(Values) /\ Len(q) = Sub(t, h)
               /\ \A i \in 1 .. Sub(t, h) : q[i] = s[Slot(Add(h, i - 1))]
<1> DEFINE n == Sub(t, h)
           q == [i \in 1 .. n |-> s[Slot(Add(h, i - 1))]]
<1>1. n \in Nat /\ n \in Index /\ Modulus \in Nat
  BY Wrapping
<1>2. ASSUME NEW i \in 1 .. n PROVE s[Slot(Add(h, i - 1))] \in Values
  <2>1. i - 1 \in Nat /\ i - 1 \in Index
    BY <1>1 DEF Index
  <2>2. Add(h, i - 1) \in Index
    BY <2>1, Wrapping
  <2> QED
    BY <2>2, SlotInRange
<1> HIDE DEF n
<1>3. q \in [1 .. n -> Values]
  BY <1>2
<1>4. q \in Seq(Values)
  BY <1>1, <1>3, SeqDef
<1>5. Len(q) = n
  BY <1>1, <1>3, <1>4, LenProperties
<1> QED
  BY <1>4, <1>5 DEF n

(***************************************************************************)
(* Writing the slot at the tail disturbs none of the first n entries.      *)
(***************************************************************************)
LEMMA EntriesKept ==
    ASSUME TypeOK, NEW n \in Nat, n <= Sub(tail, head),
           Sub(tail, head) < EntryCount, NEW v,
           NEW i \in 1 .. n
    PROVE  [slots EXCEPT ![Slot(tail)] = v][Slot(Add(head, i - 1))]
                = slots[Slot(Add(head, i - 1))]
<1> DEFINE s == Sub(tail, head)
           h == Add(head, i - 1)
<1>1. /\ head \in Index /\ tail \in Index /\ s \in Index
  BY Wrapping DEF TypeOK
<1>2. i - 1 \in Nat /\ i - 1 <= s
  BY <1>1, Wrapping DEF Index
<1>3. h \in Index /\ Sub(tail, h) = s - (i - 1)
  BY <1>1, <1>2, Moving
<1>4. Slot(tail) # Slot(h)
  <2>1. s \in Nat /\ EntryCount \in Nat
    BY <1>1, Wrapping DEF Index
  <2>2. Sub(tail, h) \in 1 .. (EntryCount - 1)
    BY <1>3, <2>1
  <2> QED
    BY <1>1, <1>3, <2>2, SlotsDiffer
<1>5. Slot(h) \in 0 .. (EntryCount - 1)
  BY <1>3, SlotInRange
<1> QED
  BY <1>4, <1>5 DEF TypeOK

-----------------------------------------------------------------------------
(***************************************************************************)
(* The invariant holds of the ring init_header leaves.                     *)
(***************************************************************************)
LEMMA InitRing == Init => RingInv
<1> SUFFICES ASSUME Init PROVE RingInv
  OBVIOUS
<1>1. 0 \in Index /\ Sub(0, 0) = 0 /\ Modulus \in Nat /\ EntryCount \in Nat \ {0}
  BY Wrapping DEF Index
<1>2. TypeOK
  BY <1>1, SpscRingAssumption, EmptySeq DEF Init, TypeOK, None
<1>3. ProducerInv /\ ConsumerInv /\ ObserverInv
  BY DEF Init, ProducerInv, ConsumerInv, ObserverInv, Measuring
<1> QED
  BY <1>1, <1>2, <1>3 DEF RingInv, Init

(***************************************************************************)
(* The entries one pop, or one batch, takes: no more than it has seen.     *)
(***************************************************************************)
LEMMA CountInRange ==
    ASSUME TypeOK
    PROVE  /\ Sub(c_tail, head) \in Nat /\ Count \in Nat /\ Count \in Index
           /\ Count <= Sub(c_tail, head)
<1>1. Sub(c_tail, head) \in Index /\ c_want \in Nat
  BY Wrapping, SpscRingAssumption DEF TypeOK
<1>2. Sub(c_tail, head) \in Nat
  BY <1>1, Wrapping DEF Index
<1>3. Count = IF Sub(c_tail, head) < c_want THEN Sub(c_tail, head) ELSE c_want
  BY DEF Count
<1>4. Count \in Nat /\ Count <= Sub(c_tail, head)
  BY <1>1, <1>2, <1>3
<1>5. Count \in Index
  BY <1>1, <1>4, Wrapping DEF Index
<1> QED
  BY <1>2, <1>4, <1>5

(***************************************************************************)
(* Every access leaves indices, entries and results within their types.    *)
(***************************************************************************)
LEMMA TypesKept == TypeOK /\ [Next]_vars => TypeOK'
<1> SUFFICES ASSUME TypeOK, [Next]_vars PROVE TypeOK'
  OBVIOUS
<1>0. /\ head \in Index /\ tail \in Index
      /\ slots \in [0 .. (EntryCount - 1) -> Values]
      /\ p_pc \in {"idle", "loaded", "written"}
      /\ p_head \in Index /\ p_entry \in Values
      /\ c_pc \in {"idle", "loaded"}
      /\ c_tail \in Index /\ c_want \in 1 .. MaxBatch
      /\ c_got \in Seq(Values) /\ out \in Seq(Values)
      /\ l_tail \in [Callers -> Index \cup {None}]
      /\ l_len \in [Callers -> Index]
  BY DEF TypeOK
<1>1. CASE UNCHANGED vars
  BY <1>0, <1>1 DEF vars, producer, consumer, observer, TypeOK
<1>2. ASSUME NEW v \in Values, PushLoadHead(v) PROVE TypeOK'
  BY <1>0, <1>2 DEF PushLoadHead, consumer, observer, TypeOK
<1>3. CASE PushFull
  BY <1>0, <1>3 DEF PushFull, consumer, observer, TypeOK
<1>4. CASE PushWriteEntry
  BY <1>0, <1>4 DEF PushWriteEntry, consumer, observer, TypeOK
<1>5. CASE PushStoreTail
  <2>1. 1 \in Index
    BY Wrapping DEF Index
  <2>2. Add(tail, 1) \in Index
    BY <1>0, <2>1, Wrapping
  <2> QED
    BY <1>0, <1>5, <2>2 DEF PushStoreTail, consumer, observer, TypeOK
<1>6. ASSUME NEW want \in 1 .. MaxBatch, PopLoadTail(want) PROVE TypeOK'
  BY <1>0, <1>6, EmptySeq DEF PopLoadTail, producer, observer, TypeOK
<1>7. CASE PopEmpty
  BY <1>0, <1>7 DEF PopEmpty, producer, observer, TypeOK
<1>8. CASE PopReadEntry
  <2> DEFINE e == slots[Slot(Add(head, Len(c_got)))]
  <2>1. Len(c_got) \in Nat /\ Len(c_got) < Count
    BY <1>0, <1>8, LenProperties DEF PopReadEntry
  <2>2. Len(c_got) \in Index
    BY <2>1, CountInRange, Wrapping DEF Index
  <2>3. e \in Values
    BY <1>0, <2>2, Wrapping, SlotInRange
  <2>4. Append(c_got, e) \in Seq(Values)
    BY <1>0, <2>3, AppendProperties
  <2> QED
    BY <1>0, <1>8, <2>4 DEF PopReadEntry, producer, observer, TypeOK
<1>9. CASE PopStoreHead
  <2>1. Add(head, Count) \in Index
    BY <1>0, CountInRange, Wrapping
  <2> QED
    BY <1>0, <1>9, <2>1 DEF PopStoreHead, producer, observer, TypeOK
<1>10. ASSUME NEW c \in Callers, LenLoadTail(c) PROVE TypeOK'
  BY <1>0, <1>10 DEF LenLoadTail, producer, consumer, TypeOK
<1>11. ASSUME NEW c \in Callers, LenLoadHead(c) PROVE TypeOK'
  <2>1. l_tail[c] \in Index
    BY <1>0, <1>11 DEF LenLoadHead, Measuring
  <2>2. Sub(l_tail[c], head) \in Index
    BY <1>0, <2>1, Wrapping
  <2> QED
    BY <1>0, <1>11, <2>2 DEF LenLoadHead, producer, consumer, TypeOK
<1> QED
  BY <1>1, <1>2, <1>3, <1>4, <1>5, <1>6, <1>7, <1>8, <1>9, <1>10, <1>11
     DEF Next, ProducerStep, ConsumerStep

(***************************************************************************)
(* One step per action; the two sides meet in PushWriteEntry, which must   *)
(* not touch what the consumer reads, and in the stores of the indices.    *)
(***************************************************************************)
LEMMA NextRing == RingInv /\ [Next]_vars => RingInv'
<1> SUFFICES ASSUME RingInv, [Next]_vars PROVE RingInv'
  OBVIOUS
<1>a. TypeOK /\ TypeOK'
  BY TypesKept DEF RingInv
<1>b. /\ head \in Index /\ tail \in Index /\ p_head \in Index /\ c_tail \in Index
      /\ c_got \in Seq(Values) /\ Len(c_got) \in Nat
      /\ l_tail \in [Callers -> Index \cup {None}]
      /\ p_pc \in {"idle", "loaded", "written"}
  BY <1>a, LenProperties DEF TypeOK
<1>c. /\ Modulus \in Nat /\ EntryCount \in Nat \ {0} /\ EntryCount < Modulus
      /\ Sub(tail, head) \in Nat /\ Sub(tail, p_head) \in Nat
      /\ Sub(c_tail, head) \in Nat
  BY <1>b, Wrapping
<1>d. Sub(tail, head) <= EntryCount /\ ProducerInv /\ ConsumerInv /\ ObserverInv
  BY DEF RingInv
<1> DEFINE Rest == Sub(tail, head) <= EntryCount /\ ProducerInv /\ ConsumerInv
                   /\ ObserverInv
<1> SUFFICES Rest'
  BY <1>a DEF RingInv
<1>1. CASE UNCHANGED vars
  BY <1>d, <1>1 DEF vars, producer, consumer, observer, ProducerInv, ConsumerInv,
     ObserverInv, Count, Measuring
<1>2. ASSUME NEW v \in Values, PushLoadHead(v) PROVE Rest'
  BY <1>b, <1>c, <1>d, <1>2 DEF PushLoadHead, consumer, observer, ProducerInv,
     ConsumerInv, ObserverInv, Count, Measuring
<1>3. CASE PushFull
  BY <1>d, <1>3 DEF PushFull, consumer, observer, ProducerInv, ConsumerInv,
     ObserverInv, Count, Measuring
<1>4. CASE PushWriteEntry
  <2>1. Sub(tail, p_head) < EntryCount /\ Sub(tail, head) < EntryCount
    BY <1>4, <1>b, <1>c, <1>d DEF PushWriteEntry, Full, ProducerInv
  <2>2. ProducerInv'
    <3>1. Slot(tail) \in 0 .. (EntryCount - 1)
      BY <1>b, SlotInRange
    <3> QED
      BY <1>4, <1>a, <1>d, <2>1, <3>1 DEF PushWriteEntry, ProducerInv, TypeOK
  <2>3. ConsumerInv'
    <3> SUFFICES ASSUME c_pc = "loaded" PROVE ConsumerInv'
      BY <1>4 DEF PushWriteEntry, consumer, ConsumerInv
    <3>1. Len(c_got) <= Sub(tail, head)
      BY <1>a, <1>b, <1>c, <1>d, CountInRange DEF ConsumerInv
    <3>2. ASSUME NEW i \in 1 .. Len(c_got)
          PROVE  c_got[i] = slots'[Slot(Add(head, i - 1))]
      <4>1. slots'[Slot(Add(head, i - 1))] = slots[Slot(Add(head, i - 1))]
        BY <1>4, <1>a, <1>b, <2>1, <3>1, EntriesKept DEF PushWriteEntry
      <4> QED
        BY <4>1, <1>d DEF ConsumerInv
    <3> QED
      BY <1>4, <1>d, <3>2 DEF PushWriteEntry, consumer, ConsumerInv, Count
  <2>4. ObserverInv'
    BY <1>4, <1>d DEF PushWriteEntry, consumer, observer, ObserverInv, Measuring
  <2> QED
    BY <1>4, <1>d, <2>2, <2>3, <2>4 DEF PushWriteEntry
<1>5. CASE PushStoreTail
  <2>1. Sub(tail, p_head) < EntryCount /\ Sub(tail, head) < EntryCount
    BY <1>5, <1>b, <1>c, <1>d DEF PushStoreTail, ProducerInv
  <2>2. Sub(tail', head') = Sub(tail, head) + 1
    <3>1. Sub(tail, head) + 1 < Modulus
      BY <2>1, <1>b, <1>c
    <3> QED
      BY <3>1, <1>5, <1>b, Moving DEF PushStoreTail
  <2>3. ConsumerInv'
    BY <1>5, <1>b, <1>c, <1>d, <2>2 DEF PushStoreTail, consumer, ConsumerInv, Count
  <2>4. ObserverInv'
    <3>1. ~Measuring("producer")
      BY <1>5, <1>d DEF PushStoreTail, ObserverInv
    <3>2. ASSUME Measuring("consumer")
          PROVE  Sub(l_tail["consumer"], head) \in Nat
      <4>1. l_tail["consumer"] \in Index
        BY <3>2, <1>b DEF Measuring
      <4> QED
        BY <4>1, <1>b, Wrapping
    <3> QED
      BY <1>5, <1>c, <1>d, <2>2, <3>1, <3>2
         DEF PushStoreTail, consumer, observer, ObserverInv, Measuring
  <2> QED
    BY <1>5, <1>b, <1>c, <2>1, <2>2, <2>3, <2>4 DEF PushStoreTail, ProducerInv
<1>6. ASSUME NEW want \in 1 .. MaxBatch, PopLoadTail(want) PROVE Rest'
  <2>1. ConsumerInv'
    <3>1. Len(c_got') = 0 /\ c_tail' = tail /\ head' = head /\ tail' = tail
      BY <1>6, EmptySeq DEF PopLoadTail
    <3>2. Count' = IF Sub(tail, head) < want THEN Sub(tail, head) ELSE want
      BY <1>6, <3>1 DEF PopLoadTail, Count
    <3>3. Count' \in Nat
      BY <3>2, <1>c
    <3> QED
      BY <3>1, <3>3, <1>c DEF ConsumerInv
  <2> QED
    BY <1>6, <1>d, <2>1 DEF PopLoadTail, producer, observer, ProducerInv,
       ObserverInv, Measuring
<1>7. CASE PopEmpty
  BY <1>d, <1>7 DEF PopEmpty, producer, observer, ProducerInv, ConsumerInv,
     ObserverInv, Measuring
<1>8. CASE PopReadEntry
  <2> DEFINE e == slots[Slot(Add(head, Len(c_got)))]
  <2>1. Count \in Nat /\ Len(c_got) < Count
    BY <1>8, <1>a, CountInRange DEF PopReadEntry
  <2>2. /\ Len(c_got') = Len(c_got) + 1
        /\ \A i \in 1 .. Len(c_got) : c_got'[i] = c_got[i]
        /\ c_got'[Len(c_got) + 1] = e
    <3>1. c_got' = Append(c_got, e)
      BY <1>8 DEF PopReadEntry
    <3>2. e \in Values
      <4>1. Len(c_got) \in Index
        BY <2>1, <1>a, <1>b, <1>c, CountInRange DEF Index
      <4> QED
        BY <4>1, <1>a, <1>b, Wrapping, SlotInRange DEF TypeOK
    <3> HIDE DEF e
    <3> QED
      BY <3>1, <3>2, <1>b, AppendProperties
  <2>3. ConsumerInv'
    <3>1. ASSUME NEW i \in 1 .. Len(c_got')
          PROVE  c_got'[i] = slots[Slot(Add(head, i - 1))]
      <4>1. CASE i \in 1 .. Len(c_got)
        BY <4>1, <1>8, <1>d, <2>2 DEF PopReadEntry, ConsumerInv
      <4>2. CASE i = Len(c_got) + 1
        BY <4>2, <1>b, <2>2
      <4> QED
        BY <4>1, <4>2, <2>2, <1>b
    <3>2. Len(c_got') <= Count
      BY <2>1, <2>2, <1>b
    <3> QED
      BY <1>8, <1>d, <3>1, <3>2 DEF PopReadEntry, ConsumerInv, Count
  <2> QED
    BY <1>d, <1>8, <2>3 DEF PopReadEntry, producer, observer, ProducerInv,
       ObserverInv, Measuring
<1>9. CASE PopStoreHead
  <2>1. Count \in Nat /\ Count <= Sub(c_tail, head) /\ Count <= Sub(tail, head)
    BY <1>9, <1>a, <1>b, <1>c, <1>d, CountInRange DEF PopStoreHead, ConsumerInv
  <2>2. head' \in Index /\ Sub(tail, head') = Sub(tail, head) - Count
    BY <1>9, <1>b, <2>1, Moving DEF PopStoreHead
  <2>3. ProducerInv'
    BY <1>9, <1>c, <1>d, <2>1, <2>2 DEF PopStoreHead, producer, ProducerInv
  <2>4. ObserverInv'
    <3>1. ~Measuring("consumer")
      BY <1>9, <1>d DEF PopStoreHead, ObserverInv
    <3> QED
      BY <1>9, <1>d, <3>1 DEF PopStoreHead, producer, observer, ObserverInv, Measuring
  <2> QED
    BY <1>9, <1>c, <1>d, <2>1, <2>2, <2>3, <2>4 DEF PopStoreHead, ConsumerInv
<1>10. ASSUME NEW c \in Callers, LenLoadTail(c) PROVE Rest'
  <2>1. ProducerInv' /\ ConsumerInv' /\ (Sub(tail, head) <= EntryCount)'
    BY <1>10, <1>d DEF LenLoadTail, producer, consumer, ProducerInv, ConsumerInv,
       Count
  <2>2. ObserverInv'
    BY <1>10, <1>b, <1>c, <1>d DEF LenLoadTail, producer, consumer, ObserverInv,
       Measuring
  <2> QED
    BY <2>1, <2>2
<1>11. ASSUME NEW c \in Callers, LenLoadHead(c) PROVE Rest'
  <2>1. ProducerInv' /\ ConsumerInv' /\ (Sub(tail, head) <= EntryCount)'
    BY <1>11, <1>d DEF LenLoadHead, producer, consumer, ProducerInv, ConsumerInv,
       Count
  <2>2. ObserverInv'
    BY <1>11, <1>b, <1>d DEF LenLoadHead, producer, consumer, ObserverInv,
       Measuring
  <2> QED
    BY <2>1, <2>2
<1> QED
  BY <1>1, <1>2, <1>3, <1>4, <1>5, <1>6, <1>7, <1>8, <1>9, <1>10, <1>11
     DEF Next, ProducerStep, ConsumerStep

(***************************************************************************)
(* The invariant holds throughout: no push overwrites an entry that has    *)
(* not been released, and no pop returns one that has not been published.  *)
(***************************************************************************)
THEOREM RingSafe == Spec => []RingInv
<1>1. Init => RingInv
  BY InitRing
<1>2. RingInv /\ [Next]_vars => RingInv'
  BY NextRing
<1> QED
  BY <1>1, <1>2, PTL DEF Spec

-----------------------------------------------------------------------------
(***************************************************************************)
(* Publishing adds one entry at the end, releasing takes the oldest off    *)
(* the front, and nothing else changes the contents: a step of the ring is *)
(* a step of the FIFO, or leaves it as it is.                              *)
(***************************************************************************)
LEMMA RingStep ==
    ASSUME RingInv, RingInv', [Next]_vars
    PROVE  [Fifo!FifoNext]_(Fifo!fifoVars)
<1> DEFINE n == Sub(tail, head)
<1>a. /\ TypeOK /\ TypeOK' /\ n <= EntryCount
      /\ ProducerInv /\ ConsumerInv
  BY DEF RingInv
<1>b. /\ head \in Index /\ tail \in Index /\ p_head \in Index
      /\ n \in Nat /\ Sub(tail, p_head) \in Nat
      /\ EntryCount \in Nat \ {0} /\ EntryCount < Modulus /\ Modulus \in Nat
  BY <1>a, Wrapping DEF TypeOK
<1>c. /\ Contents \in Seq(Values) /\ Len(Contents) = n
      /\ \A i \in 1 .. n : Contents[i] = slots[Slot(Add(head, i - 1))]
  <2>1. slots \in [0 .. (EntryCount - 1) -> Values]
    BY <1>a DEF TypeOK
  <2> QED
    BY <2>1, <1>b, EntriesAreSeq, Zenon DEF Contents
<1>d. /\ Contents' \in Seq(Values) /\ Len(Contents') = Sub(tail', head')
      /\ \A i \in 1 .. Sub(tail', head') :
            Contents'[i] = slots'[Slot(Add(head', i - 1))]
  <2>1. /\ slots' \in [0 .. (EntryCount - 1) -> Values]
        /\ head' \in Index /\ tail' \in Index
    BY <1>a DEF TypeOK
  <2> QED
    BY <2>1, EntriesAreSeq, Zenon DEF Contents
<1> HIDE DEF n
<1>1. CASE UNCHANGED <<head, tail, slots, out>>
  BY <1>1 DEF Contents, Fifo!fifoVars
<1>2. CASE PushWriteEntry
  <2>1. n < EntryCount
    BY <1>2, <1>a, <1>b DEF PushWriteEntry, Full, ProducerInv, n
  <2>2. Sub(tail', head') = n /\ out' = out
    BY <1>2 DEF PushWriteEntry, n
  <2>3. ASSUME NEW i \in 1 .. n PROVE Contents'[i] = Contents[i]
    <3>1. slots'[Slot(Add(head, i - 1))] = slots[Slot(Add(head, i - 1))]
      BY <1>2, <1>a, <1>b, <2>1, EntriesKept DEF PushWriteEntry, n
    <3> QED
      BY <1>2, <1>c, <1>d, <2>2, <3>1 DEF PushWriteEntry
  <2>4. Contents' = Contents
    BY <1>c, <1>d, <2>2, <2>3, SeqEqual
  <2> QED
    BY <2>2, <2>4 DEF Fifo!fifoVars
<1>3. CASE PushStoreTail
  <2>1. n < EntryCount /\ slots[Slot(tail)] = p_entry
    BY <1>3, <1>a, <1>b DEF PushStoreTail, ProducerInv, n
  <2>2. Sub(tail', head') = n + 1 /\ head' = head /\ slots' = slots /\ out' = out
    <3>1. n + 1 < Modulus
      BY <2>1, <1>b
    <3> QED
      BY <3>1, <1>3, <1>b, Moving DEF PushStoreTail, n
  <2>3. p_entry \in Values
    BY <1>a DEF TypeOK
  <2>4. /\ Append(Contents, p_entry) \in Seq(Values)
        /\ Len(Append(Contents, p_entry)) = n + 1
        /\ \A i \in 1 .. n : Append(Contents, p_entry)[i] = Contents[i]
        /\ Append(Contents, p_entry)[n + 1] = p_entry
    BY <2>3, <1>c, AppendProperties
  <2>5. Add(head, n) = tail
    <3>1. /\ n \in Index /\ head \in 0 .. (Modulus - 1) /\ tail \in 0 .. (Modulus - 1)
          /\ n = IF tail >= head THEN tail - head ELSE tail - head + Modulus
      BY <1>b, Wrapping DEF Index, n
    <3>2. Add(head, n) = IF head + n < Modulus THEN head + n
                                              ELSE head + n - Modulus
      BY <3>1, <1>b, Wrapping
    <3> QED
      BY <3>1, <3>2, <1>b
  <2>6. ASSUME NEW i \in 1 .. (n + 1)
        PROVE  Contents'[i] = Append(Contents, p_entry)[i]
    <3>1. Contents'[i] = slots[Slot(Add(head, i - 1))]
      BY <1>d, <2>2
    <3>2. CASE i \in 1 .. n
      BY <3>1, <3>2, <1>c, <2>4
    <3>3. CASE i = n + 1
      <4>1. i - 1 = n
        BY <3>3, <1>b
      <4>2. Contents'[i] = p_entry
        BY <3>1, <4>1, <2>1, <2>5
      <4>3. Append(Contents, p_entry)[i] = p_entry
        BY <3>3, <2>4
      <4> QED
        BY <4>2, <4>3
    <3>4. i \in 1 .. n \/ i = n + 1
      BY <1>b
    <3> QED
      BY <3>2, <3>3, <3>4
  <2>7. Contents' = Append(Contents, p_entry)
    BY <1>d, <2>2, <2>4, <2>6, SeqEqual
  <2> QED
    BY <1>c, <2>1, <2>2, <2>3, <2>7 DEF Fifo!FifoNext, Fifo!Put
<1>4. CASE PopStoreHead
  <2> DEFINE k == Count
  <2>1. k \in 1 .. n /\ Len(c_got) = k
    BY <1>4, <1>a, <1>b, CountInRange DEF PopStoreHead, ConsumerInv, n
  <2>2. /\ head' = Add(head, k) /\ out' = c_got /\ tail' = tail /\ slots' = slots
        /\ c_pc = "loaded"
    BY <1>4 DEF PopStoreHead
  <2> HIDE DEF k
  <2>3. head' \in Index /\ Sub(tail', head') = n - k
    BY <1>b, <2>1, <2>2, Moving DEF n
  <2>4. out' = SubSeq(Contents, 1, k)
    <3>1. \A i \in 1 .. n : Contents[i] \in Values
      BY <1>c, ElementOfSeq
    <3>2. /\ SubSeq(Contents, 1, k) \in Seq(Values)
          /\ Len(SubSeq(Contents, 1, k)) = k
          /\ \A i \in 1 .. k : SubSeq(Contents, 1, k)[i] = Contents[i]
      BY <3>1, <2>1, <1>b, SubSeqProperties
    <3>3. ASSUME NEW i \in 1 .. k PROVE c_got[i] = Contents[i]
      BY <1>a, <1>b, <1>c, <2>1, <2>2 DEF ConsumerInv
    <3>4. c_got \in Seq(Values)
      BY <1>a DEF TypeOK
    <3> QED
      BY <2>1, <2>2, <3>2, <3>3, <3>4, SeqEqual
  <2>5. Contents' = SubSeq(Contents, k + 1, n)
    <3>1. \A i \in (k + 1) .. n : Contents[i] \in Values
      BY <1>b, <1>c, <2>1, ElementOfSeq
    <3>2. /\ SubSeq(Contents, k + 1, n) \in Seq(Values)
          /\ Len(SubSeq(Contents, k + 1, n)) = n - k
          /\ \A i \in 1 .. (n - k) : SubSeq(Contents, k + 1, n)[i] = Contents[k + i]
      BY <3>1, <2>1, <1>b, SubSeqProperties
    <3>3. ASSUME NEW i \in 1 .. (n - k)
          PROVE  Contents'[i] = Contents[k + i]
      <4>1. Add(head', i - 1) = Add(head, k + i - 1)
        <5>1. k \in Nat /\ i - 1 \in Nat /\ k + (i - 1) < Modulus
          BY <1>a, <1>b, <2>1
        <5>2. k + (i - 1) = k + i - 1
          BY <2>1, <1>b
        <5> QED
          BY <5>1, <5>2, <2>2, <1>b, AddTwice
      <4>2. Contents'[i] = slots[Slot(Add(head', i - 1))]
        BY <1>d, <2>2, <2>3
      <4>3. Contents[k + i] = slots[Slot(Add(head, k + i - 1))]
        BY <1>b, <1>c, <2>1
      <4> QED
        BY <4>1, <4>2, <4>3
    <3> QED
      BY <1>d, <2>3, <3>2, <3>3, SeqEqual
  <2> QED
    BY <1>c, <2>1, <2>4, <2>5 DEF Fifo!FifoNext, Fifo!Get
<1> QED
  BY <1>1, <1>2, <1>3, <1>4 DEF Next, ProducerStep, ConsumerStep, PushLoadHead,
     PushFull, PopLoadTail, PopEmpty, PopReadEntry, LenLoadTail, LenLoadHead, vars

(***************************************************************************)
(* The ring of completion-port/src/ring.rs, with each side's accesses to   *)
(* the shared header interleaved in any order, implements a bounded FIFO.  *)
(***************************************************************************)
THEOREM RingIsFifo == Spec => RefinesFifo
<1>1. Init => Fifo!FifoInit
  <2> SUFFICES ASSUME Init PROVE Contents = <<>> /\ out = <<>>
    BY DEF Fifo!FifoInit
  <2>1. Sub(tail, head) = 0
    BY InitRing, Wrapping DEF Init, RingInv, TypeOK
  <2> QED
    BY <2>1 DEF Init, Contents
<1>2. RingInv /\ RingInv' /\ [Next]_vars => [Fifo!FifoNext]_(Fifo!fifoVars)
  BY RingStep
<1> QED
  BY <1>1, <1>2, RingSafe, PTL DEF Spec, RefinesFifo, Fifo!FifoSpec

-----------------------------------------------------------------------------
(***************************************************************************)
(* The result of len() never exceeds entry_count, provided that only the   *)
(* ring's two sides call it: a third party could see the head pass the     *)
(* tail it has loaded.                                                     *)
(***************************************************************************)
THEOREM LenWithinCapacity ==
    ASSUME "other" \notin Callers
    PROVE  Spec => []LenInRange
<1>1. Init => LenInRange
  <2>1. EntryCount \in Nat
    BY Wrapping
  <2> QED
    BY <2>1 DEF Init, LenInRange
<1>2. RingInv /\ LenInRange /\ [Next]_vars => LenInRange'
  <2> SUFFICES ASSUME RingInv, LenInRange, [Next]_vars PROVE LenInRange'
    OBVIOUS
  <2>1. ASSUME NEW c \in Callers, LenLoadHead(c) PROVE LenInRange'
    <3>1. Sub(l_tail[c], head) <= EntryCount
      <4>1. l_tail[c] \in Index /\ head \in Index /\ tail \in Index
        BY <2>1 DEF LenLoadHead, Measuring, RingInv, TypeOK
      <4>2. /\ Sub(l_tail[c], head) \in Nat /\ Sub(tail, head) \in Nat
            /\ EntryCount \in Nat
        BY <4>1, Wrapping
      <4>3. c = "producer" \/ c = "consumer"
        BY SpscRingAssumption
      <4> QED
        BY <2>1, <4>2, <4>3 DEF LenLoadHead, RingInv, ObserverInv
    <3> QED
      BY <2>1, <3>1 DEF LenLoadHead, LenInRange, RingInv, TypeOK
  <2>2. CASE UNCHANGED l_len
    BY <2>2 DEF LenInRange
  <2> QED
    BY <2>1, <2>2 DEF Next, ProducerStep, ConsumerStep, PushLoadHead, PushFull,
       PushWriteEntry, PushStoreTail, PopLoadTail, PopEmpty, PopReadEntry,
       PopStoreHead, LenLoadTail, vars, observer
<1> QED
  BY <1>1, <1>2, RingSafe, PTL DEF Spec
=============================================================================
