------------------------------ MODULE SpscRing ------------------------------
(***************************************************************************)
(* The ring buffer in shared memory of completion-port/src/ring.rs, with   *)
(* the accesses io_ring_enter makes to it through IoRing.  Producer and    *)
(* consumer are on either side of the user/kernel boundary and interleave  *)
(* between any two accesses to the shared header and entries; an owner's   *)
(* reading of its own index is local.  Acquire and release are the order   *)
(* in which each side's accesses happen.                                   *)
(*                                                                         *)
(* head and tail are free-running counters of fixed width that wrap.       *)
(***************************************************************************)
EXTENDS Naturals, Sequences

CONSTANTS
    Values,         \* entries
    EntryCount,     \* a power of two
    Modulus,        \* 2^32: the width of head and tail
    MaxBatch,       \* to_submit of io_ring_enter; pop takes one
    Callers         \* who calls len(): the two sides, or somebody else

ASSUME SpscRingAssumption ==
    /\ EntryCount \in Nat \ {0} /\ MaxBatch \in Nat \ {0}
    /\ \E k \in 2 .. Modulus : Modulus = k * EntryCount
    /\ Callers \subseteq {"producer", "consumer", "other"}

None == Modulus     \* no tail loaded

VARIABLES
    head, tail,     \* RingHeader.head, RingHeader.tail
    slots,          \* the entries
    p_pc, p_head, p_entry,          \* push: where, and what it holds
    c_pc, c_tail, c_want, c_got,    \* pop, or a batch: where, what it holds
    out,            \* what the consumer took last
    l_tail, l_len   \* len(): the tail loaded, the last result, by caller

producer == <<p_pc, p_head, p_entry>>
consumer == <<c_pc, c_tail, c_want, c_got>>
observer == <<l_tail, l_len>>
vars == <<head, tail, slots, producer, consumer, out, observer>>

(***************************************************************************)
(* u32::wrapping_add, u32::wrapping_sub, and the masked entry index.       *)
(***************************************************************************)
Add(a, n) == (a + n) % Modulus

Sub(a, b) == (a + Modulus - b) % Modulus

Slot(i) == i % EntryCount

Measuring(c) == c \in Callers /\ l_tail[c] # None

-----------------------------------------------------------------------------
(***************************************************************************)
(* push: load head, test for full, write the entry, store the tail.        *)
(***************************************************************************)
\* Mutant: the head read by an earlier push is used again.
PushCachedHead(v) ==
    /\ p_pc = "idle" /\ ~Measuring("producer")
    /\ p_pc' = "loaded"
    /\ p_entry' = v
    /\ UNCHANGED <<head, tail, slots, p_head, consumer, out, observer>>

PushLoadHead(v) ==
    /\ p_pc = "idle" /\ ~Measuring("producer")
    /\ p_pc' = "loaded"
    /\ p_head' = head
    /\ p_entry' = v
    /\ UNCHANGED <<head, tail, slots, consumer, out, observer>>

\* Mutant: one entry too many.
FullOffByOne == Sub(tail, p_head) > EntryCount

Full == Sub(tail, p_head) >= EntryCount

PushFull ==
    /\ p_pc = "loaded" /\ Full
    /\ p_pc' = "idle"
    /\ UNCHANGED <<head, tail, slots, p_head, p_entry, consumer, out, observer>>

PushWriteEntry ==
    /\ p_pc = "loaded" /\ ~Full
    /\ p_pc' = "written"
    /\ slots' = [slots EXCEPT ![Slot(tail)] = p_entry]
    /\ UNCHANGED <<head, tail, p_head, p_entry, consumer, out, observer>>

PushStoreTail ==
    /\ p_pc = "written"
    /\ p_pc' = "idle"
    /\ tail' = Add(tail, 1)
    /\ UNCHANGED <<head, slots, p_head, p_entry, consumer, out, observer>>

-----------------------------------------------------------------------------
(***************************************************************************)
(* pop (want = 1) and the batch of io_ring_enter: load the tail, read      *)
(* count = min(tail - head, want) entries, store the head.                 *)
(***************************************************************************)
PopLoadTail(want) ==
    /\ c_pc = "idle" /\ ~Measuring("consumer")
    /\ c_pc' = "loaded"
    /\ c_tail' = tail
    /\ c_want' = want
    /\ c_got' = <<>>
    /\ UNCHANGED <<head, tail, slots, producer, out, observer>>

Count == LET n == Sub(c_tail, head) IN IF n < c_want THEN n ELSE c_want

PopEmpty ==
    /\ c_pc = "loaded" /\ Count = 0
    /\ c_pc' = "idle"
    /\ UNCHANGED <<head, tail, slots, producer, c_tail, c_want, c_got, out,
                   observer>>

PopReadEntry ==
    /\ c_pc = "loaded" /\ Len(c_got) < Count
    /\ c_got' = Append(c_got, slots[Slot(Add(head, Len(c_got)))])
    /\ UNCHANGED <<head, tail, slots, producer, c_pc, c_tail, c_want, out,
                   observer>>

\* Mutant: the head is released before the last entry has been read.
PopStoreHeadEarly ==
    /\ c_pc = "loaded" /\ Count > 0 /\ Len(c_got) + 1 = Count
    /\ c_pc' = "idle"
    /\ head' = Add(head, Count)
    /\ out' = c_got
    /\ UNCHANGED <<tail, slots, producer, c_tail, c_want, c_got, observer>>

PopStoreHead ==
    /\ c_pc = "loaded" /\ Count > 0 /\ Len(c_got) = Count
    /\ c_pc' = "idle"
    /\ head' = Add(head, Count)
    /\ out' = c_got
    /\ UNCHANGED <<tail, slots, producer, c_tail, c_want, c_got, observer>>

-----------------------------------------------------------------------------
(***************************************************************************)
(* len: load the tail, then the head.  The two sides call it between their *)
(* other operations.                                                       *)
(***************************************************************************)
LenLoadTail(c) ==
    /\ c \in Callers /\ l_tail[c] = None
    /\ c = "producer" => p_pc = "idle"
    /\ c = "consumer" => c_pc = "idle"
    /\ l_tail' = [l_tail EXCEPT ![c] = tail]
    /\ UNCHANGED <<head, tail, slots, producer, consumer, out, l_len>>

LenLoadHead(c) ==
    /\ Measuring(c)
    /\ l_len' = [l_len EXCEPT ![c] = Sub(l_tail[c], head)]
    /\ l_tail' = [l_tail EXCEPT ![c] = None]
    /\ UNCHANGED <<head, tail, slots, producer, consumer, out>>

-----------------------------------------------------------------------------
(***************************************************************************)
(* init_header over a cleared page; v stands for the zero entry.           *)
(***************************************************************************)
Init ==
    /\ head = 0 /\ tail = 0
    /\ \E v \in Values :
          slots = [i \in 0 .. (EntryCount - 1) |-> v] /\ p_entry = v
    /\ p_pc = "idle" /\ p_head = 0
    /\ c_pc = "idle" /\ c_tail = 0 /\ c_want = 1 /\ c_got = <<>>
    /\ out = <<>>
    /\ l_tail = [c \in Callers |-> None] /\ l_len = [c \in Callers |-> 0]

ProducerStep ==
    \/ \E v \in Values : PushLoadHead(v)
    \/ PushFull
    \/ PushWriteEntry
    \/ PushStoreTail

ConsumerStep ==
    \/ \E want \in 1 .. MaxBatch : PopLoadTail(want)
    \/ PopEmpty
    \/ PopReadEntry
    \/ PopStoreHead

Next ==
    \/ ProducerStep
    \/ ConsumerStep
    \/ \E c \in Callers : LenLoadTail(c) \/ LenLoadHead(c)

Spec == Init /\ [][Next]_vars

(***************************************************************************)
(* No call waits, so one that has begun ends.  Each side is a loop: it     *)
(* calls push, or pop, again and again, whatever calls of len lie between. *)
(***************************************************************************)
FairSpec ==
    /\ Spec
    /\ SF_vars(ProducerStep) /\ SF_vars(ConsumerStep)
    /\ \A c \in Callers : WF_vars(LenLoadHead(c))

-----------------------------------------------------------------------------
(***************************************************************************)
(* Types.                                                                  *)
(***************************************************************************)
Index == 0 .. (Modulus - 1)

TypeOK ==
    /\ head \in Index /\ tail \in Index
    /\ slots \in [0 .. (EntryCount - 1) -> Values]
    /\ p_pc \in {"idle", "loaded", "written"}
    /\ p_head \in Index /\ p_entry \in Values
    /\ c_pc \in {"idle", "loaded"}
    /\ c_tail \in Index /\ c_want \in 1 .. MaxBatch
    /\ c_got \in Seq(Values) /\ out \in Seq(Values)
    /\ l_tail \in [Callers -> Index \cup {None}]
    /\ l_len \in [Callers -> Index]

(***************************************************************************)
(* The ring is a bounded FIFO: an entry is in it from the store of the     *)
(* tail that publishes it to the store of the head that releases it, none  *)
(* is overwritten or read before its time, and indices may wrap.           *)
(***************************************************************************)
Contents == [i \in 1 .. Sub(tail, head) |-> slots[Slot(Add(head, i - 1))]]

Fifo == INSTANCE BoundedFifo WITH items <- Contents, last <- out

RefinesFifo == Fifo!FifoSpec

(***************************************************************************)
(* ring.rs: len() is the number of entries in the ring, so never more than *)
(* entry_count, from which available() subtracts it.                       *)
(***************************************************************************)
LenInRange == \A c \in Callers : l_len[c] <= EntryCount

(***************************************************************************)
(* Neither side takes the ring for full or empty for ever: while both keep *)
(* trying, a full ring gets room again and an empty one an entry.          *)
(***************************************************************************)
EntriesMove ==
    /\ Sub(tail, head) = EntryCount ~> Sub(tail, head) < EntryCount
    /\ Sub(tail, head) = 0 ~> Sub(tail, head) > 0
=============================================================================
