----------------------------- MODULE BoundedFifo -----------------------------
(***************************************************************************)
(* What a single-producer single-consumer ring promises: a first-in,       *)
(* first-out buffer of bounded size.  The consumer takes one entry (pop)   *)
(* or a batch (io_ring_enter's walk over the submission ring) at a time.   *)
(***************************************************************************)
EXTENDS Naturals, Sequences

CONSTANTS Values, EntryCount

VARIABLES
    items,      \* the entries in the buffer, oldest first
    last        \* the entries the consumer took last

fifoVars == <<items, last>>

FifoInit == items = <<>> /\ last = <<>>

Put(v) ==
    /\ Len(items) < EntryCount
    /\ items' = Append(items, v)
    /\ UNCHANGED last

Get(n) ==
    /\ last' = SubSeq(items, 1, n)
    /\ items' = SubSeq(items, n + 1, Len(items))

FifoNext ==
    \/ \E v \in Values : Put(v)
    \/ \E n \in 1 .. Len(items) : Get(n)

FifoSpec == FifoInit /\ [][FifoNext]_fifoVars
=============================================================================
