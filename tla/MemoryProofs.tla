---------------------------- MODULE MemoryProofs ----------------------------
(***************************************************************************)
(* Memory, for any number of processes, frames, pages and shared objects   *)
(* and any sequence of calls: every frame is accounted for, what the VMA   *)
(* maps promise is mapped, private pages are isolated, and the gap finder  *)
(* finds the highest gap; all until a frame that was mapped through the    *)
(* descriptor of a dropped ring is idle (the variable exposed).            *)
(***************************************************************************)
EXTENDS Memory, QueueLemmas, FiniteSetTheorems

MemTypes == [free : SUBSET Frames, next : 1 .. NumFrames + 1,
             refcounts : [Frames -> Nat], roots : SUBSET Frames,
             pt : [Frames -> [Pages -> Entries]], lost : SUBSET Frames,
             left : SUBSET (Frames \X Pages), stale : SUBSET Frames]

ObjTypes == [frames : Seq(Frames), owned : BOOLEAN, port : BOOLEAN, alive : BOOLEAN,
             ring : SUBSET Objects]

ProcTypes == [state : {"none", "live"}, root : Frames \cup {0}, shared : BOOLEAN,
              brk : BrkBase .. MMAP_FLOOR, vmas : SUBSET Vmas, fds : SUBSET Objects]

\* What allocate_frame can still hand out.
Avail(m) == m.free \cup {f \in Frames : f >= m.next}

\* The pages of a table that show a frame.
At(table, f) == {v \in Pages : table[v].frame = f}

\* Where a frame is mapped, and by which objects it is owned.
MapsTo(m, f) == {x \in m.roots \X Pages : m.pt[x[1]][x[2]].frame = f}

OwnersIn(ob, f) == {o \in Objects : f \in Range(ob[o].frames)
                                     /\ (ob[o].port \/ (ob[o].alive /\ ob[o].owned))}

Refs(m, ob) == [f \in Frames |-> Cardinality(MapsTo(m, f)) + Cardinality(OwnersIn(ob, f))]

(***************************************************************************)
(* The books of the frame allocator, n being the number of references to   *)
(* each frame.                                                             *)
(***************************************************************************)
Counted(m, n) ==
  /\ \A f \in m.free : f < m.next
  /\ \A f \in Frames :
       /\ m.refcounts[f] = IF n[f] >= 2 THEN n[f] ELSE 0
       /\ f \in Avail(m) => n[f] = 0 /\ f \notin m.roots
       /\ f \in m.roots => n[f] = 0
       /\ f \notin Avail(m) /\ f \notin m.roots /\ n[f] = 0 => f \in m.lost

(***************************************************************************)
(* A VMA map: intervals inside the mmap region's ceiling, none over        *)
(* another.                                                                *)
(***************************************************************************)
GoodVmas(V) ==
  /\ V \subseteq Vmas /\ \A v \in V : End(v) <= MMAP_CEILING
  /\ \A v, w \in V : v # w => End(v) <= w.start \/ End(w) <= v.start

Heap(pr) == BrkBase .. pr.brk - 1

Private(pr, i) ==
  \/ i = TopPage \/ i \in Heap(pr)
  \/ \E v \in pr.vmas : v.kind = "private" /\ i \in PagesOf(v)

(***************************************************************************)
(* An address space and the process that has it: VMAs are backed, the heap *)
(* and the stack are there, the heap is no VMA's, and a private page shows *)
(* a frame with no other reference.                                        *)
(***************************************************************************)
Backed(table, v, ob) ==
  \A i \in PagesOf(v) : /\ table[i] # NoPage /\ table[i].prot = v.prot
                        /\ v.kind # "private" => table[i].frame \in Range(ob[v.kind].frames)

SpaceOk(table, pr, ob) ==
  /\ GoodVmas(pr.vmas) /\ \A v \in pr.vmas : Backed(table, v, ob)
  /\ \A v \in pr.vmas : PagesOf(v) \cap Heap(pr) = {}
  /\ \A i \in Heap(pr) : table[i] # NoPage /\ table[i].prot = "rw"
  /\ table[TopPage] # NoPage

\* One reference, or one that may be shown through the descriptor of a dropped ring.
Sole(m, ob, f) == Refs(m, ob)[f] = 1 \/ f \in m.stale

Alone(table, pr, m, ob) == \A i \in Pages : Private(pr, i) => Sole(m, ob, table[i].frame)

HasSpace(m, pr, ob) ==
  /\ pr.state = "live" => /\ pr.root \in m.roots
                          /\ SpaceOk(m.pt[pr.root], pr, ob)
                          /\ Alone(m.pt[pr.root], pr, m, ob)
  /\ pr.state # "live" => pr = NoProcess

(***************************************************************************)
(* The descriptors of a ring whose port is open: all those that were made  *)
(* with it.                                                                *)
(***************************************************************************)
Rings(ob) ==
  \A o \in Objects : ob[o].port =>
    /\ ~ob[o].owned /\ o \in ob[o].ring
    /\ \A x \in ob[o].ring : ob[x].port /\ ob[x].ring = ob[o].ring

(***************************************************************************)
(* The inductive invariant: types, the books of the frame allocator, every *)
(* process with its address space, and the objects.                        *)
(***************************************************************************)
Good(m, pr, ob) ==
  /\ m \in MemTypes /\ pr \in [Procs -> ProcTypes] /\ ob \in [Objects -> ObjTypes]
  /\ Counted(m, Refs(m, ob))
  /\ \A p \in Procs : HasSpace(m, pr[p], ob)
  /\ Rings(ob)
  /\ \A p \in Procs : \A o \in pr[p].fds : ob[o].alive

MemoryInv == Good(mem, proc, obj) /\ load \in Workloads /\ calls \in Nat

-----------------------------------------------------------------------------
(***************************************************************************)
(* The smaller and the larger of two numbers, as the model writes them.    *)
(***************************************************************************)
LEMMA OfTwo ==
  ASSUME NEW a \in Nat, NEW b \in Nat
  PROVE  /\ Min({a, b}) = IF a <= b THEN a ELSE b
         /\ Max({a, b}) = IF a <= b THEN b ELSE a
<1>1. Min({a, b}) \in {a, b} /\ \A y \in {a, b} : Min({a, b}) <= y
  <2>1. {a, b} \subseteq Nat /\ {a, b} # {}
    OBVIOUS
  <2> QED
    BY <2>1, MinInSet
<1>2. Max({a, b}) \in {a, b} /\ \A y \in {a, b} : Max({a, b}) >= y
  <2>1. \E x \in {a, b} : \A y \in {a, b} : x >= y
    OBVIOUS
  <2> QED
    BY <2>1 DEF Max
<1> QED
  BY <1>1, <1>2

(***************************************************************************)
(* A bounded set of numbers has a largest one.                             *)
(***************************************************************************)
LEMMA MaxInSet ==
  ASSUME NEW T, T \subseteq Nat, T # {}, NEW b \in Nat, \A x \in T : x <= b
  PROVE  Max(T) \in T /\ \A y \in T : Max(T) >= y
<1> DEFINE U == {b - x : x \in T}
<1>1. U \subseteq Nat /\ U # {}
  <2>1. \A x \in T : b - x \in Nat
    <3> TAKE x \in T
    <3>1. x \in Nat /\ x <= b
      OBVIOUS
    <3> QED
      BY <3>1
  <2> QED
    BY <2>1
<1>2. Min(U) \in U /\ \A y \in U : Min(U) <= y
  <2> HIDE DEF U
  <2> QED
    BY <1>1, MinInSet
<1>3. PICK x \in T : Min(U) = b - x
  BY <1>2
<1>4. \A y \in T : x >= y
  <2> TAKE y \in T
  <2>1. b - x <= b - y
    BY <1>2, <1>3
  <2>2. x \in Nat /\ y \in Nat
    OBVIOUS
  <2> QED
    BY <2>1, <2>2
<1> QED
  BY <1>4 DEF Max

(***************************************************************************)
(* Ascending lists the frames of a set, each once.                         *)
(***************************************************************************)
LEMMA Enumerates ==
  ASSUME NEW S \in SUBSET Frames
  PROVE  /\ IsFiniteSet(S) /\ Cardinality(S) \in Nat
         /\ Ascending(S) \in Seq(Frames) /\ Len(Ascending(S)) = Cardinality(S)
         /\ IsInjective(Ascending(S)) /\ Range(Ascending(S)) = S
<1> DEFINE Below(f) == {g \in S : g < f}
           c == Cardinality(S)
           rank == [f \in S |-> Cardinality(Below(f)) + 1]
<1>0. Frames \subseteq Nat /\ IsFiniteSet(Frames) /\ \A f \in S : f \in Nat
  <2>1. NumFrames \in Int /\ 1 \in Int
    BY MemoryAssumption
  <2> QED
    BY <2>1, FS_Interval DEF Frames
<1>1. IsFiniteSet(S) /\ c \in Nat
  BY <1>0, FS_Subset, FS_CardinalityType
<1>2. \A f \in S : IsFiniteSet(Below(f)) /\ Cardinality(Below(f)) \in Nat
  <2> TAKE f \in S
  <2>1. Below(f) \in SUBSET S
    OBVIOUS
  <2> HIDE DEF Below
  <2> QED
    BY <1>1, <2>1, FS_Subset, FS_CardinalityType
<1>3. \A f \in S : rank[f] \in 1 .. c
  <2> TAKE f \in S
  <2>1. Below(f) \in SUBSET S /\ f \in S \ Below(f)
    BY <1>0
  <2>2. Cardinality(Below(f)) <= c /\ (c = Cardinality(Below(f)) => S = Below(f))
    <3> HIDE DEF Below
    <3> QED
      BY <1>1, <2>1, FS_Subset
  <2>3. Cardinality(Below(f)) < c
    <3> HIDE DEF Below
    <3> QED
      BY <1>1, <1>2, <2>1, <2>2
  <2> HIDE DEF Below
  <2> QED
    BY <1>1, <1>2, <2>3
<1>4. ASSUME NEW f \in S, NEW g \in S, f < g PROVE rank[f] # rank[g]
  <2>1. Below(f) \in SUBSET Below(g) /\ f \in Below(g) \ Below(f)
    <3>1. f \in Nat /\ g \in Nat /\ \A x \in S : x \in Nat
      BY <1>0
    <3>2. \A x \in S : x < f => x < g
      BY <1>4, <3>1
    <3>3. ~(f < f)
      BY <3>1
    <3> QED
      BY <1>4, <3>2, <3>3
  <2> HIDE DEF Below
  <2>2. Cardinality(Below(g)) # Cardinality(Below(f))
    BY <1>2, <2>1, FS_Subset
  <2> QED
    BY <1>2, <2>2
<1>5. \A f, g \in S : rank[f] = rank[g] => f = g
  <2> SUFFICES ASSUME NEW f \in S, NEW g \in S, f # g PROVE rank[f] # rank[g]
    OBVIOUS
  <2>1. f < g \/ g < f
    BY <1>0
  <2> HIDE DEF rank
  <2> QED
    BY <1>4, <2>1
<1>6. rank \in Injection(S, 1 .. c)
  <2>1. rank \in [S -> 1 .. c]
    BY <1>3
  <2> HIDE DEF rank
  <2> QED
    BY <1>5, <2>1 DEF Injection, IsInjective
<1>7. \A i \in 1 .. c : \E f \in S : rank[f] = i
  <2>1. IsFiniteSet(1 .. c) /\ Cardinality(1 .. c) = c
    BY <1>1, FS_Interval
  <2>2. rank \in Surjection(S, 1 .. c)
    <3> HIDE DEF rank, c
    <3>1. Cardinality(S) = Cardinality(1 .. c)
      BY <2>1 DEF c
    <3> QED
      BY <1>6, <2>1, <3>1, FS_Injection
  <2> HIDE DEF rank
  <2> QED
    BY <2>2 DEF Surjection
<1> DEFINE a == Ascending(S)
<1>8. \A i \in 1 .. c : a[i] \in S /\ rank[a[i]] = i
  <2> TAKE i \in 1 .. c
  <2>1. a[i] = CHOOSE f \in S : Cardinality(Below(f)) = i - 1
    BY DEF Ascending
  <2>2. PICK f \in S : rank[f] = i
    BY <1>7
  <2>3. Cardinality(Below(f)) = i - 1
    <3>1. Cardinality(Below(f)) + 1 = i /\ Cardinality(Below(f)) \in Nat
      BY <1>2, <2>2
    <3> HIDE DEF Below
    <3> QED
      BY <3>1
  <2>4. a[i] \in S /\ Cardinality(Below(a[i])) = i - 1
    <3> HIDE DEF a, Below
    <3> QED
      BY <2>1, <2>3
  <2> QED
    BY <1>2, <2>4
<1>9. DOMAIN a = 1 .. c /\ a = [i \in 1 .. c |-> a[i]]
  <2>1. a = [i \in 1 .. c |-> CHOOSE f \in S : Cardinality(Below(f)) = i - 1]
    BY Zenon DEF Ascending
  <2> HIDE DEF a, Below, c
  <2> QED
    BY <2>1
<1>10. a \in Seq(Frames) /\ Len(a) = c
  <2>1. \A i \in 1 .. c : a[i] \in Frames
    BY <1>8
  <2> HIDE DEF a, c
  <2>2. a \in [1 .. c -> Frames]
    BY <1>9, <2>1
  <2> QED
    BY <1>1, <2>2 DEF c
<1>11. IsInjective(a)
  <2> HIDE DEF a, c, rank
  <2> QED
    BY <1>8, <1>9 DEF IsInjective
<1>12. Range(a) = S
  <2>1. \A f \in S : rank[f] \in 1 .. c /\ a[rank[f]] = f
    <3> TAKE f \in S
    <3>1. rank[f] \in 1 .. c
      BY <1>3
    <3> HIDE DEF a, rank
    <3> QED
      BY <1>5, <1>8, <3>1
  <2> HIDE DEF a, c, rank
  <2> QED
    BY <1>8, <1>9, <2>1 DEF Range
<1> QED
  BY <1>1, <1>10, <1>11, <1>12

(***************************************************************************)
(* allocate_frame hands out every available frame once: the free list,     *)
(* then the memory not used yet.                                           *)
(***************************************************************************)
LEMMA AvailFacts ==
  ASSUME NEW m \in MemTypes, \A f \in m.free : f < m.next
  PROVE  /\ AvailSeq(m) \in Seq(Frames) /\ IsInjective(AvailSeq(m))
         /\ Range(AvailSeq(m)) = Avail(m) /\ Len(AvailSeq(m)) \in Nat
         /\ Cardinality(m.free) \in Nat
         /\ Len(AvailSeq(m)) = Cardinality(m.free) + (NumFrames - m.next + 1)
         /\ \A i \in 1 .. Len(AvailSeq(m)) :
              /\ i <= Cardinality(m.free) => AvailSeq(m)[i] \in m.free
              /\ i > Cardinality(m.free) => AvailSeq(m)[i] = m.next + (i - Cardinality(m.free)) - 1
         /\ \A f \in m.free : \E i \in 1 .. Cardinality(m.free) : AvailSeq(m)[i] = f
<1> DEFINE a == Ascending(m.free)
           k == NumFrames - m.next + 1
           b == [i \in 1 .. k |-> m.next + i - 1]
           c == Cardinality(m.free)
<1>0. /\ m.free \in SUBSET Frames /\ m.next \in 1 .. NumFrames + 1 /\ NumFrames \in Nat
      /\ Frames = 1 .. NumFrames
  BY MemoryAssumption DEF MemTypes, Frames
<1>1. /\ a \in Seq(Frames) /\ Len(a) = c /\ c \in Nat
      /\ IsInjective(a) /\ Range(a) = m.free
  BY <1>0, Enumerates
<1>2. k \in Nat /\ m.next \in Nat
  BY <1>0
<1>3. \A i \in 1 .. k : b[i] = m.next + i - 1 /\ b[i] \in Frames
  BY <1>0
<1>4. b \in Seq(Frames) /\ Len(b) = k /\ DOMAIN b = 1 .. k
  <2>1. b \in [1 .. k -> Frames]
    BY <1>3
  <2> HIDE DEF b, k
  <2> QED
    BY <1>2, <2>1
<1>5. IsInjective(b)
  <2>1. ASSUME NEW i \in 1 .. k, NEW j \in 1 .. k, b[i] = b[j] PROVE i = j
    <3>1. m.next + i - 1 = m.next + j - 1
      BY <1>3, <2>1
    <3> HIDE DEF k
    <3> QED
      BY <1>2, <3>1
  <2> HIDE DEF b, k
  <2> QED
    BY <1>4, <2>1 DEF IsInjective
<1>6. Range(b) = {f \in Frames : f >= m.next}
  <2>1. \A f \in Frames : f >= m.next => f - m.next + 1 \in 1 .. k /\ b[f - m.next + 1] = f
    BY <1>0
  <2>2. \A i \in 1 .. k : b[i] \in Frames /\ b[i] >= m.next
    BY <1>0
  <2> HIDE DEF b, k
  <2> QED
    BY <1>4, <2>1, <2>2 DEF Range
<1>7. AvailSeq(m) = a \o b
  BY DEF AvailSeq
<1>8. Range(a) \cap Range(b) = {}
  <2>1. \A f \in m.free : f \in Nat /\ ~(f >= m.next)
    BY <1>0, <1>2
  <2> QED
    BY <1>1, <1>6, <2>1
<1> HIDE DEF a, b, k
<1>9. /\ a \o b \in Seq(Frames) /\ IsInjective(a \o b)
      /\ Range(a \o b) = Range(a) \cup Range(b)
  BY <1>1, <1>4, <1>5, <1>8, Concatenates
<1>10. Len(a \o b) = c + k
  BY <1>1, <1>4
<1>11. DOMAIN a = 1 .. c
  BY <1>1
<1>12. \A i \in 1 .. c + k : /\ i <= c => (a \o b)[i] = a[i]
                             /\ i > c => (a \o b)[i] = b[i - c]
  BY <1>1, <1>2, <1>4
<1>13. \A i \in 1 .. c : a[i] \in m.free
  BY <1>1, <1>11 DEF Range
<1>14. \A f \in m.free : \E i \in 1 .. c : a[i] = f
  BY <1>1, <1>11 DEF Range
<1>15. \A i \in 1 .. c + k : i > c => b[i - c] = m.next + (i - c) - 1
  <2> TAKE i \in 1 .. c + k
  <2> HAVE i > c
  <2>1. i - c \in 1 .. k
    BY <1>1, <1>2
  <2> QED
    BY <1>3, <2>1
<1>16. \A i \in 1 .. c + k : /\ i <= c => (a \o b)[i] \in m.free
                             /\ i > c => (a \o b)[i] = m.next + (i - c) - 1
  <2> TAKE i \in 1 .. c + k
  <2>1. i <= c => i \in 1 .. c
    BY <1>1, <1>2
  <2> QED
    BY <1>12, <1>13, <1>15, <2>1
<1>17. \A f \in m.free : \E i \in 1 .. c : (a \o b)[i] = f
  <2> TAKE f \in m.free
  <2>1. PICK i \in 1 .. c : a[i] = f
    BY <1>14
  <2>2. i \in 1 .. c + k /\ i <= c
    BY <1>1, <1>2
  <2> QED
    BY <1>12, <2>1, <2>2
<1>18. c + k = c + (NumFrames - m.next + 1) /\ c + k \in Nat
  BY <1>1, <1>2 DEF k
<1> HIDE DEF c
<1>19. /\ AvailSeq(m) \in Seq(Frames) /\ IsInjective(AvailSeq(m))
       /\ Range(AvailSeq(m)) = Avail(m) /\ Len(AvailSeq(m)) = c + k
  BY <1>1, <1>6, <1>7, <1>9, <1>10 DEF Avail
<1>20. /\ \A i \in 1 .. Len(AvailSeq(m)) :
              /\ i <= c => AvailSeq(m)[i] \in m.free
              /\ i > c => AvailSeq(m)[i] = m.next + (i - c) - 1
       /\ \A f \in m.free : \E i \in 1 .. c : AvailSeq(m)[i] = f
  BY <1>7, <1>16, <1>17, <1>19
<1> QED
  BY <1>1, <1>18, <1>19, <1>20 DEF c

(***************************************************************************)
(* After n calls the first n of them are no longer available.              *)
(***************************************************************************)
LEMMA TakenFacts ==
  ASSUME NEW m \in MemTypes, \A f \in m.free : f < m.next,
         NEW n \in 0 .. Len(AvailSeq(m))
  PROVE  /\ Taken(m, n) \in MemTypes
         /\ \A f \in Taken(m, n).free : f < Taken(m, n).next
         /\ Avail(Taken(m, n)) = Avail(m) \ Range(SubSeq(AvailSeq(m), 1, n))
         /\ Taken(m, n).refcounts = m.refcounts /\ Taken(m, n).roots = m.roots
         /\ Taken(m, n).pt = m.pt /\ Taken(m, n).lost = m.lost
         /\ Taken(m, n).left = m.left /\ Taken(m, n).stale = m.stale
<1> DEFINE q == AvailSeq(m)
           c == Cardinality(m.free)
           s == SubSeq(q, 1, n)
           t == Taken(m, n)
<1>0. /\ m.free \in SUBSET Frames /\ m.next \in 1 .. NumFrames + 1 /\ NumFrames \in Nat
      /\ Frames = 1 .. NumFrames
  BY MemoryAssumption DEF MemTypes, Frames
<1>1. /\ q \in Seq(Frames) /\ Range(q) = Avail(m) /\ Len(q) \in Nat /\ c \in Nat
      /\ Len(q) = c + (NumFrames - m.next + 1)
      /\ \A i \in 1 .. Len(q) : /\ i <= c => q[i] \in m.free
                                /\ i > c => q[i] = m.next + (i - c) - 1
      /\ \A f \in m.free : \E i \in 1 .. c : q[i] = f
      /\ n \in 0 .. Len(q)
  BY AvailFacts
<1>2. Min({n, c}) = IF n <= c THEN n ELSE c
  <2>1. n \in Nat
    BY <1>1
  <2> HIDE DEF c
  <2> QED
    BY <1>1, <2>1, OfTwo
<1> DEFINE fresh == n - Min({n, c})
<1>3. t = [m EXCEPT !.free = m.free \ Range(s), !.next = m.next + fresh]
  BY DEF Taken
<1> HIDE DEF q, c, s, t
<1>4. /\ fresh = IF n <= c THEN 0 ELSE n - c
      /\ fresh \in Nat /\ n \in Nat /\ m.next \in Nat /\ m.next >= 1
      /\ m.next + fresh \in 1 .. NumFrames + 1
  <2>1. /\ n \in Nat /\ n <= Len(q) /\ m.next \in Nat /\ m.next >= 1
        /\ m.next <= NumFrames + 1 /\ Len(q) = c + (NumFrames - m.next + 1)
    BY <1>0, <1>1
  <2>2. fresh = IF n <= c THEN 0 ELSE n - c
    BY <1>1, <1>2, <2>1
  <2>3. c \in Nat /\ NumFrames \in Nat /\ n <= c + (NumFrames - m.next + 1)
    BY <1>0, <1>1, <2>1
  <2> HIDE DEF fresh
  <2>4. fresh \in Nat /\ m.next + fresh <= NumFrames + 1
    BY SMTT(30), <2>1, <2>2, <2>3
  <2> QED
    BY <2>1, <2>2, <2>3, <2>4
<1> HIDE DEF fresh
<1>5. /\ t \in MemTypes /\ t.free = m.free \ Range(s) /\ t.next = m.next + fresh
      /\ t.refcounts = m.refcounts /\ t.roots = m.roots /\ t.pt = m.pt /\ t.lost = m.lost
      /\ t.left = m.left /\ t.stale = m.stale
  BY <1>3, <1>4 DEF MemTypes
<1>6. \A f \in t.free : f < t.next
  BY <1>0, <1>4, <1>5
<1>7. s \in Seq(Frames) /\ Len(s) = n /\ DOMAIN s = 1 .. n /\ \A i \in 1 .. n : s[i] = q[i]
  BY <1>1, SplitTypes DEF s, q
<1>8. ASSUME NEW f \in Frames PROVE f \in Avail(t) <=> f \in Avail(m) /\ f \notin Range(s)
  <2>0. f \in Nat
    BY <1>0
  <2>1. CASE f \in m.free
    <3>1. f < m.next + fresh
      BY <1>0, <1>4, <2>0, <2>1
    <3> QED
      BY <1>0, <1>4, <1>5, <2>0, <2>1, <3>1 DEF Avail
  <2>2. CASE f \notin m.free
    <3>1. f \in Range(s) <=> m.next <= f /\ f < m.next + fresh
      <4>1. ASSUME f \in Range(s) PROVE m.next <= f /\ f < m.next + fresh
        <5>1. PICK i \in 1 .. n : f = q[i]
          BY <1>7, <4>1 DEF Range
        <5>2. i \in 1 .. Len(q) /\ ~(i <= c)
          BY <1>1, <2>2, <5>1
        <5>3. f = m.next + (i - c) - 1
          BY <1>1, <5>1, <5>2
        <5>4. i \in Nat /\ i > c /\ i <= n
          BY <1>1, <1>4, <5>2
        <5>5. fresh = n - c
          BY <1>1, <1>4, <5>4
        <5> QED
          BY <1>1, <1>4, <5>3, <5>4, <5>5
      <4>2. ASSUME m.next <= f, f < m.next + fresh PROVE f \in Range(s)
        <5> DEFINE i == f - m.next + 1 + c
        <5>1. n > c /\ fresh = n - c
          BY <1>0, <1>1, <1>4, <2>0, <4>2
        <5>2. i \in 1 .. n /\ i > c /\ i - c = f - m.next + 1
          <6>1. f < m.next + (n - c) /\ m.next <= f
            BY <4>2, <5>1
          <6>2. c \in Nat /\ n \in Nat /\ m.next \in Nat /\ n > c
            BY <1>0, <1>1, <1>4, <5>1
          <6> QED
            BY SMTT(30), <2>0, <6>1, <6>2
        <5>3. i \in 1 .. Len(q)
          BY <1>1, <5>2
        <5>4. q[i] = m.next + (f - m.next + 1) - 1
          <6> HIDE DEF i
          <6> QED
            BY <1>1, <5>2, <5>3
        <5>5. s[i] = f
          <6>1. m.next + (f - m.next + 1) - 1 = f
            BY <1>0, <2>0
          <6> HIDE DEF i
          <6> QED
            BY <1>7, <5>2, <5>4, <6>1
        <5> HIDE DEF i
        <5> QED
          BY <1>7, <5>2, <5>5 DEF Range
      <4> QED
        BY <4>1, <4>2
    <3>2. f \in Avail(t) <=> f >= m.next + fresh
      BY <1>5, <2>2 DEF Avail
    <3>3. f \in Avail(m) <=> f >= m.next
      BY <2>2 DEF Avail
    <3> QED
      BY <1>0, <1>4, <2>0, <3>1, <3>2, <3>3
  <2> QED
    BY <2>1, <2>2
<1>9. Avail(t) \subseteq Frames /\ Avail(m) \subseteq Frames
  BY <1>0, <1>5 DEF Avail
<1>10. Avail(t) = Avail(m) \ Range(s)
  BY <1>8, <1>9
<1> QED
  BY <1>5, <1>6, <1>10 DEF q, s, t

-----------------------------------------------------------------------------
(***************************************************************************)
(* ref_release, k[f] times for every frame: the books stay right, and the  *)
(* frames that have lost their last reference become available.            *)
(***************************************************************************)
LEMMA Releases ==
  ASSUME NEW m \in MemTypes, NEW n \in [Frames -> Nat], NEW k \in [Frames -> Nat],
         NEW l \in [Frames -> Nat], \A f \in Frames : n[f] = l[f] + k[f], Counted(m, n)
  PROVE  /\ Released(m, k) \in MemTypes /\ Counted(Released(m, k), l)
         /\ Released(m, k).roots = m.roots /\ Released(m, k).pt = m.pt
         /\ Released(m, k).lost = m.lost /\ Released(m, k).next = m.next
         /\ Released(m, k).left = m.left
         /\ \A f \in m.stale : f \in Released(m, k).stale \/ l[f] = 0
<1> DEFINE r == Released(m, k)
           gone == {f \in Frames : LastRelease(m.refcounts[f], k[f])}
           counts == [f \in Frames |-> RefRelease(m.refcounts[f], k[f])]
<1>0. Frames \subseteq Nat /\ m.free \in SUBSET Frames /\ m.refcounts \in [Frames -> Nat]
  BY MemoryAssumption DEF Frames, MemTypes
<1>1. r = [m EXCEPT !.refcounts = counts, !.free = m.free \cup gone, !.stale = m.stale \ gone]
  BY DEF Released
<1>2. ASSUME NEW f \in Frames
      PROVE  /\ RefRelease(m.refcounts[f], k[f]) = IF l[f] >= 2 THEN l[f] ELSE 0
             /\ LastRelease(m.refcounts[f], k[f]) <=> k[f] > 0 /\ l[f] = 0
  <2>1. /\ m.refcounts[f] = IF n[f] >= 2 THEN n[f] ELSE 0
        /\ n[f] \in Nat /\ k[f] \in Nat /\ l[f] \in Nat /\ n[f] = l[f] + k[f]
    BY DEF Counted
  <2>2. Max({m.refcounts[f], 1}) = IF m.refcounts[f] <= 1 THEN 1 ELSE m.refcounts[f]
    BY <1>0, OfTwo
  <2> QED
    BY <2>1, <2>2 DEF RefRelease, LastRelease
<1>3. counts \in [Frames -> Nat] /\ \A f \in Frames : counts[f] = IF l[f] >= 2 THEN l[f] ELSE 0
  BY <1>2
<1>4. \A f \in Frames : f \in gone <=> k[f] > 0 /\ l[f] = 0
  BY <1>2
<1>5. gone \in SUBSET Frames
  OBVIOUS
<1> HIDE DEF r, gone, counts
<1>6. /\ r \in MemTypes /\ r.refcounts = counts /\ r.free = m.free \cup gone
      /\ r.roots = m.roots /\ r.pt = m.pt /\ r.lost = m.lost /\ r.next = m.next
      /\ r.left = m.left /\ r.stale = m.stale \ gone
  BY <1>1, <1>3, <1>5 DEF MemTypes
<1>7. \A f \in gone : f \in Frames /\ f \notin m.roots /\ f \notin Avail(m)
  <2> TAKE f \in gone
  <2>1. f \in Frames /\ n[f] # 0
    BY <1>4, <1>5
  <2> QED
    BY <2>1 DEF Counted
<1>8. \A f \in Avail(r) : f \in Avail(m) \/ f \in gone
  BY <1>6 DEF Avail
<1>9. \A f \in Avail(m) \cup gone : f \in Avail(r)
  BY <1>6 DEF Avail
<1>10. \A f \in r.free : f < r.next
  <2>1. \A f \in gone : f < m.next
    <3> TAKE f \in gone
    <3>1. f \in Frames /\ ~(f >= m.next)
      BY <1>7 DEF Avail
    <3>2. f \in Nat /\ m.next \in Nat
      BY <1>0, <3>1, MemoryAssumption DEF MemTypes
    <3> QED
      BY <3>1, <3>2
  <2> QED
    BY <1>6, <2>1 DEF Counted
<1>11. ASSUME NEW f \in Frames
       PROVE  /\ r.refcounts[f] = IF l[f] >= 2 THEN l[f] ELSE 0
              /\ f \in Avail(r) => l[f] = 0 /\ f \notin r.roots
              /\ f \in r.roots => l[f] = 0
              /\ f \notin Avail(r) /\ f \notin r.roots /\ l[f] = 0 => f \in r.lost
  <2>1. n[f] \in Nat /\ k[f] \in Nat /\ l[f] \in Nat /\ n[f] = l[f] + k[f]
    OBVIOUS
  <2>2. n[f] = 0 => l[f] = 0
    BY <2>1
  <2>3. f \in Avail(m) => n[f] = 0 /\ f \notin m.roots
    BY DEF Counted
  <2>4. f \in m.roots => n[f] = 0
    BY DEF Counted
  <2>5. f \notin Avail(m) /\ f \notin m.roots /\ n[f] = 0 => f \in m.lost
    BY DEF Counted
  <2>6. l[f] = 0 => n[f] = 0 \/ f \in gone
    BY <1>4, <2>1
  <2>7. f \in gone => l[f] = 0 /\ f \notin m.roots
    BY <1>4, <1>7
  <2> QED
    BY <1>3, <1>6, <1>8, <1>9, <2>2, <2>3, <2>4, <2>5, <2>6, <2>7
<1>12. Counted(r, l)
  BY <1>10, <1>11 DEF Counted
<1>13. \A f \in m.stale : f \in r.stale \/ l[f] = 0
  <2>1. m.stale \subseteq Frames
    BY DEF MemTypes
  <2> QED
    BY <1>4, <1>6, <2>1
<1> QED
  BY <1>6, <1>12, <1>13 DEF r

(***************************************************************************)
(* Where a frame is mapped outside one address space.                      *)
(***************************************************************************)
Elsewhere(m, root, f) ==
  {x \in (m.roots \ {root}) \X Pages : m.pt[x[1]][x[2]].frame = f}

(***************************************************************************)
(* The mappings of a frame, counted by address space.                      *)
(***************************************************************************)
LEMMA CountByRoot ==
  ASSUME NEW m \in MemTypes, NEW root \in Frames, NEW f \in Frames
  PROVE  /\ IsFiniteSet(MapsTo(m, f)) /\ Cardinality(MapsTo(m, f)) \in Nat
         /\ IsFiniteSet(At(m.pt[root], f)) /\ Cardinality(At(m.pt[root], f)) \in Nat
         /\ Cardinality(Elsewhere(m, root, f)) \in Nat
         /\ root \in m.roots => Cardinality(MapsTo(m, f)) =
               Cardinality(Elsewhere(m, root, f)) + Cardinality(At(m.pt[root], f))
         /\ root \notin m.roots => Cardinality(MapsTo(m, f)) = Cardinality(Elsewhere(m, root, f))
<1> DEFINE M == MapsTo(m, f)
           A == At(m.pt[root], f)
           E == Elsewhere(m, root, f)
           B == {root} \X A
<1>0. m.roots \in SUBSET Frames /\ IsFiniteSet(Frames) /\ IsFiniteSet(Pages)
  <2>1. NumFrames \in Int /\ TopPage \in Int /\ BrkBase \in Int /\ 1 \in Int
    BY MemoryAssumption DEF BrkBase
  <2> QED
    BY <2>1, FS_Interval DEF MemTypes, Frames, Pages
<1>1. IsFiniteSet(m.roots) /\ IsFiniteSet(m.roots \ {root})
  <2>1. m.roots \ {root} \in SUBSET Frames
    BY <1>0
  <2> QED
    BY <1>0, <2>1, FS_Subset
<1>2. IsFiniteSet(m.roots \X Pages) /\ IsFiniteSet((m.roots \ {root}) \X Pages)
  BY <1>0, <1>1, FS_Product
<1>3. M \in SUBSET (m.roots \X Pages) /\ E \in SUBSET ((m.roots \ {root}) \X Pages)
      /\ A \in SUBSET Pages
  BY DEF MapsTo, Elsewhere, At
<1> HIDE DEF M, A, E
<1>4. /\ IsFiniteSet(M) /\ IsFiniteSet(E) /\ IsFiniteSet(A)
      /\ Cardinality(M) \in Nat /\ Cardinality(E) \in Nat /\ Cardinality(A) \in Nat
  <2>1. IsFiniteSet(M) /\ IsFiniteSet(E) /\ IsFiniteSet(A)
    BY <1>0, <1>2, <1>3, FS_Subset
  <2> QED
    BY <2>1, FS_CardinalityType
<1>5. IsFiniteSet(B) /\ Cardinality(B) = Cardinality(A)
  <2>1. IsFiniteSet({root}) /\ Cardinality({root}) = 1
    BY FS_Singleton
  <2>2. IsFiniteSet(B) /\ Cardinality(B) = Cardinality({root}) * Cardinality(A)
    BY <1>4, <2>1, FS_Product
  <2> QED
    BY <1>4, <2>1, <2>2
<1>6. ASSUME root \in m.roots PROVE M = E \cup B
  <2>1. ASSUME NEW x \in M PROVE x \in E \cup B
    <3>1. x \in m.roots \X Pages /\ m.pt[x[1]][x[2]].frame = f
      BY <2>1 DEF M, MapsTo
    <3>2. CASE x[1] = root
      BY <3>1, <3>2 DEF A, At
    <3>3. CASE x[1] # root
      BY <3>1, <3>3 DEF E, Elsewhere
    <3> QED
      BY <3>2, <3>3
  <2>2. ASSUME NEW x \in E PROVE x \in M
    BY <2>2 DEF E, Elsewhere, M, MapsTo
  <2>3. ASSUME NEW x \in B PROVE x \in M
    BY <1>6, <2>3 DEF A, At, M, MapsTo
  <2> QED
    BY <2>1, <2>2, <2>3
<1>7. E \cap B = {}
  BY <1>3 DEF E, Elsewhere
<1>8. ASSUME root \in m.roots PROVE Cardinality(M) = Cardinality(E) + Cardinality(A)
  <2>0. M = E \cup B
    BY <1>6, <1>8
  <2> HIDE DEF B
  <2>1. Cardinality(E \cup B) = Cardinality(E) + Cardinality(B) - Cardinality(E \cap B)
    BY <1>4, <1>5, FS_Union
  <2>2. Cardinality(E \cap B) = 0
    BY <1>7, FS_EmptySet
  <2>3. Cardinality(M) = Cardinality(E) + Cardinality(A) - 0
    BY <1>5, <2>0, <2>1, <2>2
  <2> QED
    BY <1>4, <2>3
<1>9. root \notin m.roots => M = E
  BY DEF M, MapsTo, E, Elsewhere
<1> QED
  BY <1>4, <1>8, <1>9 DEF M, A, E

(***************************************************************************)
(* A change to one address space changes the count of a frame by what it   *)
(* changes there.                                                          *)
(***************************************************************************)
LEMMA OneSpaceChanges ==
  ASSUME NEW m \in MemTypes, NEW m2 \in MemTypes, NEW root \in Frames, NEW f \in Frames,
         m2.roots \ {root} = m.roots \ {root},
         \A r \in m.roots \ {root} : m2.pt[r] = m.pt[r]
  PROVE  LET here(x) == IF root \in x.roots THEN Cardinality(At(x.pt[root], f)) ELSE 0
         IN  Cardinality(MapsTo(m2, f)) + here(m) = Cardinality(MapsTo(m, f)) + here(m2)
<1>1. Elsewhere(m2, root, f) = Elsewhere(m, root, f)
  BY DEF Elsewhere
<1> QED
  BY <1>1, CountByRoot

(***************************************************************************)
(* The number of references to a frame is a number.                        *)
(***************************************************************************)
LEMMA RefsFacts ==
  ASSUME NEW m \in MemTypes, NEW ob \in [Objects -> ObjTypes]
  PROVE  /\ Refs(m, ob) \in [Frames -> Nat]
         /\ \A f \in Frames :
              /\ IsFiniteSet(MapsTo(m, f)) /\ Cardinality(MapsTo(m, f)) \in Nat
              /\ IsFiniteSet(OwnersIn(ob, f)) /\ Cardinality(OwnersIn(ob, f)) \in Nat
              /\ Refs(m, ob)[f] = Cardinality(MapsTo(m, f)) + Cardinality(OwnersIn(ob, f))
<1>1. ASSUME NEW f \in Frames
      PROVE  /\ IsFiniteSet(MapsTo(m, f)) /\ Cardinality(MapsTo(m, f)) \in Nat
             /\ IsFiniteSet(OwnersIn(ob, f)) /\ Cardinality(OwnersIn(ob, f)) \in Nat
  <2>1. IsFiniteSet(MapsTo(m, f)) /\ Cardinality(MapsTo(m, f)) \in Nat
    BY CountByRoot
  <2>2. OwnersIn(ob, f) \in SUBSET Objects
    BY DEF OwnersIn
  <2>3. IsFiniteSet(Objects)
    BY MemoryAssumption
  <2>4. IsFiniteSet(OwnersIn(ob, f))
    BY <2>2, <2>3, FS_Subset
  <2> QED
    BY <2>1, <2>4, FS_CardinalityType
<1>2. \A f \in Frames :
        Refs(m, ob)[f] = Cardinality(MapsTo(m, f)) + Cardinality(OwnersIn(ob, f))
  BY DEF Refs
<1>3. \A f \in Frames : Cardinality(MapsTo(m, f)) + Cardinality(OwnersIn(ob, f)) \in Nat
  <2> TAKE f \in Frames
  <2>1. Cardinality(MapsTo(m, f)) \in Nat /\ Cardinality(OwnersIn(ob, f)) \in Nat
    BY <1>1
  <2> QED
    BY <2>1
<1>4. Refs(m, ob) \in [Frames -> Nat]
  BY <1>3 DEF Refs
<1> QED
  BY <1>1, <1>2, <1>4

(***************************************************************************)
(* A frame that is mapped, or owned, has a reference; one that is both has *)
(* two.                                                                    *)
(***************************************************************************)
LEMMA HasReference ==
  ASSUME NEW m \in MemTypes, NEW ob \in [Objects -> ObjTypes], NEW f \in Frames
  PROVE  /\ MapsTo(m, f) # {} => Refs(m, ob)[f] >= 1
         /\ OwnersIn(ob, f) # {} => Refs(m, ob)[f] >= 1
         /\ MapsTo(m, f) # {} /\ OwnersIn(ob, f) # {} => Refs(m, ob)[f] >= 2
<1> DEFINE a == Cardinality(MapsTo(m, f))
           b == Cardinality(OwnersIn(ob, f))
<1>1. /\ IsFiniteSet(MapsTo(m, f)) /\ a \in Nat /\ IsFiniteSet(OwnersIn(ob, f)) /\ b \in Nat
      /\ Refs(m, ob)[f] = a + b
  BY RefsFacts
<1>2. MapsTo(m, f) # {} => a # 0
  BY <1>1, FS_EmptySet
<1>3. OwnersIn(ob, f) # {} => b # 0
  BY <1>1, FS_EmptySet
<1> HIDE DEF a, b
<1> QED
  BY <1>1, <1>2, <1>3

(***************************************************************************)
(* The entries of one table are changed.                                   *)
(***************************************************************************)
LEMMA RefsOfTable ==
  ASSUME NEW m \in MemTypes, NEW m2 \in MemTypes, NEW ob \in [Objects -> ObjTypes],
         NEW root \in m.roots, NEW f \in Frames, m2.roots = m.roots,
         \A r \in m.roots \ {root} : m2.pt[r] = m.pt[r]
  PROVE  /\ Cardinality(At(m.pt[root], f)) \in Nat /\ Cardinality(At(m2.pt[root], f)) \in Nat
         /\ Refs(m2, ob)[f] + Cardinality(At(m.pt[root], f)) =
              Refs(m, ob)[f] + Cardinality(At(m2.pt[root], f))
<1> DEFINE a == Cardinality(At(m.pt[root], f))
           b == Cardinality(At(m2.pt[root], f))
           x == Cardinality(MapsTo(m, f))
           y == Cardinality(MapsTo(m2, f))
           z == Cardinality(OwnersIn(ob, f))
<1>0. root \in Frames
  BY DEF MemTypes
<1>1. a \in Nat /\ b \in Nat /\ y + a = x + b
  BY <1>0, CountByRoot, OneSpaceChanges
<1>2. x \in Nat /\ y \in Nat /\ z \in Nat /\ Refs(m, ob)[f] = x + z /\ Refs(m2, ob)[f] = y + z
  BY RefsFacts
<1> HIDE DEF a, b, x, y, z
<1>3. (y + z) + a = (x + z) + b
  BY <1>1, <1>2
<1> QED
  BY <1>1, <1>2, <1>3 DEF a, b

-----------------------------------------------------------------------------
(***************************************************************************)
(* Frames are handed out: each becomes an address space, gets its first    *)
(* reference, or is lost.                                                  *)
(***************************************************************************)
LEMMA HandsOut ==
  ASSUME NEW m \in MemTypes, NEW t \in MemTypes, NEW n \in [Frames -> Nat],
         NEW l \in [Frames -> Nat], Counted(m, n),
         \A f \in t.free : f < t.next, t.refcounts = m.refcounts,
         Avail(t) \subseteq Avail(m), m.roots \subseteq t.roots, m.lost \subseteq t.lost,
         \A f \in t.roots : f \in m.roots \/ (f \in Avail(m) \ Avail(t) /\ l[f] = 0),
         \A f \in Frames : l[f] = n[f] \/ (f \in Avail(m) \ Avail(t) /\ l[f] = 1),
         \A f \in Avail(m) \ Avail(t) : l[f] = 1 \/ f \in t.roots \/ f \in t.lost
  PROVE  Counted(t, l)
<1>1. ASSUME NEW f \in Frames
      PROVE  /\ t.refcounts[f] = IF l[f] >= 2 THEN l[f] ELSE 0
             /\ f \in Avail(t) => l[f] = 0 /\ f \notin t.roots
             /\ f \in t.roots => l[f] = 0
             /\ f \notin Avail(t) /\ f \notin t.roots /\ l[f] = 0 => f \in t.lost
  <2>1. /\ m.refcounts[f] = IF n[f] >= 2 THEN n[f] ELSE 0
        /\ f \in Avail(m) => n[f] = 0 /\ f \notin m.roots
        /\ f \in m.roots => n[f] = 0
        /\ f \notin Avail(m) /\ f \notin m.roots /\ n[f] = 0 => f \in m.lost
    BY DEF Counted
  <2>2. n[f] \in Nat /\ l[f] \in Nat
    OBVIOUS
  <2>3. CASE f \in Avail(m) \ Avail(t)
    <3>1. n[f] = 0 /\ m.refcounts[f] = 0 /\ (l[f] = 0 \/ l[f] = 1)
      BY <2>1, <2>3
    <3> QED
      BY <2>1, <2>3, <3>1
  <2>4. CASE f \notin Avail(m) \ Avail(t)
    <3>1. l[f] = n[f] /\ (f \in t.roots <=> f \in m.roots) /\ (f \in Avail(t) <=> f \in Avail(m))
      BY <2>4
    <3> QED
      BY <2>1, <3>1
  <2> QED
    BY <2>3, <2>4
<1> QED
  BY <1>1 DEF Counted

(***************************************************************************)
(* ref_share, k[f] times for every frame.                                  *)
(***************************************************************************)
Reshared(m, k) == [m EXCEPT !.refcounts = [f \in Frames |-> RefShare(m.refcounts[f], k[f])]]

(***************************************************************************)
(* The books stay right when the frames have an owner.                     *)
(***************************************************************************)
LEMMA Shares ==
  ASSUME NEW m \in MemTypes, NEW n \in [Frames -> Nat], NEW k \in [Frames -> Nat],
         NEW l \in [Frames -> Nat], \A f \in Frames : l[f] = n[f] + k[f], Counted(m, n),
         \A f \in Frames : k[f] = 0 \/ n[f] >= 1
  PROVE  /\ Reshared(m, k) \in MemTypes /\ Counted(Reshared(m, k), l)
         /\ Reshared(m, k).roots = m.roots /\ Reshared(m, k).pt = m.pt
         /\ Reshared(m, k).stale = m.stale
<1> DEFINE counts == [f \in Frames |-> RefShare(m.refcounts[f], k[f])]
           s == Reshared(m, k)
<1>1. ASSUME NEW f \in Frames
      PROVE  /\ RefShare(m.refcounts[f], k[f]) = IF l[f] >= 2 THEN l[f] ELSE 0
             /\ n[f] = 0 => l[f] = 0
             /\ l[f] = 0 => n[f] = 0
             /\ l[f] \in Nat
  <2>1. /\ m.refcounts[f] = IF n[f] >= 2 THEN n[f] ELSE 0
        /\ n[f] \in Nat /\ k[f] \in Nat /\ l[f] \in Nat /\ l[f] = n[f] + k[f]
        /\ k[f] = 0 \/ n[f] >= 1
    BY DEF Counted
  <2>2. m.refcounts[f] \in Nat
    BY DEF MemTypes
  <2>3. Max({m.refcounts[f], 1}) = IF m.refcounts[f] <= 1 THEN 1 ELSE m.refcounts[f]
    BY <2>2, OfTwo
  <2> QED
    BY <2>1, <2>2, <2>3 DEF RefShare
<1>2. counts \in [Frames -> Nat] /\ \A f \in Frames : counts[f] = IF l[f] >= 2 THEN l[f] ELSE 0
  BY <1>1
<1> HIDE DEF counts
<1>3. /\ s \in MemTypes /\ s.refcounts = counts /\ s.free = m.free /\ s.next = m.next
      /\ s.roots = m.roots /\ s.lost = m.lost /\ s.pt = m.pt /\ s.stale = m.stale
  <2>1. s = [m EXCEPT !.refcounts = counts]
    BY DEF Reshared, counts
  <2> HIDE DEF s
  <2> QED
    BY <1>2, <2>1 DEF MemTypes
<1> HIDE DEF s
<1>4. Avail(s) = Avail(m)
  BY <1>3 DEF Avail
<1>5. Counted(s, l)
  BY <1>1, <1>2, <1>3, <1>4 DEF Counted
<1> QED
  BY <1>3, <1>5 DEF s

-----------------------------------------------------------------------------
(***************************************************************************)
(* A finite set in two parts.                                              *)
(***************************************************************************)
LEMMA TwoParts ==
  ASSUME NEW B, NEW C, IsFiniteSet(B \cup C), B \cap C = {}
  PROVE  /\ Cardinality(B) \in Nat /\ Cardinality(C) \in Nat
         /\ Cardinality(B \cup C) = Cardinality(B) + Cardinality(C)
<1>1. B \in SUBSET (B \cup C) /\ C \in SUBSET (B \cup C)
  OBVIOUS
<1>2. IsFiniteSet(B) /\ IsFiniteSet(C)
  BY <1>1, FS_Subset
<1>3. Cardinality(B) \in Nat /\ Cardinality(C) \in Nat
  BY <1>2, FS_CardinalityType
<1>4. Cardinality(B \cup C) = Cardinality(B) + Cardinality(C) - Cardinality(B \cap C)
  BY <1>2, FS_Union
<1>5. Cardinality(B \cap C) = 0
  BY FS_EmptySet
<1>6. Cardinality(B \cup C) = Cardinality(B) + Cardinality(C) - 0
  BY <1>4, <1>5
<1> QED
  BY <1>3, <1>6

(***************************************************************************)
(* References depend on the tables in use only.                            *)
(***************************************************************************)
LEMMA SameTables ==
  ASSUME NEW m, NEW m2, NEW ob, m2.roots = m.roots, \A r \in m.roots : m2.pt[r] = m.pt[r]
  PROVE  Refs(m2, ob) = Refs(m, ob)
<1>1. \A f \in Frames : MapsTo(m2, f) = MapsTo(m, f)
  BY DEF MapsTo
<1> QED
  BY <1>1 DEF Refs

(***************************************************************************)
(* A page table is replaced, and what is left behind and what is stale.    *)
(***************************************************************************)
WithTable(m, root, table, left, stale) ==
  [m EXCEPT !.pt[root] = table, !.left = left, !.stale = stale]

HistoryTypes(left, stale) == left \subseteq Frames \X Pages /\ stale \subseteq Frames

(***************************************************************************)
(* The rest of the memory stays as it is.                                  *)
(***************************************************************************)
LEMMA TableChanges ==
  ASSUME NEW m \in MemTypes, NEW root \in m.roots, NEW table \in [Pages -> Entries],
         NEW left, NEW stale, HistoryTypes(left, stale)
  PROVE  LET c == WithTable(m, root, table, left, stale)
         IN  /\ c \in MemTypes /\ c.pt[root] = table
             /\ \A r \in Frames \ {root} : c.pt[r] = m.pt[r]
             /\ c.roots = m.roots /\ c.free = m.free /\ c.next = m.next /\ c.lost = m.lost
             /\ c.refcounts = m.refcounts /\ Avail(c) = Avail(m)
             /\ c.left = left /\ c.stale = stale
             /\ \A n : Counted(m, n) => Counted(c, n)
<1> DEFINE c == WithTable(m, root, table, left, stale)
<1>1. root \in Frames
  BY DEF MemTypes
<1>2. /\ c \in MemTypes /\ c.pt[root] = table
      /\ \A r \in Frames \ {root} : c.pt[r] = m.pt[r]
      /\ c.roots = m.roots /\ c.free = m.free /\ c.next = m.next /\ c.lost = m.lost
      /\ c.refcounts = m.refcounts /\ c.left = left /\ c.stale = stale
  BY <1>1 DEF MemTypes, WithTable, HistoryTypes
<1> HIDE DEF c
<1>3. Avail(c) = Avail(m)
  BY <1>2 DEF Avail
<1>4. \A n : Counted(m, n) => Counted(c, n)
  BY <1>2, <1>3 DEF Counted
<1> QED
  BY <1>2, <1>3, <1>4 DEF c

(***************************************************************************)
(* unmap_and_release_user_page over a range.                               *)
(***************************************************************************)
LEMMA UnmappedFacts ==
  ASSUME NEW m \in MemTypes, NEW ob \in [Objects -> ObjTypes], NEW root \in m.roots,
         NEW range \in SUBSET Pages, Counted(m, Refs(m, ob))
  PROVE  LET u == Unmapped(m, root, range)
         IN  /\ u \in MemTypes /\ u.roots = m.roots
             /\ \A r \in Frames \ {root} : u.pt[r] = m.pt[r]
             /\ \A v \in Pages : u.pt[root][v] =
                  IF v \in range /\ Present(m.pt[root][v]) THEN NoPage ELSE m.pt[root][v]
             /\ Counted(u, Refs(u, ob))
             /\ \A f \in Frames : Refs(u, ob)[f] <= Refs(m, ob)[f]
             /\ \A f \in m.stale : f \in u.stale \/ Refs(u, ob)[f] = 0
<1> DEFINE T == m.pt[root]
           hit == {v \in range : Present(T[v])}
           miss == {v \in range : T[v] # NoPage /\ v \notin hit}
           left2 == m.left \cup ({root} \X miss)
           T2 == [v \in Pages |-> IF v \in hit THEN NoPage ELSE T[v]]
           c == WithTable(m, root, T2, left2, m.stale)
           K(f) == {v \in hit : T[v].frame = f}
           k == [f \in Frames |-> Cardinality(K(f))]
           u == Unmapped(m, root, range)
           n == Refs(m, ob)
           l == Refs(c, ob)
<1>0. root \in Frames /\ T \in [Pages -> Entries] /\ hit \in SUBSET Pages
  BY DEF MemTypes
<1>1. u = Released(c, k)
  <2>1. c = [m EXCEPT !.pt[root] = T2, !.left = left2]
    <3> HIDE DEF T2, left2
    <3> QED
      BY DEF WithTable, MemTypes
  <2>2. Unmapped(m, root, range) = Released([m EXCEPT !.pt[root] = T2, !.left = left2], k)
    BY DEF Unmapped
  <2> QED
    BY <2>1, <2>2, Zenon
<1>2. T2 \in [Pages -> Entries] /\ left2 \in SUBSET (Frames \X Pages)
  <2>1. left2 \in SUBSET (Frames \X Pages)
    BY <1>0 DEF MemTypes
  <2> QED
    BY <1>0, <2>1 DEF Entries
<1>3. /\ c \in MemTypes /\ c.pt[root] = T2 /\ c.roots = m.roots /\ Counted(c, n)
      /\ \A r \in Frames \ {root} : c.pt[r] = m.pt[r]
      /\ c.stale = m.stale
  <2>1. Counted(m, n) /\ HistoryTypes(left2, m.stale)
    BY <1>2 DEF MemTypes, HistoryTypes
  <2> HIDE DEF T2, n, left2
  <2> QED
    BY <1>2, <2>1, TableChanges
<1>4. n \in [Frames -> Nat] /\ l \in [Frames -> Nat]
  <2> HIDE DEF c
  <2> QED
    BY <1>3, RefsFacts
<1>5. ASSUME NEW f \in Frames PROVE n[f] = l[f] + k[f] /\ k[f] \in Nat
  <2>0. f # 0
    BY MemoryAssumption DEF Frames
  <2>1. At(T, f) = At(T2, f) \cup K(f) /\ At(T2, f) \cap K(f) = {}
    BY <1>0, <2>0 DEF At, NoPage
  <2>2. IsFiniteSet(At(T, f))
    BY <1>0, CountByRoot
  <2> DEFINE a == Cardinality(At(T, f))
             b == Cardinality(At(T2, f))
             d == Cardinality(K(f))
  <2>3. a = b + d /\ a \in Nat /\ b \in Nat /\ d \in Nat
    <3> HIDE DEF K, T, T2
    <3>1. a = b + d /\ b \in Nat /\ d \in Nat
      BY ZenonT(40), <2>1, <2>2, TwoParts
    <3> QED
      BY <3>1
  <2>4. l[f] + a = n[f] + b
    <3>1. \A r \in m.roots \ {root} : c.pt[r] = m.pt[r]
      BY <1>3 DEF MemTypes
    <3> HIDE DEF c, T2
    <3> QED
      BY <1>3, <3>1, RefsOfTable
  <2>5. l[f] \in Nat /\ n[f] \in Nat
    BY <1>4
  <2>6. k[f] = d
    OBVIOUS
  <2> HIDE DEF k, a, b, d, l, n
  <2> QED
    BY <2>3, <2>4, <2>5, <2>6
<1>6. k \in [Frames -> Nat]
  <2> HIDE DEF K
  <2> QED
    BY <1>5
<1>7. /\ u \in MemTypes /\ Counted(u, l) /\ u.roots = c.roots /\ u.pt = c.pt
      /\ \A f \in m.stale : f \in u.stale \/ l[f] = 0
  <2> HIDE DEF c, k, l, n
  <2> QED
    BY <1>1, <1>3, <1>4, <1>5, <1>6, Releases
<1>8. Refs(u, ob) = l
  <2> HIDE DEF c, u
  <2> QED
    BY <1>7, SameTables
<1>9. \A f \in Frames : l[f] <= n[f]
  <2> TAKE f \in Frames
  <2>1. n[f] = l[f] + k[f] /\ k[f] \in Nat /\ l[f] \in Nat /\ n[f] \in Nat
    BY <1>4, <1>5
  <2> HIDE DEF k, l, n
  <2> QED
    BY <2>1
<1>10. \A v \in Pages : u.pt[root][v] =
         IF v \in range /\ Present(m.pt[root][v]) THEN NoPage ELSE m.pt[root][v]
  <2>1. u.pt[root] = T2
    BY <1>3, <1>7
  <2> HIDE DEF u
  <2> QED
    BY <2>1
<1>11. u.roots = m.roots /\ \A r \in Frames \ {root} : u.pt[r] = m.pt[r]
  <2> HIDE DEF u, c
  <2> QED
    BY <1>3, <1>7
<1> HIDE DEF u, l, n
<1> QED
  BY <1>7, <1>8, <1>9, <1>10, <1>11 DEF u, n

(***************************************************************************)
(* unmap_and_free_user_page does the same when each of the pages is the    *)
(* only reference to its frame.                                            *)
(***************************************************************************)
LEMMA FreedIsUnmapped ==
  ASSUME NEW m \in MemTypes, NEW ob \in [Objects -> ObjTypes], NEW root \in m.roots,
         NEW range \in SUBSET Pages, Counted(m, Refs(m, ob)),
         \A v \in range : /\ Present(m.pt[root][v]) /\ m.pt[root][v].frame \notin m.stale
                          /\ Refs(m, ob)[m.pt[root][v].frame] = 1
  PROVE  Freed(m, root, range) = Unmapped(m, root, range)
<1> DEFINE T == m.pt[root]
           hit == {v \in range : Present(T[v])}
           T2 == [v \in Pages |-> IF v \in hit THEN NoPage ELSE T[v]]
           c == WithTable(m, root, T2, m.left, m.stale)
           K(f) == {v \in hit : T[v].frame = f}
           k == [f \in Frames |-> Cardinality(K(f))]
           n == Refs(m, ob)
           shown == {T[v].frame : v \in hit}
<1>0. root \in Frames /\ T \in [Pages -> Entries] /\ hit \in SUBSET Pages
  BY DEF MemTypes
<1>1. Unmapped(m, root, range) = Released(c, k)
  <2> DEFINE miss == {v \in range : T[v] # NoPage /\ v \notin hit}
  <2>1. Unmapped(m, root, range) =
          Released([m EXCEPT !.pt[root] = T2, !.left = m.left \cup ({root} \X miss)], k)
    BY DEF Unmapped
  <2>2. m.left \cup ({root} \X miss) = m.left
    OBVIOUS
  <2>3. c = [m EXCEPT !.pt[root] = T2, !.left = m.left]
    <3> HIDE DEF T2
    <3> QED
      BY DEF WithTable, MemTypes
  <2> HIDE DEF c, T2, k, miss
  <2> QED
    BY <2>1, <2>2, <2>3, Zenon
<1>2. Freed(m, root, range) = [m EXCEPT !.pt[root] = T2, !.free = m.free \cup shown]
  BY DEF Freed
<1>3. ASSUME NEW f \in Frames
      PROVE  /\ k[f] \in {0, 1} /\ (k[f] = 1 <=> f \in shown)
             /\ k[f] = 1 => m.refcounts[f] = 0
  <2>1. K(f) \in SUBSET At(T, f)
    BY <1>0 DEF At
  <2>2. IsFiniteSet(At(T, f)) /\ Cardinality(At(T, f)) \in Nat
    BY <1>0, CountByRoot
  <2>3. /\ IsFiniteSet(K(f)) /\ Cardinality(K(f)) \in Nat
        /\ Cardinality(K(f)) <= Cardinality(At(T, f))
    <3> HIDE DEF K, T
    <3> QED
      BY <2>1, <2>2, FS_Subset, FS_CardinalityType
  <2>4. Cardinality(K(f)) = 0 <=> K(f) = {}
    <3> HIDE DEF K
    <3> QED
      BY <2>3, FS_EmptySet
  <2>5. f \in shown <=> K(f) # {}
    OBVIOUS
  <2>6. k[f] = Cardinality(K(f))
    OBVIOUS
  <2>7. ASSUME K(f) # {} PROVE Cardinality(K(f)) = 1 /\ m.refcounts[f] = 0
    <3>1. n[f] = 1
      BY <2>7
    <3>2. Cardinality(At(T, f)) <= n[f]
      <4> DEFINE a == Cardinality(At(T, f))
                 b == Cardinality(MapsTo(m, f))
                 d == Cardinality(OwnersIn(ob, f))
                 e == Cardinality(Elsewhere(m, root, f))
      <4>1. a \in Nat /\ b \in Nat /\ e \in Nat /\ b = e + a
        BY <1>0, CountByRoot
      <4>2. d \in Nat /\ n[f] = b + d
        BY RefsFacts
      <4> HIDE DEF a, b, d, e, n
      <4> QED
        BY <4>1, <4>2 DEF a
    <3>3. m.refcounts[f] = IF n[f] >= 2 THEN n[f] ELSE 0
      BY DEF Counted
    <3> HIDE DEF K, n, T
    <3> QED
      BY <2>2, <2>3, <2>4, <2>7, <3>1, <3>2, <3>3
  <2> HIDE DEF K, k, shown
  <2> QED
    BY <2>3, <2>4, <2>5, <2>6, <2>7
<1>4. shown \in SUBSET Frames
  <2> SUFFICES ASSUME NEW v \in hit PROVE T[v].frame \in Frames
    OBVIOUS
  <2>1. T[v] \in Entries /\ T[v] # NoPage
    BY <1>0 DEF Present
  <2> HIDE DEF T
  <2> QED
    BY <2>1 DEF Entries
<1> HIDE DEF k, shown
<1>5. \A f \in Frames : /\ RefRelease(m.refcounts[f], k[f]) = m.refcounts[f]
                        /\ LastRelease(m.refcounts[f], k[f]) <=> f \in shown
  <2> TAKE f \in Frames
  <2>1. m.refcounts[f] \in Nat
    BY DEF MemTypes
  <2>2. CASE k[f] = 0
    BY <1>3, <2>2 DEF RefRelease, LastRelease
  <2>3. CASE k[f] = 1
    <3>1. Max({0, 1}) = 1
      <4>1. 0 \in Nat /\ 1 \in Nat
        OBVIOUS
      <4>2. Max({0, 1}) = IF 0 <= 1 THEN 1 ELSE 0
        BY <4>1, OfTwo, Zenon
      <4> QED
        BY <4>2
    <3>2. m.refcounts[f] = 0 /\ f \in shown
      BY <1>3, <2>3
    <3>3. RefRelease(0, 1) = 0 /\ LastRelease(0, 1)
      BY <3>1 DEF RefRelease, LastRelease
    <3> QED
      BY <2>3, <3>2, <3>3
  <2> QED
    BY <1>3, <2>2, <2>3
<1>6. [f \in Frames |-> RefRelease(m.refcounts[f], k[f])] = m.refcounts
  <2>1. m.refcounts \in [Frames -> Nat]
    BY DEF MemTypes
  <2> QED
    BY <1>5, <2>1
<1>7. {f \in Frames : LastRelease(m.refcounts[f], k[f])} = shown
  BY <1>4, <1>5
<1>8. c.free = m.free /\ c.refcounts = m.refcounts /\ c \in MemTypes /\ c.stale = m.stale
  <2>1. T2 \in [Pages -> Entries] /\ HistoryTypes(m.left, m.stale)
    BY <1>0 DEF Entries, MemTypes, HistoryTypes
  <2> HIDE DEF T2
  <2> QED
    BY <2>1, TableChanges
<1>9. Unmapped(m, root, range) = [c EXCEPT !.free = m.free \cup shown]
  <2>1. Unmapped(m, root, range) =
          [c EXCEPT !.refcounts = m.refcounts, !.free = c.free \cup shown,
                    !.stale = c.stale \ shown]
    <3> HIDE DEF c
    <3> QED
      BY <1>1, <1>6, <1>7, <1>8 DEF Released
  <2>2. c.stale \ shown = c.stale
    BY <1>8 DEF shown
  <2> HIDE DEF c
  <2> QED
    BY <1>8, <2>1, <2>2 DEF MemTypes
<1>10. Freed(m, root, range) = [c EXCEPT !.free = m.free \cup shown]
  <2> HIDE DEF T2
  <2> QED
    BY <1>2 DEF MemTypes, WithTable
<1> QED
  BY <1>9, <1>10

-----------------------------------------------------------------------------
(***************************************************************************)
(* The pages of a free run are unused.                                     *)
(***************************************************************************)
LEMMA FreeRunFacts ==
  ASSUME NEW m, NEW root, NEW start \in Nat, NEW n \in Nat
  PROVE  /\ FreeRun(m, root, start, n) \in 0 .. n
         /\ \A w \in start .. start + FreeRun(m, root, start, n) - 1 : m.pt[root][w] = NoPage
<1> DEFINE used == {w \in start .. start + n - 1 : m.pt[root][w] # NoPage}
           dist == {n} \cup {v - start : v \in used}
           run == FreeRun(m, root, start, n)
<1>1. dist \subseteq Nat /\ dist # {}
  OBVIOUS
<1>2. run = Min(dist)
  BY DEF FreeRun
<1>3. n \in dist /\ \A w \in start .. start + n - 1 : m.pt[root][w] # NoPage => w - start \in dist
  OBVIOUS
<1> HIDE DEF dist, run
<1>4. run \in dist /\ \A y \in dist : run <= y
  BY <1>1, <1>2, MinInSet
<1>5. run \in Nat /\ run <= n
  BY <1>1, <1>3, <1>4
<1>6. ASSUME NEW w \in start .. start + run - 1 PROVE m.pt[root][w] = NoPage
  <2>1. w \in start .. start + n - 1 /\ w - start < run
    BY <1>5
  <2>2. w - start \in Nat
    BY <2>1
  <2> QED
    BY <1>3, <1>4, <1>5, <2>1, <2>2
<1> QED
  BY <1>5, <1>6 DEF run

(***************************************************************************)
(* A run of pages is unused, or shows the given frames.                    *)
(***************************************************************************)
Unused(table, start, n) == \A w \in start .. start + n - 1 : table[w] = NoPage

Shows(table, start, frames, prot) ==
  \A v \in start .. start + Len(frames) - 1 :
    /\ table[v] # NoPage /\ table[v].prot = prot
    /\ table[v].frame = frames[v - start + 1] /\ table[v].frame \in Range(frames)

(***************************************************************************)
(* How often a sequence lists a frame.                                     *)
(***************************************************************************)
Times(s, f) == Cardinality({i \in DOMAIN s : s[i] = f})

(***************************************************************************)
(* Entries for frames are put into unused pages.                           *)
(***************************************************************************)
LEMMA WithPagesFacts ==
  ASSUME NEW table \in [Pages -> Entries], NEW start \in Pages, NEW frames \in Seq(Frames),
         NEW prot \in Prots, start + Len(frames) <= TopPage,
         Unused(table, start, Len(frames))
  PROVE  LET t2 == WithPages(table, start, frames, prot)
         IN  /\ t2 \in [Pages -> Entries]
             /\ \A v \in Pages : table[v] # NoPage => t2[v] = table[v]
             /\ Shows(t2, start, frames, prot)
             /\ \A f \in Frames :
                  /\ Times(frames, f) \in Nat
                  /\ Cardinality(At(t2, f)) = Cardinality(At(table, f)) + Times(frames, f)
<1> DEFINE t2 == WithPages(table, start, frames, prot)
           n == Len(frames)
           range == start .. start + n - 1
<1>0. /\ n \in Nat /\ DOMAIN frames = 1 .. n /\ start \in Nat /\ TopPage \in Nat /\ start >= 1
      /\ Pages = 1 .. TopPage /\ Pages \subseteq Nat /\ start + n <= TopPage
      /\ \A i \in 1 .. n : frames[i] \in Frames
  BY MemoryAssumption DEF Pages, BrkBase
<1> HIDE DEF n
<1>1. range \subseteq Pages /\ \A v \in range : v - start + 1 \in 1 .. n
  BY <1>0
<1>2. \A v \in Pages : start <= v /\ v < start + n <=> v \in range
  BY <1>0
<1>3. t2 = [v \in Pages |-> IF start <= v /\ v < start + n
                            THEN [frame |-> frames[v - start + 1], prot |-> prot] ELSE table[v]]
  BY DEF WithPages, n
<1>4. \A v \in range : t2[v] = [frame |-> frames[v - start + 1], prot |-> prot]
  BY <1>1, <1>2, <1>3
<1>5. \A v \in Pages \ range : t2[v] = table[v]
  BY <1>2, <1>3
<1>6. DOMAIN t2 = Pages /\ t2 = [v \in Pages |-> t2[v]]
  BY <1>3
<1> HIDE DEF t2
<1>7. 0 \notin Frames
  BY MemoryAssumption DEF Frames
<1>8. ASSUME NEW v \in range
      PROVE  /\ t2[v] \in Entries /\ t2[v] # NoPage /\ t2[v].prot = prot
             /\ t2[v].frame = frames[v - start + 1] /\ t2[v].frame \in Range(frames)
  <2>1. v - start + 1 \in 1 .. n /\ frames[v - start + 1] \in Frames
    BY <1>0, <1>1
  <2>2. t2[v] = [frame |-> frames[v - start + 1], prot |-> prot]
    BY <1>4
  <2>3. frames[v - start + 1] \in Range(frames)
    BY <1>0, <2>1 DEF Range
  <2> DEFINE x == frames[v - start + 1]
  <2>4. x # 0 /\ x \in Frames
    BY <1>7, <2>1
  <2> HIDE DEF x
  <2>5. t2[v] = [frame |-> x, prot |-> prot]
    BY <2>2 DEF x
  <2> QED
    BY <2>3, <2>4, <2>5 DEF x, Entries, NoPage
<1>9. t2 \in [Pages -> Entries]
  <2>1. \A v \in Pages : t2[v] \in Entries
    BY <1>5, <1>8
  <2> QED
    BY <1>6, <2>1
<1>10. \A v \in Pages : table[v] # NoPage => t2[v] = table[v]
  BY <1>5 DEF n, Unused
<1>11. ASSUME NEW f \in Frames
       PROVE  /\ Cardinality({i \in 1 .. n : frames[i] = f}) \in Nat
              /\ Cardinality(At(t2, f)) = Cardinality(At(table, f)) +
                   Cardinality({i \in 1 .. n : frames[i] = f})
  <2> DEFINE I == {i \in 1 .. n : frames[i] = f}
             K == {v \in range : frames[v - start + 1] = f}
             g == [i \in I |-> start + i - 1]
  <2>1. At(t2, f) = At(table, f) \cup K
    <3>1. ASSUME NEW v \in Pages PROVE v \in At(t2, f) <=> v \in At(table, f) \cup K
      <4>1. CASE v \in range
        <5>1. table[v].frame # f
          BY <1>7, <4>1 DEF n, NoPage, Unused
        <5> QED
          BY <1>8, <4>1, <5>1 DEF At
      <4>2. CASE v \notin range
        BY <1>5, <4>2 DEF At
      <4> QED
        BY <4>1, <4>2
    <3>2. At(t2, f) \subseteq Pages /\ At(table, f) \cup K \subseteq Pages
      BY <1>1 DEF At
    <3> HIDE DEF K
    <3> QED
      BY <3>1, <3>2
  <2>2. At(table, f) \cap K = {}
    BY <1>7 DEF At, n, NoPage, Unused
  <2>3. IsFiniteSet(At(t2, f))
    <3>1. At(t2, f) \in SUBSET Pages
      BY DEF At
    <3>2. IsFiniteSet(Pages)
      BY <1>0, FS_Interval
    <3> QED
      BY <3>1, <3>2, FS_Subset
  <2>4. Cardinality(At(t2, f)) = Cardinality(At(table, f)) + Cardinality(K)
        /\ Cardinality(K) \in Nat
    <3> HIDE DEF K
    <3> QED
      BY <2>1, <2>2, <2>3, TwoParts
  <2>5. IsFiniteSet(I)
    <3>1. I \in SUBSET (1 .. n)
      OBVIOUS
    <3>2. IsFiniteSet(1 .. n)
      BY <1>0, FS_Interval
    <3> HIDE DEF I
    <3> QED
      BY <3>1, <3>2, FS_Subset
  <2>6. \A i \in I : start + i - 1 \in K
    <3> TAKE i \in I
    <3>1. i \in Nat /\ i >= 1 /\ i <= n
      BY <1>0
    <3>2. start + i - 1 \in range /\ (start + i - 1) - start + 1 = i
      BY <1>0, <3>1
    <3> QED
      BY <3>2
  <2>7. \A v \in K : v - start + 1 \in I /\ start + (v - start + 1) - 1 = v
    BY <1>0, <1>1
  <2>8. ExistsBijection(I, K)
    <3>1. g \in [I -> K]
      BY <2>6
    <3>2. \A i, j \in I : g[i] = g[j] => i = j
      BY <1>0
    <3>3. \A v \in K : \E i \in I : g[i] = v
      <4> TAKE v \in K
      <4>1. v - start + 1 \in I /\ g[v - start + 1] = start + (v - start + 1) - 1
        BY <2>7
      <4> HIDE DEF g, I, K
      <4> QED
        BY <2>7, <4>1
    <3> HIDE DEF g, I, K
    <3>4. g \in Bijection(I, K)
      BY <3>1, <3>2, <3>3 DEF Bijection, Injection, Surjection, IsInjective
    <3> QED
      BY <3>4 DEF ExistsBijection
  <2>9. Cardinality(K) = Cardinality(I)
    <3> HIDE DEF I, K
    <3> QED
      BY <2>5, <2>8, FS_Bijection
  <2> HIDE DEF I, K
  <2> QED
    BY <2>4, <2>9 DEF I
<1> QED
  BY <1>0, <1>8, <1>9, <1>10, <1>11 DEF t2, n, Times, Shows

-----------------------------------------------------------------------------
(***************************************************************************)
(* Parts of a sequence, and how often a sequence without repetition lists  *)
(* a value.                                                                *)
(***************************************************************************)
LEMMA RangeOfPart ==
  ASSUME NEW S, NEW q \in Seq(S), NEW a \in Nat, NEW b \in Nat, 1 <= a, a <= b + 1, b <= Len(q)
  PROVE  Range(SubSeq(q, a, b)) = {q[i] : i \in a .. b}
<1> DEFINE s == SubSeq(q, a, b)
<1>1. DOMAIN s = 1 .. (b - a + 1) /\ \A i \in 1 .. (b - a + 1) : s[i] = q[a + i - 1]
  OBVIOUS
<1>2. \A i \in 1 .. (b - a + 1) : a + i - 1 \in a .. b
  OBVIOUS
<1>3. \A j \in a .. b : j - a + 1 \in 1 .. (b - a + 1) /\ a + (j - a + 1) - 1 = j
  OBVIOUS
<1> HIDE DEF s
<1>4. Range(s) \subseteq {q[i] : i \in a .. b}
  BY <1>1, <1>2 DEF Range
<1>5. ASSUME NEW j \in a .. b PROVE q[j] \in Range(s)
  <2>1. s[j - a + 1] = q[a + (j - a + 1) - 1] /\ j - a + 1 \in DOMAIN s
    BY <1>1, <1>3
  <2>2. q[a + (j - a + 1) - 1] = q[j]
    BY <1>3
  <2> QED
    BY <2>1, <2>2 DEF Range
<1> QED
  BY <1>4, <1>5 DEF s

(***************************************************************************)
(* A sequence without repetition lists each of its values once.            *)
(***************************************************************************)
LEMMA ListedOnce ==
  ASSUME NEW S, NEW s \in Seq(S), IsInjective(s), NEW f
  PROVE  Times(s, f) = IF f \in Range(s) THEN 1 ELSE 0
<1> DEFINE I == {i \in DOMAIN s : s[i] = f}
<1>1. CASE f \in Range(s)
  <2>1. PICK j \in DOMAIN s : s[j] = f
    BY <1>1 DEF Range
  <2>2. I = {j}
    BY <2>1 DEF IsInjective
  <2> HIDE DEF I
  <2>3. Cardinality(I) = 1
    BY <2>2, FS_Singleton
  <2> QED
    BY <1>1, <2>3 DEF I, Times
<1>2. CASE f \notin Range(s)
  <2>2. I = {}
    BY <1>2 DEF Range
  <2> HIDE DEF I
  <2>3. Cardinality(I) = 0
    BY <2>2, FS_EmptySet
  <2> QED
    BY <1>2, <2>3 DEF I, Times
<1> QED
  BY <1>1, <1>2

(***************************************************************************)
(* Only frames without a reference, with an owner, or stale gain           *)
(* references; a frame is stale until its last reference goes.             *)
(***************************************************************************)
Calm(m, ob, m2, ob2) ==
  \A f \in Frames \ m2.stale :
    /\ \/ Refs(m2, ob2)[f] <= Refs(m, ob)[f] \/ Refs(m, ob)[f] = 0
       \/ OwnersIn(ob, f) # {}
    /\ f \in m.stale => Refs(m2, ob2)[f] = 0

(***************************************************************************)
(* alloc_and_map_user_pages: however far it gets, the books stay right and *)
(* used pages stay as they are; if it succeeds every page has a frame of   *)
(* its own.                                                                *)
(***************************************************************************)
LEMMA NewPagesFacts ==
  ASSUME NEW m \in MemTypes, NEW ob \in [Objects -> ObjTypes], NEW root \in m.roots,
         NEW start \in Pages, NEW n \in Nat, start + n <= TopPage, NEW prot \in Prots,
         Counted(m, Refs(m, ob))
  PROVE  LET p == NewPages(m, root, start, n, prot)
         IN  /\ p \in MemTypes /\ p.roots = m.roots /\ Counted(p, Refs(p, ob))
             /\ \A r \in Frames \ {root} : p.pt[r] = m.pt[r]
             /\ \A v \in Pages : m.pt[root][v] # NoPage => p.pt[root][v] = m.pt[root][v]
             /\ Calm(m, ob, p, ob)
             /\ NewPagesOk(m, root, start, n) =>
                  \A v \in start .. start + n - 1 :
                    /\ m.pt[root][v] = NoPage /\ p.pt[root][v] # NoPage
                    /\ p.pt[root][v].prot = prot /\ Refs(p, ob)[p.pt[root][v].frame] = 1
<1> DEFINE T == m.pt[root]
           q == AvailSeq(m)
           run == FreeRun(m, root, start, n)
           avail == Len(q)
           got == Min({run, avail})
           used == IF got < n /\ got < avail THEN got + 1 ELSE got
           s1 == SubSeq(q, 1, got)
           L == Range(SubSeq(q, got + 1, used))
           left2 == IF got < n THEN m.left \cup ({root} \X (start .. start + got - 1))
                    ELSE m.left
           t == Taken(m, used)
           T2 == WithPages(T, start, s1, prot)
           p == NewPages(m, root, start, n, prot)
           n0 == Refs(m, ob)
           l == Refs(p, ob)
<1>0. /\ root \in Frames /\ T \in [Pages -> Entries] /\ start \in Nat /\ start >= 1
      /\ TopPage \in Nat /\ m.lost \in SUBSET Frames /\ m.stale \in SUBSET Frames
      /\ m.left \in SUBSET (Frames \X Pages)
  BY MemoryAssumption DEF MemTypes, Pages, BrkBase
<1>1. run \in 0 .. n /\ \A w \in start .. start + run - 1 : T[w] = NoPage
  BY <1>0, FreeRunFacts
<1>2. /\ q \in Seq(Frames) /\ IsInjective(q) /\ Range(q) = Avail(m) /\ avail \in Nat
  BY AvailFacts DEF Counted
<1>3. /\ got \in Nat /\ got <= run /\ got <= avail /\ got <= n
      /\ run = n /\ n <= avail => got = n
  <2>0. run \in Nat /\ run <= n
    BY <1>1
  <2> HIDE DEF run, avail
  <2>1. got = IF run <= avail THEN run ELSE avail
    BY <1>2, <2>0, OfTwo
  <2> HIDE DEF got
  <2> QED
    BY <1>2, <2>0, <2>1
<1>4. used \in Nat /\ got <= used /\ used <= avail
  <2> HIDE DEF got, avail
  <2> QED
    BY <1>2, <1>3
<1>5. p = [t EXCEPT !.pt[root] = WithPages(t.pt[root], start, s1, prot),
                    !.left = IF got < n THEN t.left \cup ({root} \X (start .. start + got - 1))
                             ELSE t.left,
                    !.lost = t.lost \cup L]
  BY DEF NewPages
<1> HIDE DEF q, run, avail, got, used
<1>6. /\ t \in MemTypes /\ (\A f \in t.free : f < t.next)
      /\ Avail(t) = Avail(m) \ Range(SubSeq(q, 1, used))
      /\ t.refcounts = m.refcounts /\ t.roots = m.roots /\ t.pt = m.pt /\ t.lost = m.lost
      /\ t.left = m.left /\ t.stale = m.stale
  <2>1. used \in 0 .. Len(AvailSeq(m))
    BY <1>2, <1>4 DEF avail, q
  <2> QED
    BY <2>1, TakenFacts DEF Counted, q
<1>7. /\ Range(SubSeq(q, 1, used)) = {q[i] : i \in 1 .. used}
      /\ Range(s1) = {q[i] : i \in 1 .. got} /\ L = {q[i] : i \in got + 1 .. used}
  BY <1>2, <1>3, <1>4, RangeOfPart DEF avail
<1>8. /\ Range(SubSeq(q, 1, used)) = Range(s1) \cup L
      /\ Range(s1) \cup L \subseteq Avail(m) /\ L \subseteq Frames
  <2>1. 1 .. used = (1 .. got) \cup (got + 1 .. used)
    BY <1>3, <1>4
  <2>2. \A i \in 1 .. used : i \in DOMAIN q
    BY <1>2, <1>4 DEF avail
  <2>3. \A i \in 1 .. used : q[i] \in Avail(m) /\ q[i] \in Frames
    <3>1. Avail(m) \subseteq Frames
      BY DEF Avail, MemTypes
    <3> QED
      BY <1>2, <2>2, <3>1 DEF Range
  <2> HIDE DEF L, s1
  <2> QED
    BY <1>7, <2>1, <2>3
<1>9. /\ s1 \in Seq(Frames) /\ Len(s1) = got /\ IsInjective(s1)
      /\ \A i \in 1 .. got : s1[i] = q[i]
  <2>1. got \in 0 .. Len(q)
    BY <1>3 DEF avail
  <2> QED
    BY <1>2, <2>1, SplitTypes, Splits
<1> HIDE DEF s1, L, t
<1>10. start + Len(s1) <= TopPage /\ Unused(T, start, Len(s1))
  BY <1>0, <1>1, <1>3, <1>9 DEF Unused
<1>11. /\ T2 \in [Pages -> Entries]
       /\ \A v \in Pages : T[v] # NoPage => T2[v] = T[v]
       /\ \A v \in start .. start + got - 1 :
            T2[v] # NoPage /\ T2[v].prot = prot /\ T2[v].frame \in Range(s1)
       /\ \A f \in Frames : Cardinality(At(T2, f)) = Cardinality(At(T, f)) +
                              Times(s1, f)
  <2>1. s1 \in Seq(Frames) /\ Len(s1) = got
    BY <1>9
  <2> HIDE DEF T
  <2>2. /\ T2 \in [Pages -> Entries]
        /\ \A v \in Pages : T[v] # NoPage => T2[v] = T[v]
        /\ Shows(T2, start, s1, prot)
        /\ \A f \in Frames : Cardinality(At(T2, f)) = Cardinality(At(T, f)) + Times(s1, f)
    <3>1. T \in [Pages -> Entries] /\ start \in Pages /\ prot \in Prots
      BY <1>0
    <3> QED
      BY <1>10, <2>1, <3>1, WithPagesFacts
  <2> HIDE DEF T2
  <2> QED
    BY <2>1, <2>2 DEF Shows
<1>12. p = [t EXCEPT !.pt[root] = T2, !.left = left2, !.lost = t.lost \cup L]
  BY <1>5, <1>6
<1>121. left2 \in SUBSET (Frames \X Pages)
  <2>1. \A v \in start .. start + got - 1 : v \in Pages
    BY <1>0, <1>3, MemoryAssumption DEF Pages, BrkBase
  <2> QED
    BY <1>0, <2>1
<1> HIDE DEF T2, p, left2
<1>13. /\ p \in MemTypes /\ p.roots = m.roots /\ p.refcounts = m.refcounts
       /\ p.lost = m.lost \cup L /\ p.pt[root] = T2 /\ p.free = t.free /\ p.next = t.next
       /\ \A r \in Frames \ {root} : p.pt[r] = m.pt[r]
       /\ p.stale = m.stale
  <2> DEFINE c == WithTable(t, root, T2, left2, m.stale)
  <2>1. /\ c \in MemTypes /\ c.pt[root] = T2 /\ (\A r \in Frames \ {root} : c.pt[r] = t.pt[r])
        /\ c.roots = t.roots /\ c.free = t.free /\ c.next = t.next /\ c.lost = t.lost
        /\ c.refcounts = t.refcounts /\ c.stale = m.stale
    <3>1. /\ root \in t.roots /\ t \in MemTypes /\ T2 \in [Pages -> Entries]
          /\ HistoryTypes(left2, m.stale)
      BY <1>0, <1>6, <1>11, <1>121 DEF HistoryTypes
    <3> QED
      BY <3>1, TableChanges
  <2>2. p = [c EXCEPT !.lost = t.lost \cup L]
    BY <1>6, <1>12 DEF MemTypes, WithTable
  <2>3. t.lost \cup L \in SUBSET Frames
    BY <1>0, <1>6, <1>8
  <2> HIDE DEF c
  <2>4. /\ p \in MemTypes /\ p.roots = c.roots /\ p.refcounts = c.refcounts
        /\ p.lost = t.lost \cup L /\ p.pt = c.pt /\ p.free = c.free /\ p.next = c.next
        /\ p.stale = c.stale
    BY <2>1, <2>2, <2>3 DEF MemTypes
  <2> QED
    BY <1>6, <2>1, <2>4
<1>14. Avail(p) = Avail(m) \ (Range(s1) \cup L)
  BY <1>6, <1>8, <1>13 DEF Avail
<1>15. n0 \in [Frames -> Nat] /\ l \in [Frames -> Nat]
  BY <1>13, RefsFacts
<1>16. ASSUME NEW f \in Frames
       PROVE  /\ f \in Range(s1) => l[f] = n0[f] + 1
              /\ f \notin Range(s1) => l[f] = n0[f]
  <2> DEFINE a == Cardinality(At(T, f))
             b == Cardinality(At(T2, f))
             d == Times(s1, f)
  <2>1. a \in Nat /\ b \in Nat /\ l[f] + a = n0[f] + b
    <3>1. \A r \in m.roots \ {root} : p.pt[r] = m.pt[r]
      BY <1>13 DEF MemTypes
    <3> QED
      BY <1>13, <3>1, RefsOfTable
  <2>2. b = a + d
    BY <1>11
  <2>3. d = IF f \in Range(s1) THEN 1 ELSE 0
    BY <1>9, ListedOnce
  <2>4. l[f] \in Nat /\ n0[f] \in Nat
    BY <1>15
  <2> HIDE DEF a, b, d, l, n0
  <2> QED
    BY <2>1, <2>2, <2>3, <2>4
<1>17. \A f \in Avail(m) : f \in Frames /\ n0[f] = 0 /\ f \notin m.roots
  BY DEF Counted, Avail, MemTypes
<1> HIDE DEF l, n0
<1>18. Counted(p, l)
  <2>1. \A f \in p.free : f < p.next
    BY <1>6, <1>13
  <2>2. \A f \in Frames : l[f] = n0[f] \/ (f \in Avail(m) \ Avail(p) /\ l[f] = 1)
    <3> TAKE f \in Frames
    <3>1. CASE f \in Range(s1)
      <4>1. f \in Avail(m) \ Avail(p)
        BY <1>8, <1>14, <3>1
      <4>2. n0[f] = 0 /\ l[f] = 0 + 1
        BY <1>16, <1>17, <3>1, <4>1
      <4> QED
        BY <4>1, <4>2
    <3> QED
      BY <1>16, <3>1
  <2>3. \A f \in Avail(m) \ Avail(p) : l[f] = 1 \/ f \in p.roots \/ f \in p.lost
    <3> TAKE f \in Avail(m) \ Avail(p)
    <3>1. f \in Range(s1) \/ f \in L
      BY <1>14
    <3>2. CASE f \in Range(s1)
      <4>1. n0[f] = 0 /\ l[f] = 0 + 1
        BY <1>16, <1>17, <3>2
      <4> QED
        BY <4>1
    <3> QED
      BY <1>13, <3>1, <3>2
  <2>4. Avail(p) \subseteq Avail(m)
    BY <1>14
  <2>5. Counted(m, n0)
    BY DEF n0
  <2> QED
    BY <1>13, <1>15, <2>1, <2>2, <2>3, <2>4, <2>5, HandsOut
<1>19. Calm(m, ob, p, ob)
  <2> SUFFICES ASSUME NEW f \in Frames PROVE l[f] <= n0[f] \/ n0[f] = 0
    BY <1>13 DEF Calm, l, n0
  <2>1. n0[f] \in Nat
    BY <1>15
  <2> QED
    BY <1>8, <1>16, <1>17, <2>1
<1>20. ASSUME NewPagesOk(m, root, start, n), NEW v \in start .. start + n - 1
       PROVE  /\ T[v] = NoPage /\ T2[v] # NoPage /\ T2[v].prot = prot /\ l[T2[v].frame] = 1
  <2>1. run = n /\ got = n
    BY <1>3, <1>20 DEF NewPagesOk, run, avail, q
  <2>2. T[v] = NoPage /\ T2[v] # NoPage /\ T2[v].prot = prot /\ T2[v].frame \in Range(s1)
    BY <1>1, <1>11, <2>1
  <2>3. T2[v].frame \in Avail(m)
    BY <1>8, <2>2
  <2>4. n0[T2[v].frame] = 0 /\ l[T2[v].frame] = 0 + 1
    BY <1>16, <1>17, <2>2, <2>3
  <2> QED
    BY <2>2, <2>4
<1> QED
  BY <1>11, <1>13, <1>18, <1>19, <1>20 DEF p, l

(***************************************************************************)
(* No stale frame is idle.                                                 *)
(***************************************************************************)
Clear(m) == m.stale \cap Idle(m) = {}

\* Every one of the frames has an object for an owner.
Owned(ob, frames) == \A f \in Range(frames) : OwnersIn(ob, f) # {}

(***************************************************************************)
(* mmap_shared_pages: every page mapped is one more reference to its       *)
(* frame, which has an owner, or is in use and becomes stale.              *)
(***************************************************************************)
LEMMA SharedPagesFacts ==
  ASSUME NEW m \in MemTypes, NEW ob \in [Objects -> ObjTypes], NEW root \in m.roots,
         NEW start \in Pages, NEW frames \in Seq(Frames), start + Len(frames) <= TopPage,
         NEW prot \in Prots, NEW gone \in BOOLEAN, Counted(m, Refs(m, ob)),
         gone \/ Owned(ob, frames),
         Clear(SharedPages(m, root, start, frames, prot, gone))
  PROVE  LET p == SharedPages(m, root, start, frames, prot, gone)
         IN  /\ p \in MemTypes /\ p.roots = m.roots /\ Counted(p, Refs(p, ob))
             /\ \A r \in Frames \ {root} : p.pt[r] = m.pt[r]
             /\ \A v \in Pages : m.pt[root][v] # NoPage => p.pt[root][v] = m.pt[root][v]
             /\ Calm(m, ob, p, ob)
             /\ FreeRun(m, root, start, Len(frames)) = Len(frames) =>
                  /\ Unused(m.pt[root], start, Len(frames))
                  /\ Shows(p.pt[root], start, frames, prot)
<1> DEFINE T == m.pt[root]
           n == Len(frames)
           run == FreeRun(m, root, start, n)
           mapped == SubSeq(frames, 1, run)
           T2 == WithPages(T, start, mapped, prot)
           left2 == IF run < n THEN m.left \cup ({root} \X (start .. start + run - 1))
                    ELSE m.left
           stale2 == IF gone THEN m.stale \cup Range(mapped) ELSE m.stale
           c == WithTable(m, root, T2, left2, stale2)
           k == [f \in Frames |-> Times(mapped, f)]
           p == SharedPages(m, root, start, frames, prot, gone)
           n0 == Refs(m, ob)
           l == Refs(c, ob)
<1>0. /\ root \in Frames /\ T \in [Pages -> Entries] /\ start \in Nat /\ start >= 1
      /\ TopPage \in Nat /\ n \in Nat
  BY MemoryAssumption DEF MemTypes, Pages, BrkBase
<1>1. run \in 0 .. n /\ Unused(T, start, run)
  BY <1>0, FreeRunFacts DEF Unused
<1>2. /\ mapped \in Seq(Frames) /\ Len(mapped) = run
      /\ \A i \in 1 .. run : mapped[i] = frames[i]
  BY <1>1, SplitTypes
<1>3. p = [c EXCEPT !.refcounts = [f \in Frames |-> RefShare(m.refcounts[f], k[f])]]
  <2>1. p = [m EXCEPT !.pt[root] = T2, !.left = left2, !.stale = stale2,
                      !.refcounts = [f \in Frames |->
                         RefShare(m.refcounts[f], Cardinality({i \in DOMAIN mapped : mapped[i] = f}))]]
    BY DEF SharedPages
  <2>2. \A f \in Frames : Cardinality({i \in DOMAIN mapped : mapped[i] = f}) = k[f]
    BY DEF Times
  <2>3. [f \in Frames |->
           RefShare(m.refcounts[f], Cardinality({i \in DOMAIN mapped : mapped[i] = f}))]
          = [f \in Frames |-> RefShare(m.refcounts[f], k[f])]
    <3> HIDE DEF k, mapped
    <3> QED
      BY <2>2, Zenon
  <2> HIDE DEF T2, k, mapped, p, left2, stale2
  <2>4. p = [m EXCEPT !.pt[root] = T2, !.left = left2, !.stale = stale2,
                      !.refcounts = [f \in Frames |-> RefShare(m.refcounts[f], k[f])]]
    BY <2>1, <2>3, Zenon
  <2> QED
    BY <2>4 DEF MemTypes, WithTable
<1>31. /\ left2 \in SUBSET (Frames \X Pages) /\ stale2 \in SUBSET Frames
       /\ m.stale \subseteq stale2 /\ (gone => Range(mapped) \subseteq stale2)
  <2>1. \A v \in start .. start + run - 1 : v \in Pages
    BY <1>0, <1>1, MemoryAssumption DEF Pages, BrkBase
  <2>2. m.left \in SUBSET (Frames \X Pages) /\ m.stale \in SUBSET Frames
    BY DEF MemTypes
  <2>3. Range(mapped) \in SUBSET Frames
    BY <1>2 DEF Range
  <2> HIDE DEF mapped, run
  <2> QED
    BY <1>0, <2>1, <2>2, <2>3
<1> HIDE DEF mapped, left2, stale2
<1>4. Range(mapped) \subseteq Range(frames)
  BY <1>0, <1>1, <1>2 DEF Range
<1>5. /\ T2 \in [Pages -> Entries]
      /\ \A v \in Pages : T[v] # NoPage => T2[v] = T[v]
      /\ Shows(T2, start, mapped, prot)
      /\ \A f \in Frames : Times(mapped, f) \in Nat
      /\ \A f \in Frames : Cardinality(At(T2, f)) = Cardinality(At(T, f)) + Times(mapped, f)
  <2>1. T \in [Pages -> Entries] /\ start \in Pages /\ prot \in Prots
    BY <1>0
  <2>2. start + Len(mapped) <= TopPage /\ Unused(T, start, Len(mapped))
    BY <1>0, <1>1, <1>2
  <2>3. mapped \in Seq(Frames)
    BY <1>2
  <2> HIDE DEF T
  <2> QED
    BY <2>1, <2>2, <2>3, WithPagesFacts
<1> HIDE DEF T2
<1>6. /\ c \in MemTypes /\ c.pt[root] = T2 /\ c.roots = m.roots /\ Counted(c, n0)
      /\ c.refcounts = m.refcounts /\ c.stale = stale2 /\ c.lost = m.lost
      /\ Avail(c) = Avail(m)
      /\ \A r \in Frames \ {root} : c.pt[r] = m.pt[r]
  <2>1. Counted(m, n0) /\ T2 \in [Pages -> Entries] /\ HistoryTypes(left2, stale2)
    BY <1>5, <1>31 DEF HistoryTypes
  <2> HIDE DEF n0
  <2> QED
    BY <2>1, TableChanges
<1>61. p.stale = stale2 /\ p.roots = c.roots /\ p.lost = c.lost /\ Avail(p) = Avail(c)
  <2> HIDE DEF c, p
  <2>1. /\ p.stale = c.stale /\ p.roots = c.roots /\ p.lost = c.lost
        /\ p.free = c.free /\ p.next = c.next
    BY <1>3, <1>6 DEF MemTypes
  <2> QED
    BY <1>6, <2>1 DEF Avail
<1> HIDE DEF c
<1>7. n0 \in [Frames -> Nat] /\ l \in [Frames -> Nat] /\ k \in [Frames -> Nat]
  BY <1>5, <1>6, RefsFacts
<1>8. ASSUME NEW f \in Frames
      PROVE  l[f] = n0[f] + k[f] /\ (k[f] = 0 \/ OwnersIn(ob, f) # {} \/ (gone /\ f \in stale2))
  <2> DEFINE a == Cardinality(At(T, f))
             b == Cardinality(At(T2, f))
  <2>1. a \in Nat /\ b \in Nat /\ l[f] + a = n0[f] + b
    <3>1. \A r \in m.roots \ {root} : c.pt[r] = m.pt[r]
      BY <1>6 DEF MemTypes
    <3> QED
      BY <1>6, <3>1, RefsOfTable
  <2>2. b = a + k[f] /\ k[f] \in Nat
    BY <1>5
  <2>3. l[f] \in Nat /\ n0[f] \in Nat
    BY <1>7
  <2>4. k[f] = 0 \/ OwnersIn(ob, f) # {} \/ (gone /\ f \in stale2)
    <3>1. CASE f \in Range(mapped)
      BY <1>4, <1>31, <3>1 DEF Owned
    <3>2. CASE f \notin Range(mapped)
      <4>1. {i \in DOMAIN mapped : mapped[i] = f} = {}
        BY <3>2 DEF Range
      <4>2. k[f] = 0
        BY <4>1, FS_EmptySet DEF Times
      <4> QED
        BY <4>2
    <3> QED
      BY <3>1, <3>2
  <2> HIDE DEF a, b, l, n0, k
  <2>5. l[f] = n0[f] + k[f]
    BY SMTT(30), <2>1, <2>2, <2>3
  <2> QED
    BY <2>4, <2>5
<1>9. ASSUME NEW f \in Frames PROVE k[f] = 0 \/ n0[f] >= 1
  <2>1. CASE k[f] = 0 \/ OwnersIn(ob, f) # {}
    BY <2>1, HasReference
  <2>2. CASE gone /\ f \in stale2
    <3> HIDE DEF p
    <3>1. f \notin Idle(p)
      BY <1>61, <2>2 DEF Clear, p
    <3>2. f \notin Avail(p) /\ f \notin p.roots /\ f \notin p.lost
      BY <3>1 DEF Idle, Avail
    <3>3. n0[f] # 0 /\ n0[f] \in Nat
      BY <1>6, <1>7, <1>61, <3>2 DEF Counted
    <3> QED
      BY <3>3
  <2> QED
    BY <1>8, <2>1, <2>2
<1> HIDE DEF k
<1>10. p \in MemTypes /\ Counted(p, l) /\ p.roots = c.roots /\ p.pt = c.pt
  <2>1. p = Reshared(c, k)
    BY <1>3, <1>6 DEF Reshared
  <2> HIDE DEF l, n0, p
  <2> QED
    BY ZenonT(40), <1>6, <1>7, <1>8, <1>9, <2>1, Shares
<1>11. p.roots = m.roots /\ p.pt = c.pt
  BY <1>6, <1>10
<1> HIDE DEF p
<1>12. Refs(p, ob) = l
  BY <1>6, <1>11, SameTables
<1> HIDE DEF l, n0
<1>13. Calm(m, ob, p, ob)
  <2> SUFFICES ASSUME NEW f \in Frames, f \notin stale2
               PROVE  l[f] <= n0[f] \/ OwnersIn(ob, f) # {}
    BY <1>12, <1>31, <1>61 DEF Calm, n0
  <2>1. n0[f] \in Nat /\ k[f] = 0 => l[f] <= n0[f]
    BY <1>8
  <2> QED
    BY <1>7, <1>8, <2>1
<1>14. ASSUME run = n PROVE Unused(T, start, n) /\ Shows(T2, start, frames, prot)
  <2>1. Unused(T, start, n) /\ Len(mapped) = Len(frames)
    BY <1>1, <1>2, <1>14
  <2>2. \A v \in start .. start + Len(frames) - 1 : v - start + 1 \in 1 .. run
    BY <1>0, <1>14
  <2>3. \A i \in 1 .. run : mapped[i] = frames[i]
    BY <1>2
  <2> QED
    BY <1>4, <1>5, <2>1, <2>2, <2>3 DEF Shows
<1> QED
  BY <1>5, <1>6, <1>10, <1>11, <1>12, <1>13, <1>14 DEF p

(***************************************************************************)
(* cleanup_user_address_space gives up every reference of the space, and   *)
(* the space.                                                              *)
(***************************************************************************)
LEMMA CleanedUpFacts ==
  ASSUME NEW m \in MemTypes, NEW ob \in [Objects -> ObjTypes], NEW root \in m.roots,
         Counted(m, Refs(m, ob))
  PROVE  LET c == CleanedUp(m, root)
         IN  /\ c \in MemTypes /\ c.roots = m.roots \ {root}
             /\ \A r \in Frames \ {root} : c.pt[r] = m.pt[r]
             /\ Counted(c, Refs(c, ob))
             /\ \A f \in Frames : Refs(c, ob)[f] <= Refs(m, ob)[f]
             /\ \A f \in m.stale : f \in c.stale \/ Refs(c, ob)[f] = 0
<1> DEFINE T == m.pt[root]
           k == [f \in Frames |-> Cardinality(At(T, f))]
           done == Released(m, k)
           c == CleanedUp(m, root)
           n == Refs(m, ob)
           l == Refs(c, ob)
<1>0. root \in Frames /\ T \in [Pages -> Entries]
  BY DEF MemTypes
<1>1. c = [done EXCEPT !.pt[root] = EmptyTable, !.roots = done.roots \ {root},
                       !.free = done.free \cup {root},
                       !.left = {x \in done.left : x[1] # root}]
  <2>1. k = [f \in Frames |-> Cardinality({v \in Pages : T[v].frame = f})]
    BY DEF At
  <2> HIDE DEF k
  <2> QED
    BY <2>1 DEF CleanedUp
<1>2. k \in [Frames -> Nat] /\ n \in [Frames -> Nat]
  BY <1>0, CountByRoot, RefsFacts
<1>3. EmptyTable \in [Pages -> Entries]
  BY DEF EmptyTable, Entries
<1>4. /\ done \in [free : SUBSET Frames, next : 1 .. NumFrames + 1,
                   refcounts : [Frames -> Nat], roots : SUBSET Frames,
                   pt : [Frames -> [Pages -> Entries]], lost : SUBSET Frames,
                   left : SUBSET (Frames \X Pages), stale : SUBSET Frames]
      /\ done.roots = m.roots /\ done.pt = m.pt /\ done.next = m.next /\ done.lost = m.lost
  <2> DEFINE gone == {f \in Frames : LastRelease(m.refcounts[f], k[f])}
             counts == [f \in Frames |-> RefRelease(m.refcounts[f], k[f])]
  <2>1. counts \in [Frames -> Nat]
    <3>1. ASSUME NEW f \in Frames PROVE RefRelease(m.refcounts[f], k[f]) \in Nat
      <4>1. m.refcounts[f] \in Nat /\ k[f] \in Nat
        BY <1>2 DEF MemTypes
      <4> QED
        BY <4>1 DEF RefRelease
    <3> QED
      BY <3>1
  <2>2. done = [m EXCEPT !.refcounts = counts, !.free = m.free \cup gone,
                         !.stale = m.stale \ gone]
    BY DEF Released
  <2> HIDE DEF counts, done, k
  <2> QED
    BY <2>1, <2>2 DEF MemTypes
<1> HIDE DEF k, done, c
<1>5. /\ c \in MemTypes /\ c.roots = m.roots \ {root} /\ c.free = done.free \cup {root}
      /\ c.next = done.next /\ c.lost = done.lost /\ c.refcounts = done.refcounts
      /\ c.stale = done.stale
      /\ \A r \in Frames \ {root} : c.pt[r] = m.pt[r]
  BY <1>0, <1>1, <1>3, <1>4 DEF MemTypes
<1>6. l \in [Frames -> Nat]
  BY <1>5, RefsFacts
<1>7. \A f \in Frames : n[f] = l[f] + k[f]
  <2> TAKE f \in Frames
  <2> DEFINE a == Cardinality(MapsTo(m, f))
             b == Cardinality(MapsTo(c, f))
             d == Cardinality(OwnersIn(ob, f))
             e == Cardinality(At(T, f))
  <2>1. /\ c.roots \ {root} = m.roots \ {root} /\ root \in m.roots /\ root \notin c.roots
        /\ \A r \in m.roots \ {root} : c.pt[r] = m.pt[r]
    BY <1>5 DEF MemTypes
  <2>2. b + e = a + 0
    BY <1>0, <1>5, <2>1, OneSpaceChanges
  <2>3. a \in Nat /\ b \in Nat /\ d \in Nat /\ n[f] = a + d /\ l[f] = b + d
    BY <1>5, RefsFacts
  <2>4. k[f] = e /\ k[f] \in Nat
    BY <1>2 DEF k
  <2> HIDE DEF a, b, d, e, n, l
  <2> QED
    BY <2>2, <2>3, <2>4
<1>8. /\ Counted(done, l) /\ done \in MemTypes
      /\ \A f \in m.stale : f \in done.stale \/ l[f] = 0
  <2>1. Counted(m, n)
    OBVIOUS
  <2> HIDE DEF l, n
  <2> QED
    BY <1>2, <1>6, <1>7, <2>1, Releases DEF done
<1> HIDE DEF l, n
<1>9. Avail(c) = Avail(done) \cup {root}
  BY <1>5 DEF Avail
<1>10. l[root] = 0 /\ root < m.next
  <2>1. l[root] = 0
    BY <1>0, <1>4, <1>8 DEF Counted
  <2>2. ~(root >= m.next)
    <3>1. root \notin Avail(m)
      BY <1>0 DEF Counted
    <3> QED
      BY <1>0, <3>1 DEF Avail
  <2>3. root \in Nat /\ m.next \in Nat
    BY <1>0, MemoryAssumption DEF MemTypes, Frames
  <2> QED
    BY <2>1, <2>2, <2>3
<1>11. Counted(c, l)
  <2>1. \A f \in c.free : f < c.next
    BY <1>4, <1>5, <1>8, <1>10 DEF Counted
  <2>2. ASSUME NEW f \in Frames
        PROVE  /\ c.refcounts[f] = IF l[f] >= 2 THEN l[f] ELSE 0
               /\ f \in Avail(c) => l[f] = 0 /\ f \notin c.roots
               /\ f \in c.roots => l[f] = 0
               /\ f \notin Avail(c) /\ f \notin c.roots /\ l[f] = 0 => f \in c.lost
    <3>1. /\ done.refcounts[f] = IF l[f] >= 2 THEN l[f] ELSE 0
          /\ f \in Avail(done) => l[f] = 0 /\ f \notin done.roots
          /\ f \in done.roots => l[f] = 0
          /\ f \notin Avail(done) /\ f \notin done.roots /\ l[f] = 0 => f \in done.lost
      BY <1>8 DEF Counted
    <3> QED
      BY <1>4, <1>5, <1>9, <1>10, <3>1
  <2> QED
    BY <2>1, <2>2 DEF Counted
<1>12. \A f \in Frames : l[f] <= n[f]
  <2> TAKE f \in Frames
  <2>1. l[f] \in Nat /\ k[f] \in Nat /\ n[f] = l[f] + k[f]
    BY <1>2, <1>6, <1>7
  <2> QED
    BY <2>1
<1> QED
  BY <1>5, <1>8, <1>11, <1>12 DEF c, l, n

(***************************************************************************)
(* load_elf_address_space: a new address space, and a frame of its own for *)
(* the stack.                                                              *)
(***************************************************************************)
LEMMA LoadedFacts ==
  ASSUME NEW m \in MemTypes, NEW ob \in [Objects -> ObjTypes], Counted(m, Refs(m, ob)),
         CanLoad(m)
  PROVE  LET t == Loaded(m)
             root == AvailSeq(m)[1]
         IN  /\ root \in Frames \ m.roots /\ t \in MemTypes /\ t.roots = m.roots \cup {root}
             /\ \A r \in Frames \ {root} : t.pt[r] = m.pt[r]
             /\ Counted(t, Refs(t, ob)) /\ Calm(m, ob, t, ob)
             /\ t.pt[root][TopPage] # NoPage
             /\ Refs(t, ob)[t.pt[root][TopPage].frame] = 1
<1> DEFINE q == AvailSeq(m)
           root == q[1]
           rest == Taken(m, 1)
           stack == rest.next
           table == [EmptyTable EXCEPT ![TopPage] = [frame |-> stack, prot |-> "rw"]]
           t == Loaded(m)
           n == Refs(m, ob)
           l == Refs(t, ob)
<1>0. /\ NumFrames \in Nat /\ Frames = 1 .. NumFrames /\ TopPage \in Pages /\ 0 \notin Frames
  BY MemoryAssumption DEF Frames, Pages, BrkBase
<1>1. q \in Seq(Frames) /\ Range(q) = Avail(m) /\ q # <<>> /\ Len(q) \in Nat
  BY AvailFacts DEF Counted, CanLoad
<1>2. Len(q) >= 1 /\ root \in Avail(m) /\ root \in Frames
  <2> HIDE DEF q
  <2>1. Len(q) >= 1 /\ 1 \in DOMAIN q
    BY <1>1
  <2> QED
    BY <1>1, <2>1 DEF Range
<1>3. Range(SubSeq(q, 1, 1)) = {root}
  <2> HIDE DEF q
  <2>1. Range(SubSeq(q, 1, 1)) = {q[i] : i \in 1 .. 1}
    BY <1>1, <1>2, RangeOfPart
  <2> QED
    BY <2>1
<1>4. /\ rest \in MemTypes /\ (\A f \in rest.free : f < rest.next)
      /\ Avail(rest) = Avail(m) \ {root}
      /\ rest.refcounts = m.refcounts /\ rest.roots = m.roots /\ rest.pt = m.pt
      /\ rest.lost = m.lost /\ rest.stale = m.stale
  <2>1. 1 \in 0 .. Len(AvailSeq(m))
    BY <1>1, <1>2
  <2> QED
    BY <1>3, <2>1, TakenFacts DEF Counted
<1>5. t = [rest EXCEPT !.next = stack + 1, !.roots = rest.roots \cup {root},
                       !.pt[root] = table]
  BY DEF Loaded
<1>6. stack <= NumFrames
  BY DEF CanLoad
<1> HIDE DEF q, root, rest, t
<1>7. stack \in Frames /\ stack + 1 \in 1 .. NumFrames + 1 /\ stack \in Nat
  <2>1. stack \in 1 .. NumFrames + 1
    BY <1>4 DEF MemTypes
  <2> HIDE DEF stack
  <2> QED
    BY <1>0, <1>6, <2>1
<1>8. /\ table \in [Pages -> Entries] /\ table[TopPage] = [frame |-> stack, prot |-> "rw"]
      /\ \A v \in Pages \ {TopPage} : table[v] = NoPage
  <2> DEFINE e == [frame |-> stack, prot |-> "rw"]
  <2>1. e \in Entries
    BY <1>7 DEF Entries, Prots
  <2> HIDE DEF e, stack
  <2>2. EmptyTable \in [Pages -> Entries] /\ \A v \in Pages : EmptyTable[v] = NoPage
    BY DEF EmptyTable, Entries
  <2>3. table = [EmptyTable EXCEPT ![TopPage] = e]
    BY DEF e
  <2> HIDE DEF table
  <2>4. /\ table \in [Pages -> Entries] /\ table[TopPage] = e
        /\ \A v \in Pages \ {TopPage} : table[v] = NoPage
    BY <1>0, <2>1, <2>2, <2>3
  <2> QED
    BY <2>4 DEF e
<1>9. table[TopPage] # NoPage /\ table[TopPage].frame = stack
  <2> HIDE DEF table
  <2>1. stack # 0
    BY <1>0, <1>7
  <2> QED
    BY <1>8, <2>1 DEF NoPage
<1> HIDE DEF table
<1>10. /\ t \in MemTypes /\ t.roots = m.roots \cup {root} /\ t.pt[root] = table
       /\ t.refcounts = m.refcounts /\ t.lost = m.lost /\ t.free = rest.free
       /\ t.next = stack + 1 /\ t.stale = m.stale
       /\ \A r \in Frames \ {root} : t.pt[r] = m.pt[r]
  <2> DEFINE pt2 == [rest.pt EXCEPT ![root] = table]
             roots2 == rest.roots \cup {root}
             next2 == stack + 1
  <2>1. pt2 \in [Frames -> [Pages -> Entries]] /\ pt2[root] = table
        /\ \A r \in Frames \ {root} : pt2[r] = rest.pt[r]
    BY <1>2, <1>4, <1>8 DEF MemTypes
  <2>2. roots2 \in SUBSET Frames /\ next2 \in 1 .. NumFrames + 1
    BY <1>2, <1>4, <1>7 DEF MemTypes
  <2>3. t = [rest EXCEPT !.next = next2, !.roots = roots2, !.pt = pt2]
    BY <1>5
  <2> HIDE DEF pt2, roots2, next2
  <2>4. /\ t \in MemTypes /\ t.roots = roots2 /\ t.pt = pt2 /\ t.next = next2
        /\ t.refcounts = rest.refcounts /\ t.lost = rest.lost /\ t.free = rest.free
        /\ t.stale = rest.stale
    BY <1>4, <2>1, <2>2, <2>3 DEF MemTypes
  <2> QED
    BY <1>4, <2>1, <2>4 DEF roots2, next2
<1>11. root \notin m.roots /\ stack \in Avail(rest) /\ stack # root /\ stack \in Avail(m)
  <2>1. root \notin m.roots
    BY <1>2 DEF Counted
  <2>2. stack \in Avail(rest)
    BY <1>7 DEF Avail
  <2> QED
    BY <1>4, <2>1, <2>2
<1>12. Avail(t) = Avail(m) \ {root, stack}
  <2>1. Avail(rest) \ {stack} = Avail(t)
    <3>1. stack \notin rest.free
      BY <1>4, <1>7
    <3>2. \A f \in Frames : f >= stack + 1 <=> f >= stack /\ f # stack
      BY <1>0, <1>7
    <3> HIDE DEF stack
    <3>3. Avail(t) = rest.free \cup {f \in Frames : f >= stack + 1}
      BY <1>10 DEF Avail
    <3>4. Avail(rest) = rest.free \cup {f \in Frames : f >= stack}
      BY DEF Avail, stack
    <3> QED
      BY <3>1, <3>2, <3>3, <3>4
  <2> QED
    BY <1>4, <2>1
<1>13. n \in [Frames -> Nat] /\ l \in [Frames -> Nat]
  BY <1>10, RefsFacts
<1>14. ASSUME NEW f \in Frames
       PROVE  (f = stack => l[f] = n[f] + 1) /\ (f # stack => l[f] = n[f])
  <2> DEFINE a == Cardinality(MapsTo(m, f))
             b == Cardinality(MapsTo(t, f))
             d == Cardinality(OwnersIn(ob, f))
             e == Cardinality(At(table, f))
  <2>1. /\ t.roots \ {root} = m.roots \ {root} /\ root \notin m.roots /\ root \in t.roots
        /\ \A r \in m.roots \ {root} : t.pt[r] = m.pt[r]
    BY <1>10, <1>11 DEF MemTypes
  <2>2. b + 0 = a + e
    BY <1>2, <1>10, <2>1, OneSpaceChanges
  <2>3. a \in Nat /\ b \in Nat /\ d \in Nat /\ n[f] = a + d /\ l[f] = b + d
    BY <1>10, RefsFacts
  <2>4. (f = stack => e = 1) /\ (f # stack => e = 0)
    <3>1. f = stack => At(table, f) = {TopPage}
      BY <1>0, <1>8, <1>9 DEF At, NoPage
    <3>2. f # stack => At(table, f) = {}
      BY <1>0, <1>8, <1>9 DEF At, NoPage
    <3> QED
      BY <3>1, <3>2, FS_Singleton, FS_EmptySet
  <2> HIDE DEF a, b, d, e, n, l, stack
  <2> QED
    BY <2>2, <2>3, <2>4
<1>15. \A f \in Avail(m) : f \in Frames /\ n[f] = 0 /\ f \notin m.roots
  BY DEF Counted, Avail, MemTypes
<1> HIDE DEF n, l, stack
<1>16. n[stack] = 0 /\ l[stack] = 1 /\ n[root] = 0 /\ l[root] = 0
  BY <1>2, <1>7, <1>11, <1>14, <1>15
<1>17. Counted(t, l)
  <2>1. \A f \in t.free : f < t.next
    <3>1. \A f \in rest.free : f < stack /\ f \in Nat
      BY <1>0, <1>4 DEF stack, MemTypes
    <3> QED
      BY <1>7, <1>10, <3>1
  <2>2. \A f \in Frames : l[f] = n[f] \/ (f \in Avail(m) \ Avail(t) /\ l[f] = 1)
    BY <1>11, <1>12, <1>14, <1>16
  <2>3. \A f \in Avail(m) \ Avail(t) : l[f] = 1 \/ f \in t.roots \/ f \in t.lost
    BY <1>10, <1>12, <1>16
  <2>4. \A f \in t.roots : f \in m.roots \/ (f \in Avail(m) \ Avail(t) /\ l[f] = 0)
    BY <1>2, <1>10, <1>12, <1>16
  <2>5. Counted(m, n) /\ Avail(t) \subseteq Avail(m) /\ m.roots \subseteq t.roots
        /\ m.lost \subseteq t.lost /\ t.refcounts = m.refcounts
    BY <1>10, <1>12 DEF n
  <2> QED
    BY <1>10, <1>13, <2>1, <2>2, <2>3, <2>4, <2>5, HandsOut
<1>18. Calm(m, ob, t, ob)
  <2> SUFFICES ASSUME NEW f \in Frames PROVE l[f] <= n[f] \/ n[f] = 0
    BY <1>10 DEF Calm, l, n
  <2>1. n[f] \in Nat
    BY <1>13
  <2> QED
    BY <1>14, <1>16, <2>1
<1> QED
  BY <1>2, <1>9, <1>10, <1>11, <1>16, <1>17, <1>18 DEF t, l, root, q

-----------------------------------------------------------------------------
(***************************************************************************)
(* An object owns its frames: it is a shared memory object with a          *)
(* descriptor, or the ring of an open port.                                *)
(***************************************************************************)
Owns(x) == x.port \/ (x.alive /\ x.owned)

(***************************************************************************)
(* The objects of S give up their frames: SharedMemInner::drop and         *)
(* IoRing::drop.                                                           *)
(***************************************************************************)
LEMMA LetsGo ==
  ASSUME NEW m \in MemTypes, obj \in [Objects -> ObjTypes], NEW ob2 \in [Objects -> ObjTypes],
         NEW S \in SUBSET Objects, Counted(m, Refs(m, obj)),
         \A o \in S : Owns(obj[o]) /\ ~Owns(ob2[o]),
         \A o \in Objects \ S : Owns(ob2[o]) <=> Owns(obj[o]),
         \A o \in Objects : ob2[o].frames = obj[o].frames
  PROVE  LET r == Released(m, HeldBy(S))
         IN  /\ r \in MemTypes /\ r.roots = m.roots /\ r.pt = m.pt
             /\ Counted(r, Refs(r, ob2)) /\ Calm(m, obj, r, ob2)
<1> DEFINE k == HeldBy(S)
           r == Released(m, k)
           n == Refs(m, obj)
           l == Refs(m, ob2)
<1>1. n \in [Frames -> Nat] /\ l \in [Frames -> Nat]
  BY RefsFacts
<1>2. ASSUME NEW f \in Frames PROVE k[f] \in Nat /\ n[f] = l[f] + k[f]
  <2> DEFINE B == OwnersIn(ob2, f)
             C == {o \in S : f \in Range(obj[o].frames)}
             x == Cardinality(MapsTo(m, f))
  <2>1. OwnersIn(obj, f) = B \cup C /\ B \cap C = {}
    BY DEF OwnersIn, Owns
  <2>2. /\ IsFiniteSet(OwnersIn(obj, f)) /\ x \in Nat
        /\ n[f] = x + Cardinality(OwnersIn(obj, f)) /\ l[f] = x + Cardinality(B)
    BY RefsFacts
  <2>3. k[f] = Cardinality(C)
    BY DEF HeldBy
  <2> HIDE DEF B, C, x, n, l, k
  <2>4. /\ Cardinality(B) \in Nat /\ Cardinality(C) \in Nat
        /\ Cardinality(OwnersIn(obj, f)) = Cardinality(B) + Cardinality(C)
    BY <2>1, <2>2, TwoParts
  <2>5. n[f] = x + (Cardinality(B) + Cardinality(C))
    BY <2>2, <2>4
  <2> QED
    BY <2>2, <2>3, <2>4, <2>5
<1>3. k \in [Frames -> Nat]
  <2>1. k = [f \in Frames |-> k[f]]
    BY DEF HeldBy
  <2> HIDE DEF k
  <2> QED
    BY <1>2, <2>1
<1>4. Counted(m, n)
  OBVIOUS
<1> HIDE DEF k, n, l
<1>5. /\ r \in MemTypes /\ Counted(r, l) /\ r.roots = m.roots /\ r.pt = m.pt
      /\ \A f \in m.stale : f \in r.stale \/ l[f] = 0
  BY <1>1, <1>2, <1>3, <1>4, Releases
<1> HIDE DEF r
<1>6. Refs(r, ob2) = l
  BY <1>5, SameTables DEF l
<1>7. Calm(m, obj, r, ob2)
  <2> SUFFICES ASSUME NEW f \in Frames PROVE l[f] <= n[f]
    BY <1>5, <1>6 DEF Calm, n
  <2>1. l[f] \in Nat /\ k[f] \in Nat /\ n[f] = l[f] + k[f]
    BY <1>1, <1>2
  <2> QED
    BY <2>1
<1> QED
  BY <1>5, <1>6, <1>7 DEF r, k

(***************************************************************************)
(* New objects have frames nobody refers to, each its own.                 *)
(***************************************************************************)
LEMMA NewOwner ==
  ASSUME NEW m \in MemTypes, NEW ob \in [Objects -> ObjTypes], NEW ob2 \in [Objects -> ObjTypes],
         NEW S \in SUBSET Objects, \A o \in S : ob[o] = NoObject /\ Owns(ob2[o]),
         \A o \in Objects \ S : ob2[o] = ob[o], Counted(m, Refs(m, ob)),
         NEW n \in 0 .. Len(AvailSeq(m)),
         \A o \in S : Range(ob2[o].frames) \subseteq Range(SubSeq(AvailSeq(m), 1, n)),
         \A f \in Range(SubSeq(AvailSeq(m), 1, n)) : \E o \in S :
           /\ f \in Range(ob2[o].frames)
           /\ \A x \in S : f \in Range(ob2[x].frames) => x = o
  PROVE  LET t == Taken(m, n)
         IN  /\ t \in MemTypes /\ t.roots = m.roots /\ t.pt = m.pt
             /\ Counted(t, Refs(t, ob2)) /\ Calm(m, ob, t, ob2)
<1> DEFINE t == Taken(m, n)
           R == Range(SubSeq(AvailSeq(m), 1, n))
           n0 == Refs(m, ob)
           l == Refs(m, ob2)
<1>1. /\ t \in MemTypes /\ (\A f \in t.free : f < t.next) /\ Avail(t) = Avail(m) \ R
      /\ t.refcounts = m.refcounts /\ t.roots = m.roots /\ t.pt = m.pt /\ t.lost = m.lost
      /\ t.stale = m.stale
  BY TakenFacts DEF Counted
<1>2. R \subseteq Avail(m)
  <2>1. AvailSeq(m) \in Seq(Frames) /\ Range(AvailSeq(m)) = Avail(m)
    BY AvailFacts DEF Counted
  <2>2. Range(SubSeq(AvailSeq(m), 1, n)) \subseteq Range(AvailSeq(m))
    <3> DEFINE q == AvailSeq(m)
    <3>1. q \in Seq(Frames) /\ n \in 0 .. Len(q)
      BY <2>1
    <3> HIDE DEF q
    <3>2. Range(SubSeq(q, 1, n)) \subseteq Range(q)
      BY <3>1, Splits
    <3> QED
      BY <3>2 DEF q
  <2> QED
    BY <2>1, <2>2
<1>3. /\ \A o \in S : Range(ob2[o].frames) \subseteq R
      /\ \A f \in R : \E o \in S : /\ f \in Range(ob2[o].frames)
                                   /\ \A x \in S : f \in Range(ob2[x].frames) => x = o
  OBVIOUS
<1> HIDE DEF t, R
<1>4. n0 \in [Frames -> Nat] /\ l \in [Frames -> Nat]
  BY RefsFacts
<1>5. ASSUME NEW f \in Frames
      PROVE  (f \in R => l[f] = n0[f] + 1) /\ (f \notin R => l[f] = n0[f])
  <2>1. \A x \in S : f \notin Range(ob[x].frames)
    BY DEF NoObject, Range
  <2>3. f \notin R => OwnersIn(ob2, f) = OwnersIn(ob, f)
    BY <1>3, <2>1 DEF OwnersIn
  <2>2. f \in R => \E o \in Objects : /\ o \notin OwnersIn(ob, f)
                                      /\ OwnersIn(ob2, f) = OwnersIn(ob, f) \cup {o}
    <3> SUFFICES ASSUME f \in R PROVE \E o \in Objects : /\ o \notin OwnersIn(ob, f)
                                      /\ OwnersIn(ob2, f) = OwnersIn(ob, f) \cup {o}
      OBVIOUS
    <3>1. PICK o \in S : /\ f \in Range(ob2[o].frames)
                         /\ \A x \in S : f \in Range(ob2[x].frames) => x = o
      BY <1>3
    <3>2. o \in OwnersIn(ob2, f) /\ o \notin OwnersIn(ob, f) /\ o \in Objects
      BY <2>1, <3>1 DEF OwnersIn, Owns
    <3>3. ASSUME NEW x \in Objects, x # o PROVE x \in OwnersIn(ob2, f) <=> x \in OwnersIn(ob, f)
      <4>1. CASE x \in S
        BY <2>1, <3>1, <3>3, <4>1 DEF OwnersIn
      <4>2. CASE x \notin S
        BY <4>2 DEF OwnersIn
      <4> QED
        BY <4>1, <4>2
    <3>4. OwnersIn(ob2, f) \subseteq Objects /\ OwnersIn(ob, f) \subseteq Objects
      BY DEF OwnersIn
    <3>5. OwnersIn(ob2, f) = OwnersIn(ob, f) \cup {o}
      BY <3>2, <3>3, <3>4
    <3> QED
      BY <3>2, <3>5
  <2>5. /\ IsFiniteSet(OwnersIn(ob, f)) /\ Cardinality(OwnersIn(ob, f)) \in Nat
        /\ Cardinality(MapsTo(m, f)) \in Nat
        /\ n0[f] = Cardinality(MapsTo(m, f)) + Cardinality(OwnersIn(ob, f))
        /\ l[f] = Cardinality(MapsTo(m, f)) + Cardinality(OwnersIn(ob2, f))
    BY RefsFacts
  <2> HIDE DEF n0, l
  <2>7. CASE f \in R
    <3>0. PICK o \in Objects : /\ o \notin OwnersIn(ob, f)
                               /\ OwnersIn(ob2, f) = OwnersIn(ob, f) \cup {o}
      BY <2>2, <2>7
    <3>1. Cardinality(OwnersIn(ob, f) \cup {o}) = Cardinality(OwnersIn(ob, f)) + 1
      BY <2>5, <3>0, FS_AddElement
    <3>2. l[f] = Cardinality(MapsTo(m, f)) + (Cardinality(OwnersIn(ob, f)) + 1)
      BY <2>5, <3>0, <3>1
    <3> QED
      BY <2>5, <2>7, <3>2
  <2> QED
    BY <2>3, <2>5, <2>7
<1>6. \A f \in Avail(m) : f \in Frames /\ n0[f] = 0 /\ f \notin m.roots
  BY DEF Counted, Avail, MemTypes
<1>7. Counted(m, n0)
  OBVIOUS
<1> HIDE DEF n0, l
<1>8. Counted(t, l)
  <2>1. \A f \in R : n0[f] = 0 /\ l[f] = 1 /\ f \in Avail(m) \ Avail(t)
    <3> TAKE f \in R
    <3>1. n0[f] = 0 /\ l[f] = 0 + 1 /\ f \in Avail(m)
      BY <1>2, <1>5, <1>6
    <3> QED
      BY <1>1, <3>1
  <2>2. \A f \in Frames : l[f] = n0[f] \/ (f \in Avail(m) \ Avail(t) /\ l[f] = 1)
    BY <1>5, <2>1
  <2>3. \A f \in Avail(m) \ Avail(t) : l[f] = 1 \/ f \in t.roots \/ f \in t.lost
    BY <1>1, <2>1
  <2>4. /\ t \in MemTypes /\ (\A f \in t.free : f < t.next) /\ t.refcounts = m.refcounts
        /\ Avail(t) \subseteq Avail(m) /\ m.roots \subseteq t.roots /\ m.lost \subseteq t.lost
        /\ \A f \in t.roots : f \in m.roots
    BY <1>1
  <2> QED
    BY ZenonT(40), <1>4, <1>7, <2>2, <2>3, <2>4, HandsOut
<1>9. Refs(t, ob2) = l
  BY <1>1, SameTables DEF l
<1>10. Calm(m, ob, t, ob2)
  <2> SUFFICES ASSUME NEW f \in Frames PROVE l[f] <= n0[f] \/ n0[f] = 0
    BY <1>1, <1>9 DEF Calm, n0
  <2>1. n0[f] \in Nat
    BY <1>4
  <2> QED
    BY <1>2, <1>5, <1>6, <2>1
<1> QED
  BY <1>1, <1>8, <1>9, <1>10 DEF t

-----------------------------------------------------------------------------
(***************************************************************************)
(* Objects keep their frames, once they have any.                          *)
(***************************************************************************)
FramesKept(ob, ob2) ==
  \A o \in Objects : ob2[o].frames = ob[o].frames \/ ob[o].frames = <<>>

(***************************************************************************)
(* A private page is used.                                                 *)
(***************************************************************************)
LEMMA PrivateUsed ==
  ASSUME NEW table \in [Pages -> Entries], NEW pr \in ProcTypes, NEW ob,
         SpaceOk(table, pr, ob), NEW i \in Pages, Private(pr, i)
  PROVE  table[i] # NoPage /\ table[i].frame \in Frames
<1>1. table[i] # NoPage
  BY DEF SpaceOk, Private, Backed
<1>2. table[i] \in Entries
  OBVIOUS
<1> QED
  BY <1>1, <1>2 DEF Entries

(***************************************************************************)
(* The frame of a private page keeps its one reference, or stays stale, as *)
(* long as the page stays.                                                 *)
(***************************************************************************)
LEMMA AloneStays ==
  ASSUME NEW m \in MemTypes, NEW m2 \in MemTypes,
         NEW ob \in [Objects -> ObjTypes], NEW ob2 \in [Objects -> ObjTypes],
         NEW root \in m.roots, root \in m2.roots, NEW i \in Pages,
         m.pt[root][i].frame \in Frames, m2.pt[root][i].frame = m.pt[root][i].frame,
         Sole(m, ob, m.pt[root][i].frame), Calm(m, ob, m2, ob2)
  PROVE  Sole(m2, ob2, m2.pt[root][i].frame)
<1> DEFINE f == m.pt[root][i].frame
<1>1. MapsTo(m, f) # {} /\ MapsTo(m2, f) # {}
  <2>1. <<root, i>> \in MapsTo(m, f) /\ <<root, i>> \in MapsTo(m2, f)
    BY DEF MapsTo
  <2> QED
    BY <2>1
<1>2. f \in Frames /\ m2.pt[root][i].frame = f /\ (Refs(m, ob)[f] = 1 \/ f \in m.stale)
  BY DEF Sole
<1> HIDE DEF f
<1>3. Refs(m2, ob2)[f] >= 1 /\ Refs(m2, ob2)[f] \in Nat
  BY <1>1, <1>2, HasReference, RefsFacts
<1>4. ASSUME f \notin m2.stale PROVE Refs(m2, ob2)[f] = 1
  <2>1. f \notin m.stale
    BY <1>2, <1>3, <1>4 DEF Calm
  <2>2. Refs(m, ob)[f] = 1
    BY <1>2, <2>1
  <2>3. OwnersIn(ob, f) = {}
    BY <1>1, <1>2, <2>2, HasReference
  <2>4. Refs(m2, ob2)[f] <= 1
    BY <1>2, <1>4, <2>2, <2>3 DEF Calm
  <2> QED
    BY <1>3, <2>4
<1> QED
  BY <1>2, <1>4 DEF Sole

(***************************************************************************)
(* A process whose page table is left alone keeps its address space.       *)
(***************************************************************************)
LEMMA OthersKeep ==
  ASSUME NEW m \in MemTypes, NEW m2 \in MemTypes,
         NEW ob \in [Objects -> ObjTypes], NEW ob2 \in [Objects -> ObjTypes],
         NEW pr \in ProcTypes, NEW pr2 \in ProcTypes, HasSpace(m, pr, ob),
         pr.state = "live", pr2.state = "live", pr2.root = pr.root, pr2.brk = pr.brk,
         pr2.vmas = pr.vmas, pr.root \in m2.roots, m2.pt[pr.root] = m.pt[pr.root],
         Calm(m, ob, m2, ob2), FramesKept(ob, ob2)
  PROVE  HasSpace(m2, pr2, ob2)
<1> DEFINE r == pr.root
           T == m.pt[r]
<1>1. r \in m.roots /\ SpaceOk(T, pr, ob) /\ Alone(T, pr, m, ob)
  BY DEF HasSpace
<1>2. T \in [Pages -> Entries]
  BY <1>1 DEF MemTypes
<1>3. SpaceOk(T, pr2, ob2)
  <2> HIDE DEF T
  <2>1. Heap(pr2) = Heap(pr)
    BY DEF Heap
  <2>2. ASSUME NEW v \in pr.vmas PROVE Backed(T, v, ob2)
    <3>1. Backed(T, v, ob) /\ v.kind \in Objects \cup {"private"}
      BY <1>1 DEF SpaceOk, GoodVmas, Vmas
    <3>2. ASSUME NEW i \in PagesOf(v), v.kind # "private"
          PROVE  T[i].frame \in Range(ob2[v.kind].frames)
      <4>1. T[i].frame \in Range(ob[v.kind].frames) /\ v.kind \in Objects
        BY <3>1, <3>2 DEF Backed
      <4>2. ob[v.kind].frames # <<>>
        BY <4>1 DEF Range
      <4> QED
        BY <4>1, <4>2 DEF FramesKept
    <3> QED
      BY <3>1, <3>2 DEF Backed
  <2> QED
    BY <1>1, <2>1, <2>2 DEF SpaceOk
<1>4. Alone(T, pr2, m2, ob2)
  <2> SUFFICES ASSUME NEW i \in Pages, Private(pr2, i) PROVE Sole(m2, ob2, T[i].frame)
    BY DEF Alone
  <2>1. Private(pr, i)
    BY DEF Private, Heap
  <2>2. T[i].frame \in Frames
    BY <1>1, <1>2, <2>1, PrivateUsed
  <2>3. Sole(m, ob, T[i].frame)
    BY <1>1, <2>1 DEF Alone
  <2> QED
    BY <1>1, <2>2, <2>3, AloneStays
<1> QED
  BY <1>3, <1>4 DEF HasSpace

(***************************************************************************)
(* A VMA lies in the user pages below the stack.                           *)
(***************************************************************************)
LEMMA VmaFacts ==
  ASSUME NEW v \in Vmas, End(v) <= MMAP_CEILING
  PROVE  /\ v.start \in Nat /\ v.len \in Nat /\ v.start >= 1 /\ v.len >= 1
         /\ End(v) \in Nat /\ v.start < End(v) /\ v.start \in PagesOf(v)
         /\ PagesOf(v) \subseteq Pages \ {TopPage}
         /\ \A i \in Nat : i \in PagesOf(v) <=> v.start <= i /\ i < End(v)
<1>1. /\ v.start \in Nat /\ v.len \in Nat /\ v.start >= 1 /\ v.len >= 1
      /\ MMAP_CEILING \in Nat /\ TopPage \in Nat /\ MMAP_CEILING <= TopPage
      /\ Pages = 1 .. TopPage
  BY MemoryAssumption DEF Vmas, Pages, BrkBase
<1>2. End(v) = v.start + v.len /\ PagesOf(v) = v.start .. v.start + v.len - 1
  BY <1>1 DEF End, PagesOf
<1> QED
  BY <1>1, <1>2

(***************************************************************************)
(* The VMAs and the heap of a process get smaller, and what is left of     *)
(* them stays mapped as it was.                                            *)
(***************************************************************************)
PieceOf(v2, V) ==
  \E v \in V : v2.prot = v.prot /\ v2.kind = v.kind /\ PagesOf(v2) \subseteq PagesOf(v)

(***************************************************************************)
(* The page is promised to the process: by a VMA, the break or the stack.  *)
(***************************************************************************)
Promised(pr, i) == i = TopPage \/ i \in Heap(pr) \/ \E v \in pr.vmas : i \in PagesOf(v)

(***************************************************************************)
(* Pieces of VMAs are backed like the VMAs.                                *)
(***************************************************************************)
LEMMA SpaceCut ==
  ASSUME NEW table \in [Pages -> Entries], NEW table2 \in [Pages -> Entries], NEW ob,
         NEW pr \in ProcTypes, NEW pr2 \in ProcTypes, SpaceOk(table, pr, ob),
         GoodVmas(pr2.vmas), pr2.brk <= pr.brk, \A v \in pr2.vmas : PieceOf(v, pr.vmas),
         \A i \in Pages : Promised(pr2, i) => table2[i] = table[i]
  PROVE  /\ SpaceOk(table2, pr2, ob)
         /\ \A i \in Pages : Private(pr2, i) => Private(pr, i) /\ table2[i] = table[i]
<1>0. /\ pr.brk \in Nat /\ pr2.brk \in Nat /\ BrkBase = 1 /\ TopPage \in Pages
      /\ Heap(pr2) \subseteq Heap(pr) /\ Heap(pr) \subseteq Pages
  BY MemoryAssumption DEF ProcTypes, BrkBase, Heap, Pages
<1>1. ASSUME NEW v2 \in pr2.vmas
      PROVE  \E v \in pr.vmas : /\ v2.prot = v.prot /\ v2.kind = v.kind
                                /\ PagesOf(v2) \subseteq PagesOf(v)
                                /\ PagesOf(v) \subseteq Pages
  <2>1. PICK v \in pr.vmas : v2.prot = v.prot /\ v2.kind = v.kind
                             /\ PagesOf(v2) \subseteq PagesOf(v)
    BY DEF PieceOf
  <2>2. v \in Vmas /\ End(v) <= MMAP_CEILING
    BY DEF SpaceOk, GoodVmas
  <2>3. PagesOf(v) \subseteq Pages
    BY <2>2, VmaFacts
  <2> QED
    BY <2>1, <2>3
<1>2. ASSUME NEW v2 \in pr2.vmas
      PROVE  Backed(table2, v2, ob) /\ PagesOf(v2) \cap Heap(pr2) = {}
  <2>1. PICK v \in pr.vmas : /\ v2.prot = v.prot /\ v2.kind = v.kind
                             /\ PagesOf(v2) \subseteq PagesOf(v) /\ PagesOf(v) \subseteq Pages
    BY <1>1
  <2>2. Backed(table, v, ob) /\ PagesOf(v) \cap Heap(pr) = {}
    BY DEF SpaceOk
  <2>3. \A i \in PagesOf(v2) : i \in PagesOf(v) /\ i \in Pages /\ table2[i] = table[i]
    BY <2>1 DEF Promised
  <2> QED
    BY <1>0, <2>1, <2>2, <2>3 DEF Backed
<1>3. \A i \in Heap(pr2) : table2[i] # NoPage /\ table2[i].prot = "rw"
  BY <1>0 DEF SpaceOk, Promised
<1>4. table2[TopPage] # NoPage
  BY <1>0 DEF SpaceOk, Promised
<1>5. ASSUME NEW i \in Pages, Private(pr2, i) PROVE Private(pr, i) /\ table2[i] = table[i]
  <2>1. Promised(pr2, i)
    BY <1>5 DEF Private, Promised
  <2>2. Private(pr, i)
    BY <1>0, <1>1, <1>5 DEF Private
  <2> QED
    BY <2>1, <2>2
<1> QED
  BY <1>2, <1>3, <1>4, <1>5 DEF SpaceOk

(***************************************************************************)
(* A mapping is put where nothing is mapped.                               *)
(***************************************************************************)
LEMMA SpaceGrows ==
  ASSUME NEW table \in [Pages -> Entries], NEW table2 \in [Pages -> Entries], NEW ob,
         NEW pr \in ProcTypes, NEW pr2 \in ProcTypes, SpaceOk(table, pr, ob),
         \A i \in Pages : table[i] # NoPage => table2[i] = table[i],
         NEW new \in Vmas, End(new) <= MMAP_CEILING, Unused(table, new.start, new.len),
         Backed(table2, new, ob), pr2.vmas = pr.vmas \cup {new}, pr2.brk = pr.brk
  PROVE  /\ SpaceOk(table2, pr2, ob)
         /\ \A i \in Pages : Private(pr2, i) =>
              \/ Private(pr, i) /\ table2[i] = table[i]
              \/ new.kind = "private" /\ i \in PagesOf(new)
<1>0. /\ \A i \in PagesOf(new) : i \in Pages /\ table[i] = NoPage
      /\ PagesOf(new) \subseteq Pages /\ new.start \in Nat /\ End(new) \in Nat
      /\ new.start < End(new)
  <2>1. PagesOf(new) = new.start .. new.start + new.len - 1
    BY VmaFacts DEF PagesOf, End
  <2> QED
    BY <2>1, VmaFacts DEF Unused
<1>1. ASSUME NEW v \in pr.vmas
      PROVE  /\ v \in Vmas /\ End(v) <= MMAP_CEILING /\ PagesOf(v) \subseteq Pages
             /\ Backed(table, v, ob) /\ PagesOf(v) \cap Heap(pr) = {}
             /\ End(v) <= new.start \/ End(new) <= v.start
  <2>1. /\ v \in Vmas /\ End(v) <= MMAP_CEILING
        /\ Backed(table, v, ob) /\ PagesOf(v) \cap Heap(pr) = {}
    BY DEF SpaceOk, GoodVmas
  <2>2. /\ PagesOf(v) \subseteq Pages /\ v.start \in Nat /\ End(v) \in Nat /\ v.start < End(v)
        /\ \A i \in Nat : i \in PagesOf(v) <=> v.start <= i /\ i < End(v)
    BY <2>1, VmaFacts
  <2>3. \A i \in Nat : i \in PagesOf(new) <=> new.start <= i /\ i < End(new)
    BY VmaFacts
  <2>4. PagesOf(v) \cap PagesOf(new) = {}
    BY <1>0, <2>1 DEF Backed
  <2>5. End(v) <= new.start \/ End(new) <= v.start
    <3>1. ~(v.start \in PagesOf(v) /\ v.start \in PagesOf(new))
      BY <2>4
    <3>2. ~(new.start \in PagesOf(v) /\ new.start \in PagesOf(new))
      BY <2>4
    <3> QED
      BY <1>0, <2>2, <2>3, <3>1, <3>2
  <2> QED
    BY <2>1, <2>2, <2>5
<1>2. GoodVmas(pr2.vmas)
  <2>1. pr2.vmas \subseteq Vmas /\ \A v \in pr2.vmas : End(v) <= MMAP_CEILING
    BY <1>1
  <2>2. \A v, w \in pr.vmas : v # w => End(v) <= w.start \/ End(w) <= v.start
    BY DEF SpaceOk, GoodVmas
  <2>3. \A v, w \in pr2.vmas : v # w => End(v) <= w.start \/ End(w) <= v.start
    BY <1>1, <2>2
  <2> QED
    BY <2>1, <2>3 DEF GoodVmas
<1>3. Heap(pr2) = Heap(pr) /\ Heap(pr) \subseteq Pages /\ TopPage \in Pages
  <2>1. pr.brk \in 1 .. MMAP_FLOOR /\ BrkBase = 1
    BY DEF ProcTypes, BrkBase
  <2> QED
    BY <2>1, MemoryAssumption DEF Heap, Pages
<1>4. \A i \in Heap(pr) : table[i] # NoPage /\ table[i].prot = "rw"
  BY DEF SpaceOk
<1>5. ASSUME NEW v \in pr2.vmas PROVE Backed(table2, v, ob) /\ PagesOf(v) \cap Heap(pr2) = {}
  <2>1. CASE v \in pr.vmas
    BY <1>1, <1>3, <2>1 DEF Backed
  <2>2. CASE v = new
    BY <1>0, <1>3, <1>4, <2>2
  <2> QED
    BY <2>1, <2>2
<1>6. \A i \in Heap(pr2) : table2[i] # NoPage /\ table2[i].prot = "rw"
  BY <1>3, <1>4
<1>7. table2[TopPage] # NoPage
  BY <1>3 DEF SpaceOk
<1>8. ASSUME NEW i \in Pages, Private(pr2, i)
      PROVE  \/ Private(pr, i) /\ table2[i] = table[i]
             \/ new.kind = "private" /\ i \in PagesOf(new)
  <2>1. Private(pr, i) \/ (new.kind = "private" /\ i \in PagesOf(new))
    BY <1>3, <1>8 DEF Private
  <2>2. Private(pr, i) => table[i] # NoPage
    BY PrivateUsed
  <2> QED
    BY <2>1, <2>2
<1> QED
  BY <1>2, <1>5, <1>6, <1>7, <1>8 DEF SpaceOk

(***************************************************************************)
(* The heap grows into unused pages.                                       *)
(***************************************************************************)
LEMMA HeapGrows ==
  ASSUME NEW table \in [Pages -> Entries], NEW table2 \in [Pages -> Entries], NEW ob,
         NEW pr \in ProcTypes, NEW pr2 \in ProcTypes, SpaceOk(table, pr, ob),
         \A i \in Pages : table[i] # NoPage => table2[i] = table[i],
         pr2.vmas = pr.vmas, pr.brk < pr2.brk,
         \A i \in pr.brk .. pr2.brk - 1 :
           table[i] = NoPage /\ table2[i] # NoPage /\ table2[i].prot = "rw"
  PROVE  /\ SpaceOk(table2, pr2, ob)
         /\ \A i \in Pages : Private(pr2, i) =>
              \/ Private(pr, i) /\ table2[i] = table[i]
              \/ i \in pr.brk .. pr2.brk - 1
<1>1. /\ pr.brk \in Nat /\ pr2.brk \in Nat /\ BrkBase = 1 /\ TopPage \in Pages
      /\ Heap(pr2) = Heap(pr) \cup (pr.brk .. pr2.brk - 1) /\ Heap(pr2) \subseteq Pages
  <2>1. pr.brk \in 1 .. MMAP_FLOOR /\ pr2.brk \in 1 .. MMAP_FLOOR /\ BrkBase = 1
    BY DEF ProcTypes, BrkBase
  <2> QED
    BY SMTT(30), <2>1, MemoryAssumption DEF Heap, Pages
<1>2. ASSUME NEW v \in pr.vmas
      PROVE  Backed(table2, v, ob) /\ PagesOf(v) \cap Heap(pr2) = {}
  <2>1. /\ v \in Vmas /\ End(v) <= MMAP_CEILING
        /\ Backed(table, v, ob) /\ PagesOf(v) \cap Heap(pr) = {}
    BY DEF SpaceOk, GoodVmas
  <2>2. PagesOf(v) \subseteq Pages
    BY <2>1, VmaFacts
  <2> QED
    BY <1>1, <2>1, <2>2 DEF Backed
<1>3. \A i \in Heap(pr2) : table2[i] # NoPage /\ table2[i].prot = "rw"
  BY <1>1 DEF SpaceOk
<1>4. table2[TopPage] # NoPage
  BY <1>1 DEF SpaceOk
<1>5. ASSUME NEW i \in Pages, Private(pr2, i)
      PROVE  \/ Private(pr, i) /\ table2[i] = table[i]
             \/ i \in pr.brk .. pr2.brk - 1
  <2>1. Private(pr, i) \/ i \in pr.brk .. pr2.brk - 1
    BY <1>1, <1>5 DEF Private
  <2>2. Private(pr, i) => table[i] # NoPage
    BY PrivateUsed
  <2> QED
    BY <2>1, <2>2
<1> QED
  BY <1>2, <1>3, <1>4, <1>5 DEF SpaceOk

(***************************************************************************)
(* What the pages of a mapping hold after a change of its own table.       *)
(***************************************************************************)
LEMMA SpaceBecomes ==
  ASSUME NEW m \in MemTypes, NEW m2 \in MemTypes, NEW ob \in [Objects -> ObjTypes],
         NEW pr \in ProcTypes, NEW pr2 \in ProcTypes, HasSpace(m, pr, ob),
         pr.state = "live", pr2.state = "live", pr2.root = pr.root, m2.roots = m.roots,
         Calm(m, ob, m2, ob), SpaceOk(m2.pt[pr.root], pr2, ob),
         \A i \in Pages : Private(pr2, i) =>
           \/ Private(pr, i) /\ m2.pt[pr.root][i].frame = m.pt[pr.root][i].frame
           \/ Sole(m2, ob, m2.pt[pr.root][i].frame)
  PROVE  HasSpace(m2, pr2, ob)
<1> DEFINE r == pr.root
           T == m.pt[r]
<1>1. r \in m.roots /\ SpaceOk(T, pr, ob) /\ Alone(T, pr, m, ob)
  BY DEF HasSpace
<1>2. T \in [Pages -> Entries]
  BY <1>1 DEF MemTypes
<1>3. Alone(m2.pt[r], pr2, m2, ob)
  <2> SUFFICES ASSUME NEW i \in Pages, Private(pr2, i)
               PROVE  Sole(m2, ob, m2.pt[r][i].frame)
    BY DEF Alone
  <2>1. CASE Private(pr, i) /\ m2.pt[r][i].frame = T[i].frame
    <3>1. T[i].frame \in Frames
      BY <1>1, <1>2, <2>1, PrivateUsed
    <3>2. Sole(m, ob, T[i].frame)
      BY <1>1, <2>1 DEF Alone
    <3> QED
      BY <1>1, <2>1, <3>1, <3>2, AloneStays
  <2> QED
    BY <2>1
<1> QED
  BY <1>1, <1>3 DEF HasSpace

-----------------------------------------------------------------------------
(***************************************************************************)
(* A part of an interval.                                                  *)
(***************************************************************************)
LEMMA CutFacts ==
  ASSUME NEW v \in Vmas, End(v) <= MMAP_CEILING, NEW a \in Nat, NEW b \in Nat,
         v.start <= a, a < b, b <= End(v)
  PROVE  /\ Cut(v, a, b) \in Vmas /\ Cut(v, a, b).start = a /\ End(Cut(v, a, b)) = b
         /\ Cut(v, a, b).prot = v.prot /\ Cut(v, a, b).kind = v.kind
<1>1. /\ v.start \in Nat /\ v.start >= 1 /\ End(v) \in Nat /\ TopPage \in Nat
      /\ MMAP_CEILING \in Nat /\ MMAP_CEILING <= TopPage
  BY VmaFacts, MemoryAssumption
<1>2. a \in 1 .. TopPage /\ b - a \in 1 .. TopPage /\ a + (b - a) = b
  BY <1>1
<1> DEFINE c == Cut(v, a, b)
           d == b - a
<1>3. c = [v EXCEPT !.start = a, !.len = d]
  BY DEF Cut
<1> HIDE DEF c, d
<1>4. d \in 1 .. TopPage /\ a + d = b
  BY <1>2 DEF d
<1>5. c \in Vmas /\ c.start = a /\ c.len = d /\ c.prot = v.prot /\ c.kind = v.kind
  BY <1>2, <1>3, <1>4 DEF Vmas, Pages, BrkBase
<1> QED
  BY <1>4, <1>5 DEF c, End

(***************************************************************************)
(* The part of a VMA inside a range it overlaps.                           *)
(***************************************************************************)
LEMMA InsideFacts ==
  ASSUME NEW v \in Vmas, End(v) <= MMAP_CEILING, NEW start \in Nat, NEW end \in Nat,
         start < end, Overlaps(v, start, end)
  PROVE  LET c == Inside(v, start, end)
         IN  /\ c \in Vmas /\ c.kind = v.kind
             /\ v.start <= c.start /\ End(c) <= End(v) /\ start <= c.start /\ End(c) <= end
             /\ End(c) <= MMAP_CEILING
<1> DEFINE a == Max({v.start, start})
           b == Min({End(v), end})
<1>0. v.start \in Nat /\ End(v) \in Nat /\ v.start < End(v) /\ MMAP_CEILING \in Nat
  BY VmaFacts, MemoryAssumption
<1>1. /\ a = IF v.start <= start THEN start ELSE v.start
      /\ b = IF End(v) <= end THEN End(v) ELSE end
  BY <1>0, OfTwo
<1>2. Inside(v, start, end) = Cut(v, a, b)
  BY DEF Inside
<1> HIDE DEF a, b
<1>3. a \in Nat /\ b \in Nat /\ v.start <= a /\ a < b /\ b <= End(v) /\ start <= a /\ b <= end
  BY <1>0, <1>1 DEF Overlaps
<1>4. /\ Cut(v, a, b) \in Vmas /\ Cut(v, a, b).start = a /\ End(Cut(v, a, b)) = b
      /\ Cut(v, a, b).kind = v.kind
  BY <1>3, CutFacts
<1> QED
  BY <1>0, <1>2, <1>3, <1>4

(***************************************************************************)
(* A VMA inside another has a part of its pages.                           *)
(***************************************************************************)
LEMMA WithinPages ==
  ASSUME NEW v \in Vmas, NEW w \in Vmas, End(v) <= MMAP_CEILING, End(w) <= MMAP_CEILING,
         w.start <= v.start, End(v) <= End(w)
  PROVE  PagesOf(v) \subseteq PagesOf(w)
<1>1. /\ v.start \in Nat /\ End(v) \in Nat /\ w.start \in Nat /\ End(w) \in Nat
      /\ PagesOf(v) \subseteq Pages
      /\ \A i \in Nat : i \in PagesOf(v) <=> v.start <= i /\ i < End(v)
      /\ \A i \in Nat : i \in PagesOf(w) <=> w.start <= i /\ i < End(w)
  BY VmaFacts
<1>2. Pages \subseteq Nat
  BY MemoryAssumption DEF Pages, BrkBase
<1>3. ASSUME NEW i \in PagesOf(v) PROVE i \in PagesOf(w)
  <2>1. i \in Nat
    BY <1>1, <1>2
  <2>2. v.start <= i /\ i < End(v)
    BY <1>1, <2>1
  <2>3. w.start <= i /\ i < End(w)
    BY <1>1, <2>1, <2>2
  <2> QED
    BY <1>1, <2>1, <2>3
<1> QED
  BY <1>3

(***************************************************************************)
(* munmap_vmas leaves pieces of VMAs outside of the range.                 *)
(***************************************************************************)
Away(v, start, end) == End(v) <= start \/ end <= v.start

(***************************************************************************)
(* They do not overlap each other either.                                  *)
(***************************************************************************)
LEMMA MunmapFacts ==
  ASSUME NEW V, GoodVmas(V), NEW start \in Nat, NEW len \in Nat, len >= 1
  PROVE  /\ GoodVmas(munmap_vmas(V, start, len))
         /\ \A v \in munmap_vmas(V, start, len) :
              PieceOf(v, V) /\ Away(v, start, start + len)
<1> DEFINE end == start + len
           Whole(c, v) == c = v /\ ~Overlaps(v, start, end)
           Left(c, v) == v.start < start /\ c = Cut(v, v.start, start) /\ Overlaps(v, start, end)
           Right(c, v) == end < End(v) /\ c = Cut(v, end, End(v)) /\ Overlaps(v, start, end)
           R == munmap_vmas(V, start, len)
<1>0. end \in Nat /\ start < end /\ MMAP_CEILING \in Nat
  BY MemoryAssumption
<1>1. \A c \in R : \E v \in V : Whole(c, v) \/ Left(c, v) \/ Right(c, v)
  BY DEF munmap_vmas, Outside
<1> HIDE DEF end
<1>2. ASSUME NEW v \in V
      PROVE  /\ v \in Vmas /\ End(v) <= MMAP_CEILING
             /\ v.start \in Nat /\ End(v) \in Nat /\ v.start < End(v)
             /\ Overlaps(v, start, end) <=> v.start < end /\ End(v) > start
             /\ v.start < start /\ Overlaps(v, start, end) =>
                  LET c == Cut(v, v.start, start)
                  IN  c \in Vmas /\ c.start = v.start /\ End(c) = start
                      /\ c.prot = v.prot /\ c.kind = v.kind
             /\ end < End(v) /\ Overlaps(v, start, end) =>
                  LET c == Cut(v, end, End(v))
                  IN  c \in Vmas /\ c.start = end /\ End(c) = End(v)
                      /\ c.prot = v.prot /\ c.kind = v.kind
  <2>1. v \in Vmas /\ End(v) <= MMAP_CEILING
    BY DEF GoodVmas
  <2>2. v.start \in Nat /\ End(v) \in Nat /\ v.start < End(v)
    BY <2>1, VmaFacts
  <2>3. Overlaps(v, start, end) <=> v.start < end /\ End(v) > start
    BY DEF Overlaps
  <2>4. ASSUME v.start < start, Overlaps(v, start, end)
        PROVE  LET c == Cut(v, v.start, start)
               IN  c \in Vmas /\ c.start = v.start /\ End(c) = start
                   /\ c.prot = v.prot /\ c.kind = v.kind
    <3>1. v.start <= v.start /\ v.start < start /\ start <= End(v)
      BY <2>2, <2>3, <2>4
    <3> QED
      BY <2>1, <2>2, <3>1, CutFacts
  <2>5. ASSUME end < End(v), Overlaps(v, start, end)
        PROVE  LET c == Cut(v, end, End(v))
               IN  c \in Vmas /\ c.start = end /\ End(c) = End(v)
                   /\ c.prot = v.prot /\ c.kind = v.kind
    <3>1. v.start <= end /\ end < End(v) /\ End(v) <= End(v)
      BY <1>0, <2>2, <2>3, <2>5
    <3> QED
      BY <1>0, <2>1, <2>2, <3>1, CutFacts
  <2> QED
    BY <2>1, <2>2, <2>3, <2>4, <2>5
<1>3. ASSUME NEW c, NEW v \in V, Whole(c, v) \/ Left(c, v) \/ Right(c, v)
      PROVE  /\ c \in Vmas /\ End(c) <= MMAP_CEILING /\ c.prot = v.prot /\ c.kind = v.kind
             /\ c.start \in Nat /\ End(c) \in Nat
             /\ v.start <= c.start /\ End(c) <= End(v) /\ Away(c, start, end)
  <2>1. CASE Whole(c, v)
    <3>1. c = v /\ ~(v.start < end /\ End(v) > start)
      BY <1>2, <2>1
    <3>2. v.start \in Nat /\ End(v) \in Nat
      BY <1>2
    <3>3. Away(v, start, end)
      BY <1>0, <3>1, <3>2 DEF Away
    <3>4. v.start <= v.start /\ End(v) <= End(v)
      BY <3>2
    <3> QED
      BY <1>2, <2>1, <3>1, <3>3, <3>4
  <2>2. CASE Left(c, v)
    <3>1. c \in Vmas /\ c.start = v.start /\ End(c) = start /\ c.prot = v.prot /\ c.kind = v.kind
      BY <1>2, <2>2
    <3>2. /\ v.start \in Nat /\ End(v) \in Nat /\ start < End(v) /\ v.start < start
          /\ End(v) <= MMAP_CEILING
      BY <1>2, <2>2
    <3> QED
      BY <1>0, <3>1, <3>2 DEF Away
  <2>3. CASE Right(c, v)
    <3>1. c \in Vmas /\ c.start = end /\ End(c) = End(v) /\ c.prot = v.prot /\ c.kind = v.kind
      BY <1>2, <2>3
    <3>2. /\ v.start \in Nat /\ End(v) \in Nat /\ v.start < end /\ end < End(v)
          /\ End(v) <= MMAP_CEILING
      BY <1>2, <2>3
    <3> QED
      BY <1>0, <3>1, <3>2 DEF Away
  <2> QED
    BY <1>3, <2>1, <2>2, <2>3
<1>4. ASSUME NEW c, NEW v \in V
      PROVE  (Left(c, v) => End(c) <= start) /\ (Right(c, v) => end <= c.start)
  <2>1. ASSUME Left(c, v) PROVE End(c) <= start
    <3>1. End(c) = start
      BY <1>2, <2>1
    <3> QED
      BY <3>1
  <2>2. ASSUME Right(c, v) PROVE end <= c.start
    <3>1. c.start = end
      BY <1>2, <2>2
    <3> QED
      BY <1>0, <3>1
  <2> QED
    BY <2>1, <2>2
<1> HIDE DEF R
<1>5. ASSUME NEW c \in R PROVE PieceOf(c, V) /\ Away(c, start, end)
  <2>1. PICK v \in V : Whole(c, v) \/ Left(c, v) \/ Right(c, v)
    BY <1>1
  <2> HIDE DEF Whole, Left, Right
  <2>2. PagesOf(c) \subseteq PagesOf(v)
    BY <1>2, <1>3, <2>1, WithinPages
  <2> QED
    BY <1>3, <2>1, <2>2 DEF PieceOf
<1>6. ASSUME NEW c \in R, NEW d \in R, c # d PROVE End(c) <= d.start \/ End(d) <= c.start
  <2>1. PICK v \in V : Whole(c, v) \/ Left(c, v) \/ Right(c, v)
    BY <1>1
  <2>2. PICK w \in V : Whole(d, w) \/ Left(d, w) \/ Right(d, w)
    BY <1>1
  <2>3. CASE v = w
    <3>1. (Left(c, v) /\ Right(d, v)) \/ (Right(c, v) /\ Left(d, v))
      BY <1>6, <2>1, <2>2, <2>3
    <3>2. c.start \in Nat /\ End(c) \in Nat /\ d.start \in Nat /\ End(d) \in Nat
      <4> HIDE DEF Whole, Left, Right
      <4> QED
        BY <1>3, <2>1, <2>2
    <3>3. \/ End(c) <= start /\ end <= d.start
          \/ End(d) <= start /\ end <= c.start
      <4> HIDE DEF Whole, Left, Right
      <4> QED
        BY <1>4, <3>1
    <3> QED
      BY <1>0, <3>2, <3>3
  <2>4. CASE v # w
    <3>1. End(v) <= w.start \/ End(w) <= v.start
      BY <2>4 DEF GoodVmas
    <3>2. /\ c.start \in Nat /\ End(c) \in Nat /\ d.start \in Nat /\ End(d) \in Nat
          /\ v.start <= c.start /\ End(c) <= End(v) /\ w.start <= d.start /\ End(d) <= End(w)
      <4> HIDE DEF Whole, Left, Right
      <4> QED
        BY <1>3, <2>1, <2>2
    <3>3. v.start \in Nat /\ End(v) \in Nat /\ w.start \in Nat /\ End(w) \in Nat
      BY <1>2
    <3> QED
      BY <3>1, <3>2, <3>3
  <2> QED
    BY <2>3, <2>4
<1>7. GoodVmas(R)
  <2>1. ASSUME NEW c \in R PROVE c \in Vmas /\ End(c) <= MMAP_CEILING
    <3>1. PICK v \in V : Whole(c, v) \/ Left(c, v) \/ Right(c, v)
      BY <1>1
    <3> HIDE DEF Whole, Left, Right
    <3> QED
      BY <1>3, <3>1
  <2> QED
    BY <1>6, <2>1 DEF GoodVmas
<1> QED
  BY <1>5, <1>7 DEF R, end

(***************************************************************************)
(* The pages a call works on are pages of VMAs, inside the range.          *)
(***************************************************************************)
LEMMA CoveredFacts ==
  ASSUME NEW V, GoodVmas(V), NEW start \in Nat, NEW len \in Nat, len >= 1
  PROVE  /\ Covered(V, start, len) \subseteq Pages \ {TopPage}
         /\ \A i \in Covered(V, start, len) :
              start <= i /\ i < start + len /\ \E v \in V : i \in PagesOf(v)
<1> DEFINE end == start + len
<1>0. end \in Nat /\ start < end
  OBVIOUS
<1> HIDE DEF end
<1>1. ASSUME NEW i \in Covered(V, start, len)
      PROVE  /\ i \in Pages \ {TopPage} /\ start <= i /\ i < end
             /\ \E v \in V : i \in PagesOf(v)
  <2>1. PICK v \in V : Overlaps(v, start, end) /\ i \in PagesOf(Inside(v, start, end))
    BY <1>1 DEF Covered, end
  <2> DEFINE c == Inside(v, start, end)
  <2>2. v \in Vmas /\ End(v) <= MMAP_CEILING
    BY DEF GoodVmas
  <2>3. /\ c \in Vmas /\ v.start <= c.start /\ End(c) <= End(v) /\ start <= c.start
        /\ End(c) <= end /\ End(c) <= MMAP_CEILING
    BY <1>0, <2>1, <2>2, InsideFacts
  <2> HIDE DEF c
  <2>4. PagesOf(c) \subseteq PagesOf(v)
    BY <2>2, <2>3, WithinPages
  <2>5. /\ PagesOf(c) \subseteq Pages \ {TopPage} /\ c.start \in Nat /\ End(c) \in Nat
        /\ \A j \in Nat : j \in PagesOf(c) <=> c.start <= j /\ j < End(c)
    BY <2>3, VmaFacts
  <2>6. i \in PagesOf(c) /\ i \in Nat
    <3>1. Pages \subseteq Nat
      BY MemoryAssumption DEF Pages, BrkBase
    <3> QED
      BY <2>1, <2>5, <3>1 DEF c
  <2>7. c.start <= i /\ i < End(c)
    BY <2>5, <2>6
  <2>8. start <= i /\ i < end
    BY <1>0, <2>3, <2>5, <2>6, <2>7
  <2> QED
    BY <2>4, <2>5, <2>6, <2>8
<1> QED
  BY <1>1 DEF end

(***************************************************************************)
(* mprotect_vmas leaves the pieces outside of the range, and a piece with  *)
(* the new protection for what every VMA has inside.                       *)
(***************************************************************************)
Reprotected(c, V, start, len, prot) ==
  /\ c.prot = prot /\ PagesOf(c) \subseteq Covered(V, start, len)
  /\ \E v \in V : c.kind = v.kind /\ PagesOf(c) \subseteq PagesOf(v)

(***************************************************************************)
(* None of them overlaps another.                                          *)
(***************************************************************************)
LEMMA MprotectFacts ==
  ASSUME NEW V, GoodVmas(V), NEW start \in Nat, NEW len \in Nat, len >= 1, NEW prot \in Prots
  PROVE  /\ GoodVmas(mprotect_vmas(V, start, len, prot))
         /\ \A c \in mprotect_vmas(V, start, len, prot) :
              \/ PieceOf(c, V) /\ Away(c, start, start + len)
              \/ Reprotected(c, V, start, len, prot)
<1> DEFINE end == start + len
           hit == {v \in V : Overlaps(v, start, end)}
           In(v) == [Inside(v, start, end) EXCEPT !.prot = prot]
           R == munmap_vmas(V, start, len)
           N == {In(v) : v \in hit}
<1>0. end \in Nat /\ start < end /\ MMAP_CEILING \in Nat
  BY MemoryAssumption
<1>1. mprotect_vmas(V, start, len, prot) = R \cup N
  BY DEF mprotect_vmas
<1>2. GoodVmas(R) /\ \A c \in R : PieceOf(c, V) /\ Away(c, start, end)
  BY MunmapFacts
<1>3. ASSUME NEW v \in hit
      PROVE  /\ In(v) \in Vmas /\ In(v).kind = v.kind /\ In(v).prot = prot
             /\ v.start <= In(v).start /\ End(In(v)) <= End(v)
             /\ start <= In(v).start /\ End(In(v)) <= end /\ End(In(v)) <= MMAP_CEILING
             /\ PagesOf(In(v)) = PagesOf(Inside(v, start, end))
  <2> DEFINE c == Inside(v, start, end)
             d == In(v)
  <2>1. v \in Vmas /\ End(v) <= MMAP_CEILING /\ Overlaps(v, start, end)
    BY DEF GoodVmas
  <2>2. /\ c \in Vmas /\ c.kind = v.kind
        /\ v.start <= c.start /\ End(c) <= End(v) /\ start <= c.start /\ End(c) <= end
        /\ End(c) <= MMAP_CEILING
    BY <1>0, <2>1, InsideFacts
  <2>3. d = [c EXCEPT !.prot = prot]
    OBVIOUS
  <2> HIDE DEF c, d
  <2>4. d \in Vmas /\ d.kind = c.kind /\ d.prot = prot /\ d.start = c.start /\ d.len = c.len
    BY <2>2, <2>3 DEF Vmas
  <2>5. End(d) = End(c) /\ PagesOf(d) = PagesOf(c)
    BY <2>4 DEF End, PagesOf
  <2> QED
    BY <2>2, <2>4, <2>5 DEF c, d
<1>4. ASSUME NEW v \in hit PROVE Reprotected(In(v), V, start, len, prot)
  <2>1. PagesOf(Inside(v, start, end)) \subseteq Covered(V, start, len)
    BY DEF Covered
  <2>2. v \in V /\ v \in Vmas /\ End(v) <= MMAP_CEILING
    BY DEF GoodVmas
  <2> HIDE DEF In
  <2>3. PagesOf(In(v)) \subseteq PagesOf(v)
    BY <1>3, <2>2, WithinPages
  <2> QED
    BY <1>3, <2>1, <2>2, <2>3 DEF Reprotected
<1>5. ASSUME NEW v \in hit, NEW w \in hit, v # w
      PROVE  End(In(v)) <= In(w).start \/ End(In(w)) <= In(v).start
  <2>1. End(v) <= w.start \/ End(w) <= v.start
    BY <1>5 DEF GoodVmas
  <2>2. /\ v \in Vmas /\ End(v) <= MMAP_CEILING /\ w \in Vmas /\ End(w) <= MMAP_CEILING
    BY DEF GoodVmas
  <2>3. v.start \in Nat /\ End(v) \in Nat /\ w.start \in Nat /\ End(w) \in Nat
    BY <2>2, VmaFacts
  <2> DEFINE c == In(v)
             d == In(w)
  <2> HIDE DEF In, c, d
  <2>4. /\ v.start <= c.start /\ End(c) <= End(v) /\ w.start <= d.start /\ End(d) <= End(w)
        /\ c \in Vmas /\ d \in Vmas /\ End(c) <= MMAP_CEILING /\ End(d) <= MMAP_CEILING
    BY <1>3 DEF c, d
  <2>5. c.start \in Nat /\ End(c) \in Nat /\ d.start \in Nat /\ End(d) \in Nat
    BY <2>4, VmaFacts
  <2>6. End(c) <= d.start \/ End(d) <= c.start
    BY <2>1, <2>3, <2>4, <2>5
  <2> QED
    BY <2>6 DEF c, d
<1>6. ASSUME NEW c \in R, NEW v \in hit
      PROVE  End(c) <= In(v).start \/ End(In(v)) <= c.start
  <2> DEFINE d == In(v)
  <2>1. /\ c \in Vmas /\ End(c) <= MMAP_CEILING /\ Away(c, start, end)
    BY <1>2 DEF GoodVmas
  <2> HIDE DEF In, d
  <2>2. d \in Vmas /\ End(d) <= MMAP_CEILING /\ start <= d.start /\ End(d) <= end
    BY <1>3 DEF d
  <2>3. c.start \in Nat /\ End(c) \in Nat /\ d.start \in Nat /\ End(d) \in Nat
    BY <2>1, <2>2, VmaFacts
  <2>4. End(c) <= d.start \/ End(d) <= c.start
    BY <1>0, <2>1, <2>2, <2>3 DEF Away
  <2> QED
    BY <2>4 DEF d
<1> HIDE DEF R, In, hit
<1>7. \A c, d \in R \cup N : c # d => End(c) <= d.start \/ End(d) <= c.start
  <2>1. \A c, d \in R : c # d => End(c) <= d.start \/ End(d) <= c.start
    BY <1>2 DEF GoodVmas
  <2>2. \A c, d \in N : c # d => End(c) <= d.start \/ End(d) <= c.start
    BY <1>5
  <2>3. \A c \in R, d \in N : End(c) <= d.start \/ End(d) <= c.start
    BY <1>6
  <2> HIDE DEF N
  <2> QED
    BY <2>1, <2>2, <2>3
<1>8. \A c \in R \cup N : c \in Vmas /\ End(c) <= MMAP_CEILING
  <2>1. \A c \in R : c \in Vmas /\ End(c) <= MMAP_CEILING
    BY <1>2 DEF GoodVmas
  <2>2. \A c \in N : c \in Vmas /\ End(c) <= MMAP_CEILING
    BY <1>3
  <2> HIDE DEF N
  <2> QED
    BY <2>1, <2>2
<1>9. GoodVmas(R \cup N)
  <2> HIDE DEF N
  <2> QED
    BY <1>7, <1>8 DEF GoodVmas
<1>10. \A c \in R \cup N : \/ PieceOf(c, V) /\ Away(c, start, end)
                           \/ Reprotected(c, V, start, len, prot)
  BY <1>2, <1>4
<1> QED
  BY <1>1, <1>9, <1>10 DEF end

-----------------------------------------------------------------------------
(***************************************************************************)
(* The end of a gap: the lowest start above it, or the ceiling.            *)
(***************************************************************************)
LEMMA GapEndFacts ==
  ASSUME NEW A \in SUBSET Vmas
  PROVE  /\ GapEnd(A) \in Nat /\ GapEnd(A) <= MMAP_CEILING
         /\ \A v \in A : GapEnd(A) <= v.start
         /\ GapEnd(A) = MMAP_CEILING \/ \E v \in A : GapEnd(A) = v.start
<1> DEFINE S == {MMAP_CEILING} \cup {v.start : v \in A}
<1>1. S \subseteq Nat /\ S # {}
  <2>1. \A v \in A : v.start \in Nat
    BY MemoryAssumption DEF Vmas, Pages, BrkBase
  <2>2. MMAP_CEILING \in Nat
    BY MemoryAssumption
  <2> QED
    BY <2>1, <2>2
<1>2. GapEnd(A) = Min(S)
  BY DEF GapEnd
<1>3. GapEnd(A) \in S /\ \A y \in S : GapEnd(A) <= y
  <2> HIDE DEF S
  <2> QED
    BY ZenonT(40), <1>1, <1>2, MinInSet
<1> QED
  BY <1>1, <1>3

(***************************************************************************)
(* In a set of VMAs that is not empty one starts highest.                  *)
(***************************************************************************)
LEMMA Highest ==
  ASSUME NEW A \in SUBSET Vmas, A # {}
  PROVE  \E v \in A : \A w \in A : w.start <= v.start
<1> DEFINE S == {v.start : v \in A}
<1>1. S \subseteq Nat /\ S # {} /\ TopPage \in Nat /\ \A x \in S : x <= TopPage
  <2>1. \A v \in A : v.start \in Nat /\ v.start <= TopPage
    BY MemoryAssumption DEF Vmas, Pages, BrkBase
  <2> QED
    BY <2>1, MemoryAssumption
<1>2. Max(S) \in S /\ \A y \in S : Max(S) >= y
  <2> HIDE DEF S
  <2> QED
    BY <1>1, MaxInSet
<1>3. PICK v \in A : v.start = Max(S)
  BY <1>2
<1>4. \A w \in A : w.start <= v.start
  <2> TAKE w \in A
  <2>1. Max(S) >= w.start /\ w.start \in Nat /\ v.start \in Nat
    BY <1>1, <1>2
  <2> QED
    BY <1>3, <2>1
<1> QED
  BY <1>4

(***************************************************************************)
(* Where find_gap_topdown stops: below the gap over the highest VMA that   *)
(* has room above it, or below all of them.                                *)
(***************************************************************************)
LEMMA GapCases ==
  ASSUME NEW V \in SUBSET Vmas, NEW len \in Nat
  PROVE  LET base == find_gap_topdown(V, len)
         IN  \/ len > MMAP_CEILING - MMAP_FLOOR /\ base = 0
             \/ /\ len <= MMAP_CEILING - MMAP_FLOOR
                /\ \E v \in V :
                     /\ GapBelow(V, v, len) /\ \A w \in V : GapBelow(V, w, len) => w.start <= v.start
                     /\ base = GapEnd({w \in V : w.start > v.start}) - len
             \/ /\ len <= MMAP_CEILING - MMAP_FLOOR /\ \A v \in V : ~GapBelow(V, v, len)
                /\ base = IF GapEnd(V) >= MMAP_FLOOR + len THEN GapEnd(V) - len ELSE 0
<1> DEFINE fits == {v \in V : GapBelow(V, v, len)}
           base == find_gap_topdown(V, len)
<1>0. MMAP_CEILING \in Nat /\ MMAP_FLOOR \in Nat /\ \A v \in V : v.start \in Nat
  BY MemoryAssumption DEF Vmas, Pages, BrkBase
<1>1. base = IF len > MMAP_CEILING - MMAP_FLOOR THEN 0
             ELSE IF fits # {}
             THEN GapEnd({w \in V : \A v \in fits : w.start > v.start}) - len
             ELSE IF GapEnd(V) >= MMAP_FLOOR + len THEN GapEnd(V) - len ELSE 0
  BY DEF find_gap_topdown
<1>2. len > MMAP_CEILING - MMAP_FLOOR \/ len <= MMAP_CEILING - MMAP_FLOOR
  BY <1>0
<1>3. ASSUME fits # {}
      PROVE  \E v \in V : /\ GapBelow(V, v, len)
                          /\ \A w \in V : GapBelow(V, w, len) => w.start <= v.start
                          /\ {w \in V : \A x \in fits : w.start > x.start}
                               = {w \in V : w.start > v.start}
  <2>1. PICK v \in fits : \A w \in fits : w.start <= v.start
    <3>1. fits \in SUBSET Vmas
      OBVIOUS
    <3> HIDE DEF fits
    <3> QED
      BY <1>3, <3>1, Highest
  <2>2. \A w \in V : (\A x \in fits : w.start > x.start) <=> w.start > v.start
    BY <1>0, <2>1
  <2>3. v \in V /\ GapBelow(V, v, len)
    OBVIOUS
  <2>4. {w \in V : \A x \in fits : w.start > x.start} = {w \in V : w.start > v.start}
    <3> HIDE DEF fits
    <3> QED
      BY <2>2
  <2> QED
    BY <2>1, <2>3, <2>4
<1>4. fits = {} => \A v \in V : ~GapBelow(V, v, len)
  OBVIOUS
<1> HIDE DEF fits, base
<1>5. CASE len > MMAP_CEILING - MMAP_FLOOR
  BY <1>1, <1>5 DEF base
<1>6. CASE len <= MMAP_CEILING - MMAP_FLOOR /\ fits # {}
  <2>1. ~(len > MMAP_CEILING - MMAP_FLOOR)
    BY <1>0, <1>6
  <2>2. base = GapEnd({w \in V : \A v \in fits : w.start > v.start}) - len
    BY <1>1, <1>6, <2>1
  <2>3. PICK v \in V : /\ GapBelow(V, v, len)
                       /\ \A w \in V : GapBelow(V, w, len) => w.start <= v.start
                       /\ {w \in V : \A x \in fits : w.start > x.start}
                            = {w \in V : w.start > v.start}
    BY <1>3, <1>6
  <2>4. base = GapEnd({w \in V : w.start > v.start}) - len
    BY <2>2, <2>3
  <2> QED
    BY <1>6, <2>3, <2>4 DEF base
<1>7. CASE len <= MMAP_CEILING - MMAP_FLOOR /\ fits = {}
  <2>1. ~(len > MMAP_CEILING - MMAP_FLOOR)
    BY <1>0, <1>7
  <2> QED
    BY <1>1, <1>4, <1>7, <2>1 DEF base
<1> QED
  BY <1>2, <1>5, <1>6, <1>7

(***************************************************************************)
(* A gap that find_gap_topdown finds lies in the mmap region.              *)
(***************************************************************************)
LEMMA GapInRegion ==
  ASSUME NEW V \in SUBSET Vmas, NEW len \in Nat, find_gap_topdown(V, len) # 0
  PROVE  /\ find_gap_topdown(V, len) \in Nat /\ MMAP_FLOOR <= find_gap_topdown(V, len)
         /\ find_gap_topdown(V, len) + len <= MMAP_CEILING
<1> DEFINE base == find_gap_topdown(V, len)
<1>0. MMAP_CEILING \in Nat /\ MMAP_FLOOR \in Nat
  BY MemoryAssumption
<1>1. \/ \E v \in V : /\ GapBelow(V, v, len)
                      /\ base = GapEnd({w \in V : w.start > v.start}) - len
      \/ GapEnd(V) >= MMAP_FLOOR + len /\ base = GapEnd(V) - len
  BY GapCases
<1> HIDE DEF base
<1>2. CASE \E v \in V : GapBelow(V, v, len) /\ base = GapEnd({w \in V : w.start > v.start}) - len
  <2>1. PICK v \in V : GapBelow(V, v, len) /\ base = GapEnd({w \in V : w.start > v.start}) - len
    BY <1>2
  <2> DEFINE g == GapEnd({w \in V : w.start > v.start})
  <2>2. g \in Nat /\ g <= MMAP_CEILING
    <3>1. {w \in V : w.start > v.start} \in SUBSET Vmas
      OBVIOUS
    <3> QED
      BY <3>1, GapEndFacts
  <2>3. g >= End(v) + len /\ End(v) >= MMAP_FLOOR
    BY <2>1 DEF GapBelow
  <2>4. End(v) \in Nat
    <3>1. v.start \in Nat /\ v.len \in Nat
      BY MemoryAssumption DEF Vmas, Pages, BrkBase
    <3> QED
      BY <3>1 DEF End
  <2>5. base = g - len
    BY <2>1
  <2> HIDE DEF g
  <2> QED
    BY <1>0, <2>2, <2>3, <2>4, <2>5 DEF base
<1>3. CASE GapEnd(V) >= MMAP_FLOOR + len /\ base = GapEnd(V) - len
  <2>1. GapEnd(V) \in Nat /\ GapEnd(V) <= MMAP_CEILING
    BY GapEndFacts
  <2> QED
    BY <1>0, <1>3, <2>1 DEF base
<1> QED
  BY <1>1, <1>2, <1>3

(***************************************************************************)
(* The gaps of the reference definition.                                   *)
(***************************************************************************)
Gaps(V, len) == {b \in MMAP_FLOOR .. MMAP_CEILING - len :
                   \A v \in V : PagesOf(v) \cap (b .. b + len - 1) = {}}

(***************************************************************************)
(* b is the base of a gap: every VMA ends below it or starts above it.     *)
(***************************************************************************)
LEMMA GapMeans ==
  ASSUME NEW V, GoodVmas(V), NEW len \in Nat, len >= 1, NEW b \in Nat
  PROVE  b \in Gaps(V, len) <=>
           /\ MMAP_FLOOR <= b /\ b + len <= MMAP_CEILING
           /\ \A v \in V : End(v) <= b \/ b + len <= v.start
<1>0. MMAP_CEILING \in Nat /\ MMAP_FLOOR \in Nat
  BY MemoryAssumption
<1>1. b \in MMAP_FLOOR .. MMAP_CEILING - len <=> MMAP_FLOOR <= b /\ b + len <= MMAP_CEILING
  BY <1>0
<1>2. ASSUME NEW v \in V
      PROVE  PagesOf(v) \cap (b .. b + len - 1) = {} <=> End(v) <= b \/ b + len <= v.start
  <2>1. v \in Vmas /\ End(v) <= MMAP_CEILING
    BY DEF GoodVmas
  <2>2. /\ v.start \in Nat /\ End(v) \in Nat /\ v.start < End(v)
        /\ \A i \in Nat : i \in PagesOf(v) <=> v.start <= i /\ i < End(v)
    BY <2>1, VmaFacts
  <2>3. \A i \in b .. b + len - 1 : i \in Nat /\ b <= i /\ i < b + len
    OBVIOUS
  <2>4. ASSUME End(v) <= b \/ b + len <= v.start PROVE PagesOf(v) \cap (b .. b + len - 1) = {}
    <3> SUFFICES ASSUME NEW i \in b .. b + len - 1, i \in PagesOf(v) PROVE FALSE
      OBVIOUS
    <3>1. i \in Nat /\ b <= i /\ i < b + len /\ v.start <= i /\ i < End(v)
      BY <2>2, <2>3
    <3> QED
      BY <2>2, <2>4, <3>1
  <2>5. ASSUME ~(End(v) <= b), ~(b + len <= v.start)
        PROVE  PagesOf(v) \cap (b .. b + len - 1) # {}
    <3>1. CASE b <= v.start
      <4>1. v.start \in PagesOf(v) /\ v.start \in b .. b + len - 1
        BY <2>2, <2>5, <3>1
      <4> QED
        BY <4>1
    <3>2. CASE v.start < b
      <4>1. b \in PagesOf(v) /\ b \in b .. b + len - 1
        BY <2>2, <2>5, <3>2
      <4> QED
        BY <4>1
    <3> QED
      BY <2>2, <3>1, <3>2
  <2> QED
    BY <2>4, <2>5
<1> QED
  BY <1>1, <1>2 DEF Gaps

(***************************************************************************)
(* Above a VMA that ends below a gap, some VMA has room above it.          *)
(***************************************************************************)
LEMMA RoomAbove ==
  ASSUME NEW V, GoodVmas(V), \A v \in V : End(v) >= MMAP_FLOOR, NEW len \in Nat, len >= 1,
         NEW b \in Nat, b \in Gaps(V, len), NEW v0 \in V, End(v0) <= b
  PROVE  \E v \in V : GapBelow(V, v, len) /\ v0.start <= v.start
<1> DEFINE A == {v \in V : End(v) <= b}
<1>0. \A v \in V : v \in Vmas /\ End(v) <= MMAP_CEILING /\ v.start \in Nat /\ End(v) \in Nat
  <2> TAKE v \in V
  <2>1. v \in Vmas /\ End(v) <= MMAP_CEILING
    BY DEF GoodVmas
  <2> QED
    BY <2>1, VmaFacts
<1>1. PICK v \in A : \A w \in A : w.start <= v.start
  <2>1. A \in SUBSET Vmas /\ A # {}
    BY <1>0
  <2> HIDE DEF A
  <2> QED
    BY <2>1, Highest
<1> DEFINE B == {w \in V : w.start > v.start}
           g == GapEnd(B)
<1>2. /\ MMAP_CEILING \in Nat /\ b + len <= MMAP_CEILING
      /\ \A w \in V : End(w) <= b \/ b + len <= w.start
  BY GapMeans, MemoryAssumption
<1>3. g \in Nat /\ (g = MMAP_CEILING \/ \E w \in B : g = w.start)
  <2>1. B \in SUBSET Vmas
    BY <1>0
  <2> HIDE DEF B
  <2> QED
    BY <2>1, GapEndFacts
<1>4. \A w \in B : b + len <= w.start
  <2> TAKE w \in B
  <2>1. w \notin A
    BY <1>0, <1>1
  <2> QED
    BY <1>2, <2>1
<1>5. b + len <= g
  BY <1>2, <1>3, <1>4
<1>6. v \in V /\ End(v) <= b /\ v0.start <= v.start /\ End(v) \in Nat
  BY <1>0, <1>1
<1>7. GapBelow(V, v, len)
  <2>1. g >= End(v) + len /\ End(v) <= g
    BY <1>3, <1>5, <1>6
  <2>2. End(v) >= MMAP_FLOOR
    BY <1>6
  <2> QED
    BY <2>1, <2>2 DEF GapBelow
<1> QED
  BY <1>6, <1>7

(***************************************************************************)
(* find_gap_topdown finds the highest gap when no VMA ends below the floor.*)
(***************************************************************************)
LEMMA FindsHighest ==
  ASSUME NEW V, GoodVmas(V), \A v \in V : End(v) >= MMAP_FLOOR, NEW len \in Nat, len >= 1
  PROVE  find_gap_topdown(V, len) = HighestGap(V, len)
<1> DEFINE base == find_gap_topdown(V, len)
           G == Gaps(V, len)
<1>0. MMAP_CEILING \in Nat /\ MMAP_FLOOR \in Nat
  BY MemoryAssumption
<1>1. V \in SUBSET Vmas
  BY DEF GoodVmas
<1>2. \A v \in V : v \in Vmas /\ v.start \in Nat /\ End(v) \in Nat /\ v.start < End(v)
                   /\ End(v) <= MMAP_CEILING
  <2> TAKE v \in V
  <2>1. v \in Vmas /\ End(v) <= MMAP_CEILING
    BY DEF GoodVmas
  <2> QED
    BY <2>1, VmaFacts
<1>3. HighestGap(V, len) =
        IF len > MMAP_CEILING - MMAP_FLOOR \/ G = {} THEN 0 ELSE Max(G)
  BY DEF HighestGap, Gaps
<1>4. G \subseteq Nat
  BY <1>0 DEF Gaps
<1>5. ASSUME NEW b \in G, \A c \in G : c <= b PROVE Max(G) = b
  <2>1. Max(G) \in G /\ \A y \in G : Max(G) >= y
    <3>1. b \in Nat
      BY <1>4
    <3> HIDE DEF G
    <3> QED
      BY <1>4, <1>5, <3>1, MaxInSet
  <2>2. Max(G) >= b /\ Max(G) <= b /\ Max(G) \in Nat /\ b \in Nat
    BY <1>4, <1>5, <2>1
  <2> QED
    BY <2>2
<1>6. CASE len > MMAP_CEILING - MMAP_FLOOR
  <2>1. ~(len <= MMAP_CEILING - MMAP_FLOOR)
    BY <1>0, <1>6
  <2>2. base = 0
    BY <1>1, <2>1, GapCases
  <2> QED
    BY <1>3, <1>6, <2>2
<1>7. ASSUME len <= MMAP_CEILING - MMAP_FLOOR, NEW v \in V, GapBelow(V, v, len),
             \A w \in V : GapBelow(V, w, len) => w.start <= v.start,
             base = GapEnd({w \in V : w.start > v.start}) - len
      PROVE  base = HighestGap(V, len)
  <2> DEFINE B == {w \in V : w.start > v.start}
             g == GapEnd(B)
  <2>1. /\ g \in Nat /\ g <= MMAP_CEILING /\ (\A w \in B : g <= w.start)
        /\ g = MMAP_CEILING \/ \E w \in B : g = w.start
    <3>1. B \in SUBSET Vmas
      BY <1>2
    <3> HIDE DEF B
    <3> QED
      BY <3>1, GapEndFacts
  <2>2. g >= End(v) + len /\ End(v) >= MMAP_FLOOR
    BY <1>7 DEF GapBelow
  <2>3. base = g - len
    BY <1>7
  <2> HIDE DEF g, base
  <2>4. base \in Nat /\ End(v) <= base /\ base + len = g /\ MMAP_FLOOR <= base
    BY <1>0, <1>2, <2>1, <2>2, <2>3
  <2>5. \A w \in V : End(w) <= base \/ base + len <= w.start
    <3> TAKE w \in V
    <3>1. CASE w.start > v.start
      BY <2>1, <2>4, <3>1
    <3>2. CASE w = v
      BY <2>4, <3>2
    <3>3. CASE w # v /\ ~(w.start > v.start)
      <4>1. End(v) <= w.start \/ End(w) <= v.start
        BY <3>3 DEF GoodVmas
      <4>2. End(w) <= End(v)
        BY <1>2, <3>3, <4>1
      <4> QED
        BY <1>2, <2>4, <4>2
    <3> QED
      BY <3>1, <3>2, <3>3
  <2>6. base \in G
    BY <2>1, <2>4, <2>5, GapMeans
  <2>7. ASSUME NEW c \in G PROVE c <= base
    <3> SUFFICES ASSUME c > base PROVE FALSE
      BY <1>4, <2>4
    <3>1. c \in Nat
      BY <1>4
    <3>2. c + len <= MMAP_CEILING /\ \A w \in V : End(w) <= c \/ c + len <= w.start
      BY <3>1, GapMeans
    <3>3. c + len > g
      BY <2>4, <3>1
    <3>4. PICK w \in B : g = w.start
      BY <1>0, <2>1, <3>1, <3>2, <3>3
    <3>5. End(w) <= c
      BY <1>2, <3>1, <3>2, <3>3, <3>4
    <3>6. PICK x \in V : GapBelow(V, x, len) /\ w.start <= x.start
      BY <3>1, <3>4, <3>5, RoomAbove
    <3>7. x.start <= v.start
      BY <1>7, <3>6
    <3> QED
      BY <1>2, <3>4, <3>6, <3>7
  <2>8. Max(G) = base
    BY <1>5, <2>6, <2>7
  <2>9. ~(len > MMAP_CEILING - MMAP_FLOOR)
    BY <1>0, <1>7
  <2> QED
    BY <1>3, <2>6, <2>8, <2>9
<1>8. ASSUME len <= MMAP_CEILING - MMAP_FLOOR, \A v \in V : ~GapBelow(V, v, len),
             base = IF GapEnd(V) >= MMAP_FLOOR + len THEN GapEnd(V) - len ELSE 0
      PROVE  base = HighestGap(V, len)
  <2> DEFINE g == GapEnd(V)
  <2>1. /\ g \in Nat /\ g <= MMAP_CEILING /\ (\A w \in V : g <= w.start)
        /\ g = MMAP_CEILING \/ \E w \in V : g = w.start
    BY <1>1, GapEndFacts
  <2>2. ASSUME NEW c \in G PROVE c + len <= g
    <3>1. c \in Nat
      BY <1>4
    <3>2. c + len <= MMAP_CEILING /\ \A w \in V : End(w) <= c \/ c + len <= w.start
      BY <3>1, GapMeans
    <3>3. \A w \in V : ~(End(w) <= c)
      BY <1>8, <3>1, RoomAbove
    <3> HIDE DEF g
    <3> QED
      BY <2>1, <3>2, <3>3
  <2>3. ~(len > MMAP_CEILING - MMAP_FLOOR)
    BY <1>0, <1>8
  <2>4. CASE g >= MMAP_FLOOR + len
    <3>1. base = g - len
      BY <1>8, <2>4
    <3> HIDE DEF g, base
    <3>2. base \in Nat /\ MMAP_FLOOR <= base /\ base + len = g
      BY <1>0, <2>1, <2>4, <3>1
    <3>3. base \in G
      BY <2>1, <3>2, GapMeans
    <3>4. \A c \in G : c <= base
      <4> TAKE c \in G
      <4>1. c \in Nat /\ c + len <= g
        BY <1>4, <2>2
      <4> QED
        BY <3>2, <4>1
    <3>5. Max(G) = base
      BY <1>5, <3>3, <3>4
    <3> QED
      BY <1>3, <2>3, <3>3, <3>5
  <2>5. CASE ~(g >= MMAP_FLOOR + len)
    <3>1. base = 0
      BY <1>8, <2>5
    <3>2. G = {}
      <4> SUFFICES ASSUME NEW c \in G PROVE FALSE
        OBVIOUS
      <4>1. c \in Nat /\ c + len <= g /\ MMAP_FLOOR <= c
        BY <1>4, <2>2, GapMeans
      <4> HIDE DEF g
      <4> QED
        BY <1>0, <2>1, <2>5, <4>1
    <3> QED
      BY <1>3, <3>1, <3>2
  <2> QED
    BY <2>4, <2>5
<1> QED
  <2>1. \/ len > MMAP_CEILING - MMAP_FLOOR /\ base = 0
        \/ /\ len <= MMAP_CEILING - MMAP_FLOOR
           /\ \E v \in V :
                /\ GapBelow(V, v, len) /\ \A w \in V : GapBelow(V, w, len) => w.start <= v.start
                /\ base = GapEnd({w \in V : w.start > v.start}) - len
        \/ /\ len <= MMAP_CEILING - MMAP_FLOOR /\ \A v \in V : ~GapBelow(V, v, len)
           /\ base = IF GapEnd(V) >= MMAP_FLOOR + len THEN GapEnd(V) - len ELSE 0
    BY <1>1, GapCases
  <2> HIDE DEF base
  <2> QED
    BY <1>6, <1>7, <1>8, <2>1 DEF base

-----------------------------------------------------------------------------
(***************************************************************************)
(* No other process has the address space of p.                            *)
(***************************************************************************)
Exclusive(pr, p) ==
  /\ pr[p].state = "live"
  /\ \A q \in Procs \ {p} : pr[q].state = "live" => pr[q].root # pr[p].root

(***************************************************************************)
(* A process that has its address space to itself changes it.              *)
(***************************************************************************)
LEMMA OwnSpaceChanges ==
  ASSUME NEW m, NEW pr, NEW ob, Good(m, pr, ob), NEW p \in Procs, Exclusive(pr, p),
         NEW m2 \in MemTypes, NEW new \in ProcTypes,
         new.root = pr[p].root, new.state = "live", new.fds = pr[p].fds,
         m2.roots = m.roots, \A r \in Frames \ {pr[p].root} : m2.pt[r] = m.pt[r],
         Counted(m2, Refs(m2, ob)), Calm(m, ob, m2, ob), HasSpace(m2, new, ob)
  PROVE  Good(m2, [pr EXCEPT ![p] = new], ob)
<1> DEFINE pr2 == [pr EXCEPT ![p] = new]
<1>0. m \in MemTypes /\ pr \in [Procs -> ProcTypes] /\ ob \in [Objects -> ObjTypes]
  BY DEF Good
<1>1. pr2 \in [Procs -> ProcTypes] /\ pr2[p] = new /\ \A q \in Procs \ {p} : pr2[q] = pr[q]
  BY <1>0
<1> HIDE DEF pr2
<1>2. ASSUME NEW q \in Procs \ {p} PROVE HasSpace(m2, pr[q], ob)
  <2>1. HasSpace(m, pr[q], ob)
    BY DEF Good
  <2>2. CASE pr[q].state = "live"
    <3>1. pr[q].root \in m.roots /\ pr[q].root # pr[p].root /\ pr[q].root \in Frames
      BY <1>0, <2>1, <2>2 DEF HasSpace, Exclusive, MemTypes
    <3>2. FramesKept(ob, ob)
      BY DEF FramesKept
    <3> QED
      BY <1>0, <2>1, <2>2, <3>1, <3>2, OthersKeep
  <2>3. CASE pr[q].state # "live"
    BY <2>1, <2>3 DEF HasSpace
  <2> QED
    BY <2>2, <2>3
<1>3. \A q \in Procs : HasSpace(m2, pr2[q], ob)
  BY <1>1, <1>2
<1>4. \A q \in Procs : \A o \in pr2[q].fds : ob[o].alive
  BY <1>1 DEF Good
<1> QED
  BY <1>0, <1>1, <1>3, <1>4 DEF Good, pr2

(***************************************************************************)
(* What is known of the address space of a process.                        *)
(***************************************************************************)
LEMMA OwnSpace ==
  ASSUME NEW m, NEW pr, NEW ob, Good(m, pr, ob), NEW p \in Procs, pr[p].state = "live"
  PROVE  LET r == pr[p].root
         IN  /\ m \in MemTypes /\ ob \in [Objects -> ObjTypes] /\ pr[p] \in ProcTypes
             /\ r \in m.roots /\ r \in Frames /\ m.pt[r] \in [Pages -> Entries]
             /\ Counted(m, Refs(m, ob)) /\ HasSpace(m, pr[p], ob)
             /\ SpaceOk(m.pt[r], pr[p], ob) /\ GoodVmas(pr[p].vmas)
             /\ Alone(m.pt[r], pr[p], m, ob)
<1>1. /\ m \in MemTypes /\ ob \in [Objects -> ObjTypes] /\ pr[p] \in ProcTypes
      /\ Counted(m, Refs(m, ob)) /\ HasSpace(m, pr[p], ob)
  BY DEF Good
<1>2. /\ pr[p].root \in m.roots /\ SpaceOk(m.pt[pr[p].root], pr[p], ob)
      /\ Alone(m.pt[pr[p].root], pr[p], m, ob)
  BY <1>1 DEF HasSpace
<1>3. pr[p].root \in Frames /\ m.pt[pr[p].root] \in [Pages -> Entries]
  BY <1>1, <1>2 DEF MemTypes
<1>4. GoodVmas(pr[p].vmas)
  BY <1>2 DEF SpaceOk
<1> QED
  BY <1>1, <1>2, <1>3, <1>4

(***************************************************************************)
(* munmap: the VMAs are cut and their pages unmapped.                      *)
(***************************************************************************)
LEMMA MunmapStep ==
  ASSUME NEW m, NEW pr, NEW ob, Good(m, pr, ob), NEW p \in Procs, Exclusive(pr, p),
         NEW start \in Nat, NEW len \in Nat, len >= 1
  PROVE  Good(Unmapped(m, pr[p].root, Covered(pr[p].vmas, start, len)),
              [pr EXCEPT ![p].vmas = munmap_vmas(pr[p].vmas, start, len)], ob)
<1> DEFINE P == pr[p]
           r == P.root
           V == P.vmas
           range == Covered(V, start, len)
           W == munmap_vmas(V, start, len)
           u == Unmapped(m, r, range)
           new == [P EXCEPT !.vmas = W]
<1>0. /\ m \in MemTypes /\ ob \in [Objects -> ObjTypes] /\ P \in ProcTypes /\ P.state = "live"
      /\ r \in m.roots /\ r \in Frames /\ m.pt[r] \in [Pages -> Entries]
      /\ Counted(m, Refs(m, ob)) /\ HasSpace(m, P, ob) /\ SpaceOk(m.pt[r], P, ob) /\ GoodVmas(V)
  BY OwnSpace DEF Exclusive
<1>1. GoodVmas(W) /\ \A v \in W : PieceOf(v, V) /\ Away(v, start, start + len)
  BY <1>0, MunmapFacts
<1>2. /\ range \subseteq Pages \ {TopPage} /\ range \in SUBSET Pages
      /\ \A i \in range : start <= i /\ i < start + len /\ \E v \in V : i \in PagesOf(v)
  BY <1>0, CoveredFacts
<1> HIDE DEF range, W
<1>3. /\ u \in MemTypes /\ u.roots = m.roots /\ (\A x \in Frames \ {r} : u.pt[x] = m.pt[x])
      /\ \A v \in Pages : u.pt[r][v] =
           IF v \in range /\ Present(m.pt[r][v]) THEN NoPage ELSE m.pt[r][v]
      /\ Counted(u, Refs(u, ob)) /\ (\A f \in Frames : Refs(u, ob)[f] <= Refs(m, ob)[f])
      /\ \A f \in m.stale : f \in u.stale \/ Refs(u, ob)[f] = 0
  BY <1>0, <1>2, UnmappedFacts
<1> HIDE DEF u
<1>4. Calm(m, ob, u, ob)
  BY <1>3 DEF Calm
<1>5. /\ new \in ProcTypes /\ new.root = P.root /\ new.state = "live" /\ new.fds = P.fds
      /\ new.vmas = W /\ new.brk = P.brk
  <2>1. W \subseteq Vmas
    BY <1>1 DEF GoodVmas
  <2> HIDE DEF P
  <2> QED
    BY <1>0, <2>1 DEF ProcTypes
<1>6. \A i \in Pages : Promised(new, i) => u.pt[r][i] = m.pt[r][i]
  <2> SUFFICES ASSUME NEW i \in Pages, Promised(new, i) PROVE i \notin range
    BY <1>3
  <2>1. CASE i = TopPage
    BY <1>2, <2>1
  <2>2. CASE i \in Heap(new)
    <3>1. i \in Heap(P)
      BY <1>5, <2>2 DEF Heap
    <3>2. \A v \in V : i \notin PagesOf(v)
      BY <1>0, <3>1 DEF SpaceOk
    <3> QED
      BY <1>2, <3>2
  <2>3. CASE \E v \in W : i \in PagesOf(v)
    <3>1. PICK v \in W : i \in PagesOf(v)
      BY <2>3
    <3>2. v \in Vmas /\ End(v) <= MMAP_CEILING /\ Away(v, start, start + len)
      BY <1>1 DEF GoodVmas
    <3>3. i \in Nat
      BY MemoryAssumption DEF Pages, BrkBase
    <3>4. v.start \in Nat /\ End(v) \in Nat /\ v.start <= i /\ i < End(v)
      BY <3>1, <3>2, <3>3, VmaFacts
    <3>5. ~(start <= i /\ i < start + len)
      BY <3>2, <3>3, <3>4 DEF Away
    <3> QED
      BY <1>2, <3>5
  <2> QED
    BY <1>5, <2>1, <2>2, <2>3 DEF Promised
<1> HIDE DEF new
<1>7. u.pt[r] \in [Pages -> Entries]
  BY <1>0, <1>3 DEF MemTypes
<1>8. /\ SpaceOk(u.pt[r], new, ob)
      /\ \A i \in Pages : Private(new, i) => Private(P, i) /\ u.pt[r][i] = m.pt[r][i]
  <2>1. P.brk \in Nat
    BY <1>0, MemoryAssumption DEF ProcTypes, BrkBase
  <2>2. /\ GoodVmas(new.vmas) /\ new.brk <= P.brk
        /\ \A v \in new.vmas : PieceOf(v, P.vmas)
    BY <1>1, <1>5, <2>1
  <2> HIDE DEF P, r
  <2> QED
    BY <1>0, <1>5, <1>6, <1>7, <2>2, SpaceCut
<1>9. HasSpace(u, new, ob)
  <2>1. \A i \in Pages : Private(new, i) =>
          \/ Private(P, i) /\ u.pt[P.root][i].frame = m.pt[P.root][i].frame
          \/ Sole(u, ob, u.pt[P.root][i].frame)
    BY <1>8
  <2> HIDE DEF P
  <2> QED
    BY <1>0, <1>3, <1>4, <1>5, <1>8, <2>1, SpaceBecomes
<1>10. Good(u, [pr EXCEPT ![p] = new], ob)
  BY <1>3, <1>4, <1>5, <1>9, OwnSpaceChanges
<1> QED
  BY <1>10 DEF u, new, range, W

(***************************************************************************)
(* One address space gains pages: entries in use stay, and so do the other *)
(* address spaces and the books.                                           *)
(***************************************************************************)
Gains(m, m2, r, ob) ==
  /\ m2 \in MemTypes /\ m2.roots = m.roots /\ Counted(m2, Refs(m2, ob))
  /\ \A x \in Frames \ {r} : m2.pt[x] = m.pt[x]
  /\ \A v \in Pages : m.pt[r][v] # NoPage => m2.pt[r][v] = m.pt[r][v]
  /\ Calm(m, ob, m2, ob)

(***************************************************************************)
(* A page that the heap, the stack or a VMA promises is mapped.            *)
(***************************************************************************)
LEMMA PromisedUsed ==
  ASSUME NEW table, NEW pr, NEW ob, SpaceOk(table, pr, ob), NEW i, Promised(pr, i)
  PROVE  table[i] # NoPage
BY DEF SpaceOk, Promised, Backed

(***************************************************************************)
(* Pages are mapped and the caller fails: its VMA map, which promises      *)
(* nothing of them, is still right.                                        *)
(***************************************************************************)
LEMMA GainsNothing ==
  ASSUME NEW m, NEW pr, NEW ob, Good(m, pr, ob), NEW p \in Procs, Exclusive(pr, p),
         NEW m2, Gains(m, m2, pr[p].root, ob)
  PROVE  Good(m2, pr, ob)
<1> DEFINE P == pr[p]
           r == P.root
<1>0. /\ m \in MemTypes /\ ob \in [Objects -> ObjTypes] /\ P \in ProcTypes /\ P.state = "live"
      /\ r \in m.roots /\ r \in Frames /\ m.pt[r] \in [Pages -> Entries]
      /\ HasSpace(m, P, ob) /\ SpaceOk(m.pt[r], P, ob) /\ GoodVmas(P.vmas)
  BY OwnSpace DEF Exclusive
<1>1. /\ m2 \in MemTypes /\ m2.roots = m.roots /\ Counted(m2, Refs(m2, ob))
      /\ \A x \in Frames \ {r} : m2.pt[x] = m.pt[x]
      /\ \A v \in Pages : m.pt[r][v] # NoPage => m2.pt[r][v] = m.pt[r][v]
      /\ Calm(m, ob, m2, ob)
  BY DEF Gains
<1>2. m2.pt[r] \in [Pages -> Entries]
  BY <1>0, <1>1 DEF MemTypes
<1>3. [pr EXCEPT ![p] = P] = pr
  <2>1. pr \in [Procs -> ProcTypes]
    BY DEF Good
  <2> QED
    BY <2>1
<1> HIDE DEF P, r
<1>4. /\ P.brk <= P.brk /\ \A v \in P.vmas : PieceOf(v, P.vmas)
      /\ \A i \in Pages : Promised(P, i) => m2.pt[r][i] = m.pt[r][i]
  <2>1. P.brk \in Nat
    BY <1>0, MemoryAssumption DEF ProcTypes, BrkBase
  <2>2. \A v \in P.vmas : PieceOf(v, P.vmas)
    BY DEF PieceOf
  <2>3. \A i \in Pages : Promised(P, i) => m.pt[r][i] # NoPage
    BY <1>0, PromisedUsed
  <2> QED
    BY <1>1, <2>1, <2>2, <2>3
<1>5. /\ SpaceOk(m2.pt[r], P, ob)
      /\ \A i \in Pages : Private(P, i) => Private(P, i) /\ m2.pt[r][i] = m.pt[r][i]
  BY <1>0, <1>2, <1>4, SpaceCut
<1>6. HasSpace(m2, P, ob)
  <2>1. SpaceOk(m2.pt[P.root], P, ob)
    BY <1>5 DEF r
  <2>2. \A i \in Pages : Private(P, i) =>
          \/ Private(P, i) /\ m2.pt[P.root][i].frame = m.pt[P.root][i].frame
          \/ Sole(m2, ob, m2.pt[P.root][i].frame)
    BY <1>5 DEF r
  <2> QED
    BY <1>0, <1>1, <2>1, <2>2, SpaceBecomes
<1>7. Good(m2, [pr EXCEPT ![p] = P], ob)
  <2>1. /\ P.root = pr[p].root /\ P.fds = pr[p].fds
        /\ \A x \in Frames \ {pr[p].root} : m2.pt[x] = m.pt[x]
    BY <1>1 DEF P, r
  <2> QED
    BY <1>0, <1>1, <1>6, <2>1, OwnSpaceChanges
<1> QED
  BY <1>3, <1>7

(***************************************************************************)
(* Pages are mapped where none was, and a VMA is entered for them.         *)
(***************************************************************************)
LEMMA GainsVma ==
  ASSUME NEW m, NEW pr, NEW ob, Good(m, pr, ob), NEW p \in Procs, Exclusive(pr, p),
         NEW m2, Gains(m, m2, pr[p].root, ob), NEW new \in Vmas, End(new) <= MMAP_CEILING,
         Unused(m.pt[pr[p].root], new.start, new.len), Backed(m2.pt[pr[p].root], new, ob),
         new.kind = "private" =>
           \A i \in PagesOf(new) : Refs(m2, ob)[m2.pt[pr[p].root][i].frame] = 1
  PROVE  Good(m2, [pr EXCEPT ![p].vmas = pr[p].vmas \cup {new}], ob)
<1> DEFINE P == pr[p]
           r == P.root
           Q == [P EXCEPT !.vmas = P.vmas \cup {new}]
<1>0. /\ m \in MemTypes /\ ob \in [Objects -> ObjTypes] /\ P \in ProcTypes /\ P.state = "live"
      /\ r \in m.roots /\ r \in Frames /\ m.pt[r] \in [Pages -> Entries]
      /\ HasSpace(m, P, ob) /\ SpaceOk(m.pt[r], P, ob) /\ GoodVmas(P.vmas)
  BY OwnSpace DEF Exclusive
<1>1. /\ m2 \in MemTypes /\ m2.roots = m.roots /\ Counted(m2, Refs(m2, ob))
      /\ \A x \in Frames \ {r} : m2.pt[x] = m.pt[x]
      /\ \A v \in Pages : m.pt[r][v] # NoPage => m2.pt[r][v] = m.pt[r][v]
      /\ Calm(m, ob, m2, ob)
  BY DEF Gains
<1>2. m2.pt[r] \in [Pages -> Entries]
  BY <1>0, <1>1 DEF MemTypes
<1>3. /\ Unused(m.pt[r], new.start, new.len) /\ Backed(m2.pt[r], new, ob)
      /\ new.kind = "private" => \A i \in PagesOf(new) : Refs(m2, ob)[m2.pt[r][i].frame] = 1
  OBVIOUS
<1>4. /\ Q \in ProcTypes /\ Q.root = P.root /\ Q.state = "live" /\ Q.fds = P.fds
      /\ Q.vmas = P.vmas \cup {new} /\ Q.brk = P.brk
  <2>1. P.vmas \cup {new} \subseteq Vmas
    BY <1>0 DEF GoodVmas
  <2> HIDE DEF P
  <2> QED
    BY <1>0, <2>1 DEF ProcTypes
<1>5. [pr EXCEPT ![p] = Q] = [pr EXCEPT ![p].vmas = pr[p].vmas \cup {new}]
  OBVIOUS
<1>6. P.root = r /\ P = pr[p]
  OBVIOUS
<1> HIDE DEF P, r, Q
<1>7. /\ SpaceOk(m2.pt[r], Q, ob)
      /\ \A i \in Pages : Private(Q, i) =>
           \/ Private(P, i) /\ m2.pt[r][i] = m.pt[r][i]
           \/ new.kind = "private" /\ i \in PagesOf(new)
  BY <1>0, <1>1, <1>2, <1>3, <1>4, SpaceGrows
<1>8. HasSpace(m2, Q, ob)
  <2>1. SpaceOk(m2.pt[P.root], Q, ob)
    BY <1>6, <1>7
  <2>2. \A i \in Pages : Private(Q, i) =>
          \/ Private(P, i) /\ m2.pt[P.root][i].frame = m.pt[P.root][i].frame
          \/ Sole(m2, ob, m2.pt[P.root][i].frame)
    BY <1>3, <1>6, <1>7 DEF Sole
  <2> QED
    BY <1>0, <1>1, <1>4, <2>1, <2>2, SpaceBecomes
<1>9. Good(m2, [pr EXCEPT ![p] = Q], ob)
  <2>1. /\ Q.root = pr[p].root /\ Q.fds = pr[p].fds
        /\ \A x \in Frames \ {pr[p].root} : m2.pt[x] = m.pt[x]
    BY <1>1, <1>4, <1>6
  <2> QED
    BY <1>1, <1>4, <1>8, <2>1, OwnSpaceChanges
<1> QED
  BY <1>5, <1>9

(***************************************************************************)
(* New pages for a process: whether or not all of them could be mapped,    *)
(* and with the VMA that mmap enters for them.                             *)
(***************************************************************************)
LEMMA MapsNew ==
  ASSUME NEW m, NEW pr, NEW ob, Good(m, pr, ob), NEW p \in Procs, Exclusive(pr, p),
         NEW start \in Pages, NEW n \in Nat, n >= 1, start + n <= MMAP_CEILING
  PROVE  LET r == pr[p].root
             m2 == NewPages(m, r, start, n, "rw")
         IN  /\ Good(m2, pr, ob)
             /\ NewPagesOk(m, r, start, n) =>
                  Good(m2, [pr EXCEPT ![p].vmas = pr[p].vmas \cup
                                                    {Vma(start, n, "rw", "private")}], ob)
<1> DEFINE r == pr[p].root
           m2 == NewPages(m, r, start, n, "rw")
           new == Vma(start, n, "rw", "private")
<1>0. /\ m \in MemTypes /\ ob \in [Objects -> ObjTypes]
      /\ r \in m.roots /\ r \in Frames /\ Counted(m, Refs(m, ob))
  BY OwnSpace DEF Exclusive
<1>1. start \in Nat /\ start >= 1 /\ start + n <= TopPage /\ n \in 1 .. TopPage /\ "rw" \in Prots
  BY MemoryAssumption DEF Pages, BrkBase, Prots
<1>2. /\ m2 \in MemTypes /\ m2.roots = m.roots /\ Counted(m2, Refs(m2, ob))
      /\ \A x \in Frames \ {r} : m2.pt[x] = m.pt[x]
      /\ \A v \in Pages : m.pt[r][v] # NoPage => m2.pt[r][v] = m.pt[r][v]
      /\ Calm(m, ob, m2, ob)
      /\ NewPagesOk(m, r, start, n) =>
           \A v \in start .. start + n - 1 :
             /\ m.pt[r][v] = NoPage /\ m2.pt[r][v] # NoPage
             /\ m2.pt[r][v].prot = "rw" /\ Refs(m2, ob)[m2.pt[r][v].frame] = 1
  <2> HIDE DEF r
  <2> QED
    BY <1>0, <1>1, NewPagesFacts
<1> HIDE DEF m2
<1>3. Gains(m, m2, pr[p].root, ob)
  BY <1>2 DEF Gains
<1>4. Good(m2, pr, ob)
  BY <1>3, GainsNothing
<1>5. ASSUME NewPagesOk(m, r, start, n)
      PROVE  Good(m2, [pr EXCEPT ![p].vmas = pr[p].vmas \cup {new}], ob)
  <2>1. /\ new \in Vmas /\ new.start = start /\ new.len = n /\ new.prot = "rw"
        /\ new.kind = "private" /\ End(new) = start + n /\ PagesOf(new) = start .. start + n - 1
    BY <1>1 DEF Vma, Vmas, End, PagesOf, Prots
  <2> HIDE DEF new
  <2>2. Unused(m.pt[pr[p].root], new.start, new.len)
    BY <1>2, <1>5, <2>1 DEF Unused
  <2>3. Backed(m2.pt[pr[p].root], new, ob)
    BY <1>2, <1>5, <2>1 DEF Backed
  <2>4. \A i \in PagesOf(new) : Refs(m2, ob)[m2.pt[pr[p].root][i].frame] = 1
    BY <1>2, <1>5, <2>1
  <2>5. End(new) <= MMAP_CEILING
    BY <2>1
  <2> HIDE DEF r
  <2> QED
    BY <1>3, <2>1, <2>2, <2>3, <2>4, <2>5, GainsVma
<1> QED
  BY <1>4, <1>5 DEF m2

(***************************************************************************)
(* brk grows the heap.                                                     *)
(***************************************************************************)
LEMMA BrkGrows ==
  ASSUME NEW m, NEW pr, NEW ob, Good(m, pr, ob), NEW p \in Procs, Exclusive(pr, p),
         NEW brk \in BrkBase .. MMAP_FLOOR, brk > pr[p].brk
  PROVE  LET r == pr[p].root
             old == pr[p].brk
             m2 == NewPages(m, r, old, brk - old, "rw")
         IN  /\ Good(m2, pr, ob)
             /\ NewPagesOk(m, r, old, brk - old) => Good(m2, [pr EXCEPT ![p].brk = brk], ob)
<1> DEFINE P == pr[p]
           r == P.root
           old == P.brk
           n == brk - old
           m2 == NewPages(m, r, old, n, "rw")
           Q == [P EXCEPT !.brk = brk]
<1>0. /\ m \in MemTypes /\ ob \in [Objects -> ObjTypes] /\ P \in ProcTypes /\ P.state = "live"
      /\ r \in m.roots /\ r \in Frames /\ m.pt[r] \in [Pages -> Entries]
      /\ Counted(m, Refs(m, ob)) /\ HasSpace(m, P, ob) /\ SpaceOk(m.pt[r], P, ob)
  BY OwnSpace DEF Exclusive
<1>1. /\ old \in Pages /\ old \in Nat /\ brk \in Nat /\ n \in Nat /\ n >= 1 /\ old + n <= TopPage
      /\ "rw" \in Prots /\ old + n - 1 = brk - 1
  <2>1. old \in 1 .. MMAP_FLOOR /\ brk \in 1 .. MMAP_FLOOR /\ brk > old
    <3> HIDE DEF P
    <3>1. P.brk \in 1 .. MMAP_FLOOR
      BY <1>0 DEF ProcTypes, BrkBase
    <3> QED
      BY <3>1 DEF BrkBase, P
  <2>2. MMAP_FLOOR \in Nat /\ TopPage \in Nat /\ MMAP_FLOOR <= TopPage
    BY MemoryAssumption
  <2> HIDE DEF old
  <2> QED
    BY <2>1, <2>2 DEF Pages, BrkBase, Prots
<1>2. /\ m2 \in MemTypes /\ m2.roots = m.roots /\ Counted(m2, Refs(m2, ob))
      /\ \A x \in Frames \ {r} : m2.pt[x] = m.pt[x]
      /\ \A v \in Pages : m.pt[r][v] # NoPage => m2.pt[r][v] = m.pt[r][v]
      /\ Calm(m, ob, m2, ob)
      /\ NewPagesOk(m, r, old, n) =>
           \A v \in old .. old + n - 1 :
             /\ m.pt[r][v] = NoPage /\ m2.pt[r][v] # NoPage
             /\ m2.pt[r][v].prot = "rw" /\ Refs(m2, ob)[m2.pt[r][v].frame] = 1
  <2> HIDE DEF r, n, old
  <2> QED
    BY <1>0, <1>1, NewPagesFacts
<1> HIDE DEF m2, n
<1>3. Gains(m, m2, pr[p].root, ob)
  BY <1>2 DEF Gains
<1>4. Good(m2, pr, ob)
  BY <1>3, GainsNothing
<1>5. ASSUME NewPagesOk(m, r, old, n) PROVE Good(m2, [pr EXCEPT ![p].brk = brk], ob)
  <2>1. /\ Q \in ProcTypes /\ Q.root = P.root /\ Q.state = "live" /\ Q.fds = P.fds
        /\ Q.vmas = P.vmas /\ Q.brk = brk /\ P.brk < Q.brk
    <3>1. P.brk < brk
      BY <1>1
    <3> HIDE DEF P
    <3> QED
      BY <1>0, <3>1 DEF ProcTypes
  <2>2. [pr EXCEPT ![p] = Q] = [pr EXCEPT ![p].brk = brk]
    OBVIOUS
  <2>3. m2.pt[r] \in [Pages -> Entries]
    BY <1>0, <1>2 DEF MemTypes
  <2>4. P = pr[p] /\ P.root = r /\ P.brk = old
    OBVIOUS
  <2> HIDE DEF P, r, old, Q
  <2>5. \A i \in P.brk .. Q.brk - 1 :
          /\ m.pt[r][i] = NoPage /\ m2.pt[r][i] # NoPage /\ m2.pt[r][i].prot = "rw"
          /\ Refs(m2, ob)[m2.pt[r][i].frame] = 1
    BY <1>1, <1>2, <1>5, <2>1, <2>4
  <2>6. /\ SpaceOk(m2.pt[r], Q, ob)
        /\ \A i \in Pages : Private(Q, i) =>
             \/ Private(P, i) /\ m2.pt[r][i] = m.pt[r][i]
             \/ i \in P.brk .. Q.brk - 1
    BY <1>0, <1>2, <2>1, <2>3, <2>5, HeapGrows
  <2>7. HasSpace(m2, Q, ob)
    <3>1. SpaceOk(m2.pt[P.root], Q, ob)
      BY <2>4, <2>6
    <3>2. \A i \in Pages : Private(Q, i) =>
            \/ Private(P, i) /\ m2.pt[P.root][i].frame = m.pt[P.root][i].frame
            \/ Sole(m2, ob, m2.pt[P.root][i].frame)
      BY <2>4, <2>5, <2>6 DEF Sole
    <3> QED
      BY <1>0, <1>2, <2>1, <3>1, <3>2, SpaceBecomes
  <2>8. /\ Q.root = pr[p].root /\ Q.fds = pr[p].fds
        /\ \A x \in Frames \ {pr[p].root} : m2.pt[x] = m.pt[x]
    BY <1>2, <2>1, <2>4
  <2>9. Good(m2, [pr EXCEPT ![p] = Q], ob)
    BY <1>2, <2>1, <2>7, <2>8, OwnSpaceChanges
  <2> QED
    BY <2>2, <2>9
<1> QED
  BY <1>4, <1>5 DEF m2, n

(***************************************************************************)
(* brk shrinks the heap: its frames have no other reference, so that       *)
(* freeing them outright is right.                                         *)
(***************************************************************************)
LEMMA BrkShrinks ==
  ASSUME NEW m, NEW pr, NEW ob, Good(m, pr, ob), NEW p \in Procs, Exclusive(pr, p),
         NEW brk \in BrkBase .. MMAP_FLOOR, brk < pr[p].brk,
         Clear(Freed(m, pr[p].root, brk .. pr[p].brk - 1))
  PROVE  Good(Freed(m, pr[p].root, brk .. pr[p].brk - 1), [pr EXCEPT ![p].brk = brk], ob)
<1> DEFINE P == pr[p]
           r == P.root
           range == brk .. P.brk - 1
           u == Unmapped(m, r, range)
           Q == [P EXCEPT !.brk = brk]
<1>0. /\ m \in MemTypes /\ ob \in [Objects -> ObjTypes] /\ P \in ProcTypes /\ P.state = "live"
      /\ r \in m.roots /\ r \in Frames /\ m.pt[r] \in [Pages -> Entries]
      /\ Counted(m, Refs(m, ob)) /\ HasSpace(m, P, ob) /\ SpaceOk(m.pt[r], P, ob)
      /\ GoodVmas(P.vmas) /\ Alone(m.pt[r], P, m, ob)
  BY OwnSpace DEF Exclusive
<1>1. /\ P.brk \in Nat /\ brk \in Nat /\ brk < P.brk /\ 1 <= brk
      /\ P.brk <= MMAP_FLOOR /\ MMAP_FLOOR < TopPage /\ TopPage \in Nat /\ MMAP_FLOOR \in Nat
  <2> HIDE DEF P
  <2>1. P.brk \in 1 .. MMAP_FLOOR
    BY <1>0 DEF ProcTypes, BrkBase
  <2> QED
    BY <2>1, MemoryAssumption DEF BrkBase, P
<1>2. [pr EXCEPT ![p] = Q] = [pr EXCEPT ![p].brk = brk]
  OBVIOUS
<1>3. /\ Q \in ProcTypes /\ Q.root = P.root /\ Q.state = "live" /\ Q.fds = P.fds
      /\ Q.vmas = P.vmas /\ Q.brk = brk
  <2> HIDE DEF P
  <2> QED
    BY <1>0 DEF ProcTypes
<1>4. P = pr[p] /\ P.root = r /\ Freed(m, pr[p].root, brk .. pr[p].brk - 1) = Freed(m, r, range)
  OBVIOUS
<1> HIDE DEF P, Q, r
<1>5. /\ range \in SUBSET Pages /\ TopPage \notin range
      /\ \A v \in range : v \in Heap(P) /\ v \notin Heap(Q)
  BY <1>1, <1>3 DEF Pages, BrkBase, Heap
<1>6. \A v \in range : /\ Present(m.pt[r][v]) /\ m.pt[r][v].frame \notin m.stale
                       /\ Refs(m, ob)[m.pt[r][v].frame] = 1
  <2>1. \A v \in range : Present(m.pt[r][v])
    BY <1>0, <1>5 DEF SpaceOk, Present
  <2>2. \A v \in range : Private(P, v) /\ v \in Pages
    BY <1>5 DEF Private
  <2>3. Clear(Freed(m, r, range))
    BY <1>4
  <2> HIDE DEF range
  <2>4. ASSUME NEW v \in range PROVE m.pt[r][v].frame \notin m.stale
    <3> DEFINE hit == {w \in range : Present(m.pt[r][w])}
               T2 == [w \in Pages |-> IF w \in hit THEN NoPage ELSE m.pt[r][w]]
               shown == {m.pt[r][w].frame : w \in hit}
               fr == Freed(m, r, range)
    <3>1. fr = [m EXCEPT !.pt[r] = T2, !.free = m.free \cup shown]
      BY DEF Freed
    <3>2. m.pt[r][v].frame \in shown
      BY <2>1
    <3> HIDE DEF T2, shown, fr
    <3>3. fr.stale = m.stale /\ fr.free = m.free \cup shown
      BY <1>0, <3>1 DEF MemTypes
    <3> QED
      BY <2>3, <3>2, <3>3 DEF Clear, Idle, fr
  <2> QED
    BY <1>0, <2>1, <2>2, <2>4 DEF Alone, Sole
<1>7. /\ Heap(Q) \subseteq Heap(P) /\ Q.brk <= P.brk
  BY <1>1, <1>3 DEF Heap
<1> HIDE DEF range
<1>8. Freed(m, r, range) = u
  BY <1>0, <1>5, <1>6, FreedIsUnmapped
<1>9. /\ u \in MemTypes /\ u.roots = m.roots /\ (\A x \in Frames \ {r} : u.pt[x] = m.pt[x])
      /\ \A v \in Pages : u.pt[r][v] =
           IF v \in range /\ Present(m.pt[r][v]) THEN NoPage ELSE m.pt[r][v]
      /\ Counted(u, Refs(u, ob)) /\ (\A f \in Frames : Refs(u, ob)[f] <= Refs(m, ob)[f])
      /\ \A f \in m.stale : f \in u.stale \/ Refs(u, ob)[f] = 0
  BY <1>0, <1>5, UnmappedFacts
<1> HIDE DEF u
<1>10. Calm(m, ob, u, ob)
  BY <1>9 DEF Calm
<1>11. \A i \in Pages : Promised(Q, i) => u.pt[r][i] = m.pt[r][i]
  <2> SUFFICES ASSUME NEW i \in Pages, Promised(Q, i) PROVE i \notin range
    BY <1>9
  <2>1. CASE i = TopPage
    BY <1>5, <2>1
  <2>2. CASE i \in Heap(Q)
    BY <1>5, <2>2
  <2>3. CASE \E v \in P.vmas : i \in PagesOf(v)
    <3>1. i \notin Heap(P)
      BY <1>0, <2>3 DEF SpaceOk
    <3> QED
      BY <1>5, <3>1
  <2> QED
    BY <1>3, <2>1, <2>2, <2>3 DEF Promised
<1>12. u.pt[r] \in [Pages -> Entries]
  BY <1>0, <1>9 DEF MemTypes
<1>13. /\ SpaceOk(u.pt[r], Q, ob)
       /\ \A i \in Pages : Private(Q, i) => Private(P, i) /\ u.pt[r][i] = m.pt[r][i]
  <2>1. GoodVmas(Q.vmas) /\ \A v \in Q.vmas : PieceOf(v, P.vmas)
    BY <1>0, <1>3 DEF PieceOf
  <2> QED
    BY <1>0, <1>3, <1>7, <1>11, <1>12, <2>1, SpaceCut
<1>14. HasSpace(u, Q, ob)
  <2>1. SpaceOk(u.pt[P.root], Q, ob)
    BY <1>4, <1>13
  <2>2. \A i \in Pages : Private(Q, i) =>
          \/ Private(P, i) /\ u.pt[P.root][i].frame = m.pt[P.root][i].frame
          \/ Sole(u, ob, u.pt[P.root][i].frame)
    BY <1>4, <1>13
  <2> QED
    BY <1>0, <1>3, <1>9, <1>10, <2>1, <2>2, SpaceBecomes
<1>15. Good(u, [pr EXCEPT ![p] = Q], ob)
  <2>1. /\ Q.root = pr[p].root /\ Q.fds = pr[p].fds
        /\ \A x \in Frames \ {pr[p].root} : u.pt[x] = m.pt[x]
    BY <1>3, <1>4, <1>9
  <2> QED
    BY <1>3, <1>9, <1>10, <1>14, <2>1, OwnSpaceChanges
<1> QED
  BY <1>2, <1>4, <1>8, <1>15

(***************************************************************************)
(* A part of an object is mapped: its frames have the object as owner, or  *)
(* are still in use, as those of a dropped ring may be.                    *)
(***************************************************************************)
LEMMA MapsShared ==
  ASSUME NEW m, NEW pr, NEW ob, Good(m, pr, ob), NEW p \in Procs, Exclusive(pr, p),
         NEW o \in Objects, NEW start \in Pages, NEW n \in Nat, n >= 1,
         n <= Len(ob[o].frames), start + n <= MMAP_CEILING,
         NEW gone \in BOOLEAN, ~gone => Owns(ob[o]),
         Clear(SharedPages(m, pr[p].root, start, SubSeq(ob[o].frames, 1, n), "rw", gone))
  PROVE  LET r == pr[p].root
             m2 == SharedPages(m, r, start, SubSeq(ob[o].frames, 1, n), "rw", gone)
         IN  /\ Good(m2, pr, ob)
             /\ FreeRun(m, r, start, n) = n =>
                  Good(m2, [pr EXCEPT ![p].vmas = pr[p].vmas \cup {Vma(start, n, "rw", o)}], ob)
<1> DEFINE r == pr[p].root
           frames == SubSeq(ob[o].frames, 1, n)
           m2 == SharedPages(m, r, start, frames, "rw", gone)
           new == Vma(start, n, "rw", o)
<1>0. /\ m \in MemTypes /\ ob \in [Objects -> ObjTypes]
      /\ r \in m.roots /\ r \in Frames /\ Counted(m, Refs(m, ob))
  BY OwnSpace DEF Exclusive
<1>1. start \in Nat /\ start >= 1 /\ start + n <= TopPage /\ n \in 1 .. TopPage /\ "rw" \in Prots
  BY MemoryAssumption DEF Pages, BrkBase, Prots
<1>2. /\ frames \in Seq(Frames) /\ Len(frames) = n
      /\ \A f \in Range(frames) : f \in Frames /\ f \in Range(ob[o].frames)
  <2>1. ob[o].frames \in Seq(Frames) /\ Len(ob[o].frames) \in Nat
    BY <1>0 DEF ObjTypes
  <2> DEFINE q == ob[o].frames
  <2> HIDE DEF q
  <2>2. q \in Seq(Frames) /\ Len(q) \in Nat /\ n <= Len(q) /\ DOMAIN q = 1 .. Len(q)
    BY <2>1 DEF q
  <2>3. SubSeq(q, 1, n) \in Seq(Frames) /\ Len(SubSeq(q, 1, n)) = n
    BY <2>2
  <2>4. Range(SubSeq(q, 1, n)) = {q[i] : i \in 1 .. n}
    BY <2>2, RangeOfPart
  <2>5. \A i \in 1 .. n : q[i] \in Frames /\ q[i] \in Range(q)
    BY <2>2 DEF Range
  <2> QED
    BY <2>3, <2>4, <2>5 DEF q
<1> HIDE DEF frames
<1>30. Clear(m2)
  BY DEF frames
<1>3. gone \/ Owned(ob, frames)
  <2> SUFFICES ASSUME ~gone, NEW f \in Range(frames) PROVE OwnersIn(ob, f) # {}
    BY DEF Owned
  <2>1. o \in OwnersIn(ob, f)
    BY <1>2 DEF OwnersIn, Owns
  <2> QED
    BY <2>1
<1>4. /\ m2 \in MemTypes /\ m2.roots = m.roots /\ Counted(m2, Refs(m2, ob))
      /\ \A x \in Frames \ {r} : m2.pt[x] = m.pt[x]
      /\ \A v \in Pages : m.pt[r][v] # NoPage => m2.pt[r][v] = m.pt[r][v]
      /\ Calm(m, ob, m2, ob)
      /\ FreeRun(m, r, start, Len(frames)) = Len(frames) =>
           Unused(m.pt[r], start, Len(frames)) /\ Shows(m2.pt[r], start, frames, "rw")
  <2>1. start + Len(frames) <= TopPage
    BY <1>1, <1>2
  <2>2. /\ m \in MemTypes /\ ob \in [Objects -> ObjTypes] /\ r \in m.roots
        /\ frames \in Seq(Frames) /\ "rw" \in Prots /\ Counted(m, Refs(m, ob))
    BY <1>0, <1>2 DEF Prots
  <2> HIDE DEF r
  <2> QED
    BY <1>3, <1>30, <2>1, <2>2, SharedPagesFacts
<1> HIDE DEF m2
<1>5. Gains(m, m2, pr[p].root, ob)
  BY <1>4 DEF Gains
<1>6. Good(m2, pr, ob)
  BY <1>5, GainsNothing
<1>7. ASSUME FreeRun(m, r, start, n) = n
      PROVE  Good(m2, [pr EXCEPT ![p].vmas = pr[p].vmas \cup {new}], ob)
  <2>1. /\ new \in Vmas /\ new.start = start /\ new.len = n /\ new.prot = "rw"
        /\ new.kind = o /\ End(new) = start + n /\ PagesOf(new) = start .. start + n - 1
    BY <1>1 DEF Vma, Vmas, End, PagesOf, Prots
  <2> HIDE DEF new
  <2>2. new.kind # "private"
    BY <2>1, MemoryAssumption
  <2>3. Unused(m.pt[pr[p].root], new.start, new.len)
    BY <1>2, <1>4, <1>7, <2>1
  <2>4. Backed(m2.pt[pr[p].root], new, ob)
    <3>1. \A i \in start .. start + n - 1 : /\ m2.pt[r][i] # NoPage /\ m2.pt[r][i].prot = "rw"
                                            /\ m2.pt[r][i].frame \in Range(frames)
      BY <1>2, <1>4, <1>7 DEF Shows
    <3> QED
      BY <1>2, <2>1, <3>1 DEF Backed
  <2>5. End(new) <= MMAP_CEILING
    BY <2>1
  <2> HIDE DEF r
  <2> QED
    BY <1>5, <2>1, <2>2, <2>3, <2>4, <2>5, GainsVma
<1> QED
  BY <1>6, <1>7 DEF m2, frames

(***************************************************************************)
(* mprotect: the entries and the VMAs change together, and no reference.   *)
(***************************************************************************)
LEMMA MprotectStep ==
  ASSUME NEW m, NEW pr, NEW ob, Good(m, pr, ob), NEW p \in Procs, Exclusive(pr, p),
         NEW start \in Nat, NEW len \in Nat, len >= 1, NEW prot \in Prots
  PROVE  LET r == pr[p].root
             range == Covered(pr[p].vmas, start, len)
         IN  Good(WithTable(m, r, Protected(m.pt[r], range, prot), m.left, m.stale),
                  [pr EXCEPT ![p].vmas = mprotect_vmas(pr[p].vmas, start, len, prot)], ob)
<1> DEFINE P == pr[p]
           r == P.root
           V == P.vmas
           range == Covered(V, start, len)
           W == mprotect_vmas(V, start, len, prot)
           table == m.pt[r]
           t2 == Protected(table, range, prot)
           c == WithTable(m, r, t2, m.left, m.stale)
           Q == [P EXCEPT !.vmas = W]
<1>0. /\ m \in MemTypes /\ ob \in [Objects -> ObjTypes] /\ P \in ProcTypes /\ P.state = "live"
      /\ r \in m.roots /\ r \in Frames /\ table \in [Pages -> Entries]
      /\ Counted(m, Refs(m, ob)) /\ HasSpace(m, P, ob) /\ SpaceOk(table, P, ob) /\ GoodVmas(V)
  BY OwnSpace DEF Exclusive
<1>1. /\ GoodVmas(W)
      /\ \A x \in W : \/ PieceOf(x, V) /\ Away(x, start, start + len)
                      \/ Reprotected(x, V, start, len, prot)
  BY <1>0, MprotectFacts
<1>2. /\ range \subseteq Pages \ {TopPage}
      /\ \A i \in range : start <= i /\ i < start + len /\ \E v \in V : i \in PagesOf(v)
  BY <1>0, CoveredFacts
<1>3. /\ Q \in ProcTypes /\ Q.root = P.root /\ Q.state = "live" /\ Q.fds = P.fds
      /\ Q.vmas = W /\ Q.brk = P.brk
  <2>1. W \subseteq Vmas
    BY <1>1 DEF GoodVmas
  <2> HIDE DEF P, W
  <2> QED
    BY <1>0, <2>1 DEF ProcTypes
<1>4. /\ P = pr[p] /\ P.root = r /\ P.vmas = V /\ range = Covered(V, start, len)
      /\ [pr EXCEPT ![p] = Q] = [pr EXCEPT ![p].vmas = W]
  OBVIOUS
<1>5. \A i \in Pages :
        /\ t2[i] \in Entries /\ t2[i].frame = table[i].frame
        /\ table[i] # NoPage => t2[i] # NoPage
        /\ i \notin range => t2[i] = table[i]
        /\ i \in range /\ table[i] # NoPage => t2[i].prot = prot
  <2> TAKE i \in Pages
  <2> HIDE DEF table, range
  <2>1. t2[i] = IF i \in range /\ table[i] # NoPage
                THEN [table[i] EXCEPT !.prot = prot] ELSE table[i]
    BY DEF Protected
  <2>2. table[i] \in Entries
    BY <1>0
  <2>3. CASE i \in range /\ table[i] # NoPage
    <3>1. table[i] \in [frame : Frames, prot : Prots]
      BY <2>2, <2>3 DEF Entries
    <3>2. t2[i] = [table[i] EXCEPT !.prot = prot]
      BY <2>1, <2>3
    <3>3. /\ t2[i] \in [frame : Frames, prot : Prots] /\ t2[i].frame = table[i].frame
          /\ t2[i].prot = prot
      BY <3>1, <3>2
    <3>4. 0 \notin Frames
      BY DEF Frames
    <3> QED
      BY <2>3, <3>1, <3>3, <3>4 DEF Entries, NoPage
  <2>4. CASE ~(i \in range /\ table[i] # NoPage)
    BY <2>1, <2>2, <2>4
  <2> QED
    BY <2>3, <2>4
<1>6. t2 \in [Pages -> Entries]
  <2>1. t2 = [v \in Pages |-> IF v \in range /\ table[v] # NoPage
                              THEN [table[v] EXCEPT !.prot = prot] ELSE table[v]]
    BY Zenon DEF Protected
  <2>2. t2 = [v \in Pages |-> t2[v]]
    <3> HIDE DEF table, range, t2
    <3> QED
      BY <2>1
  <2> HIDE DEF t2, table, range
  <2> QED
    BY <1>5, <2>2
<1> HIDE DEF t2, range, W, Q, table
<1>7. /\ c \in MemTypes /\ c.pt[r] = t2 /\ (\A x \in Frames \ {r} : c.pt[x] = m.pt[x])
      /\ c.roots = m.roots /\ (\A n : Counted(m, n) => Counted(c, n)) /\ c.stale = m.stale
  <2>1. HistoryTypes(m.left, m.stale)
    BY <1>0 DEF MemTypes, HistoryTypes
  <2> HIDE DEF P, r
  <2> QED
    BY <1>0, <1>6, <2>1, TableChanges
<1> HIDE DEF c, r, V, P
<1>8. Refs(c, ob) = Refs(m, ob)
  <2>1. \A x \in m.roots : \A i \in Pages : c.pt[x][i].frame = m.pt[x][i].frame
    <3> TAKE x \in m.roots
    <3> TAKE i \in Pages
    <3>1. CASE x = r
      BY <1>5, <1>7, <3>1 DEF table
    <3>2. CASE x # r
      <4>1. x \in Frames \ {r}
        BY <1>0, <3>2 DEF MemTypes
      <4> QED
        BY <1>7, <4>1
    <3> QED
      BY <3>1, <3>2
  <2>2. \A f : MapsTo(c, f) = MapsTo(m, f)
    BY <1>7, <2>1 DEF MapsTo
  <2> QED
    BY <2>2, Zenon DEF Refs
<1>9. Counted(c, Refs(c, ob))
  BY <1>0, <1>7, <1>8
<1>10. Calm(m, ob, c, ob)
  <2>1. \A f \in Frames : Refs(m, ob)[f] \in Nat
    BY <1>0, RefsFacts
  <2> QED
    BY <1>7, <1>8, <2>1 DEF Calm
<1>11. \A i \in Heap(P) : i \notin range
  <2>1. \A v \in V : PagesOf(v) \cap Heap(P) = {}
    BY <1>0, <1>4 DEF SpaceOk
  <2> QED
    BY <1>2, <2>1
<1>12. \A x \in W : \E v \in V : x.kind = v.kind /\ PagesOf(x) \subseteq PagesOf(v)
  BY <1>1 DEF PieceOf, Reprotected
<1>13. Heap(Q) = Heap(P) /\ \A i \in Heap(P) : i \in Pages
  <2>1. Heap(Q) = Heap(P)
    BY <1>3 DEF Heap
  <2>2. P.brk \in 1 .. MMAP_FLOOR
    BY <1>0 DEF ProcTypes, BrkBase
  <2>3. \A i \in Heap(P) : i \in Pages
    BY <2>2, MemoryAssumption DEF Heap, Pages, BrkBase
  <2> QED
    BY <2>1, <2>3
<1>14. ASSUME NEW x \in W PROVE Backed(t2, x, ob)
  <2>1. x \in Vmas /\ End(x) <= MMAP_CEILING
    BY <1>1 DEF GoodVmas
  <2>2. PagesOf(x) \subseteq Pages /\ \A i \in Nat : i \in PagesOf(x) <=> x.start <= i /\ i < End(x)
    BY <2>1, VmaFacts
  <2>3. CASE PieceOf(x, V) /\ Away(x, start, start + len)
    <3>1. PICK v \in V : x.prot = v.prot /\ x.kind = v.kind /\ PagesOf(x) \subseteq PagesOf(v)
      BY <2>3 DEF PieceOf
    <3>2. Backed(table, v, ob)
      BY <1>0, <1>4, <3>1 DEF SpaceOk
    <3>3. \A i \in PagesOf(x) : i \notin range
      <4> TAKE i \in PagesOf(x)
      <4>1. i \in Nat /\ x.start \in Nat /\ End(x) \in Nat
        BY <2>1, <2>2, VmaFacts, MemoryAssumption DEF Pages, BrkBase
      <4>2. x.start <= i /\ i < End(x)
        BY <2>2, <4>1
      <4>3. ~(start <= i /\ i < start + len)
        BY <2>3, <4>1, <4>2 DEF Away
      <4> QED
        BY <1>2, <4>3
    <3>4. \A i \in PagesOf(x) : t2[i] = table[i]
      BY <1>5, <2>2, <3>3
    <3> QED
      BY <3>1, <3>2, <3>4 DEF Backed
  <2>4. CASE Reprotected(x, V, start, len, prot)
    <3>1. PICK v \in V : x.kind = v.kind /\ PagesOf(x) \subseteq PagesOf(v)
      BY <2>4 DEF Reprotected
    <3>2. x.prot = prot /\ PagesOf(x) \subseteq range
      BY <1>4, <2>4 DEF Reprotected
    <3>3. Backed(table, v, ob)
      BY <1>0, <1>4, <3>1 DEF SpaceOk
    <3>4. \A i \in PagesOf(x) : /\ table[i] # NoPage /\ i \in Pages /\ i \in range
                                /\ v.kind # "private" => table[i].frame \in Range(ob[v.kind].frames)
      BY <2>2, <3>1, <3>2, <3>3 DEF Backed
    <3>5. \A i \in PagesOf(x) :
            /\ t2[i] # NoPage /\ t2[i].prot = prot /\ t2[i].frame = table[i].frame
      BY <1>5, <3>4
    <3> QED
      BY <3>1, <3>2, <3>4, <3>5 DEF Backed
  <2> QED
    BY <1>1, <2>3, <2>4
<1>15. SpaceOk(t2, Q, ob)
  <2>1. \A x \in W : PagesOf(x) \cap Heap(Q) = {}
    <3>1. \A v \in V : PagesOf(v) \cap Heap(P) = {}
      BY <1>0, <1>4 DEF SpaceOk
    <3> QED
      BY <1>12, <1>13, <3>1
  <2>2. \A i \in Heap(Q) : t2[i] # NoPage /\ t2[i].prot = "rw"
    <3>1. \A i \in Heap(P) : table[i] # NoPage /\ table[i].prot = "rw"
      BY <1>0 DEF SpaceOk
    <3> QED
      BY <1>5, <1>11, <1>13, <3>1
  <2>3. t2[TopPage] # NoPage
    <3>1. TopPage \in Pages /\ table[TopPage] # NoPage
      BY <1>0, MemoryAssumption DEF SpaceOk, Pages, BrkBase
    <3> QED
      BY <1>5, <3>1
  <2> QED
    BY <1>1, <1>3, <1>14, <2>1, <2>2, <2>3 DEF SpaceOk
<1>16. \A i \in Pages : Private(Q, i) => Private(P, i)
  <2>1. \A x \in W : x.kind = "private" =>
          \A i \in PagesOf(x) : \E v \in V : v.kind = "private" /\ i \in PagesOf(v)
    BY <1>12
  <2> QED
    BY <1>3, <1>4, <1>13, <2>1 DEF Private
<1>17. HasSpace(c, Q, ob)
  <2>1. SpaceOk(c.pt[P.root], Q, ob)
    BY <1>4, <1>7, <1>15
  <2>2. \A i \in Pages : Private(Q, i) =>
          \/ Private(P, i) /\ c.pt[P.root][i].frame = m.pt[P.root][i].frame
          \/ Sole(c, ob, c.pt[P.root][i].frame)
    BY <1>4, <1>5, <1>7, <1>16 DEF table
  <2> QED
    BY <1>0, <1>3, <1>7, <1>10, <2>1, <2>2, SpaceBecomes
<1>18. Good(c, [pr EXCEPT ![p] = Q], ob)
  <2>1. /\ Q.root = pr[p].root /\ Q.fds = pr[p].fds
        /\ \A x \in Frames \ {pr[p].root} : c.pt[x] = m.pt[x]
    BY <1>3, <1>4, <1>7
  <2> QED
    BY <1>3, <1>7, <1>9, <1>10, <1>17, <2>1, OwnSpaceChanges
<1> QED
  BY <1>4, <1>18 DEF c, t2, range, W, V, r, P, table

(***************************************************************************)
(* A process that a step leaves alone: its address space is untouched.     *)
(***************************************************************************)
Untouched(m, m2, a, b) ==
  \/ /\ a.state = "live" /\ b.state = "live" /\ b.root = a.root /\ b.brk = a.brk
     /\ b.vmas = a.vmas /\ a.root \in m2.roots /\ m2.pt[a.root] = m.pt[a.root]
  \/ a.state # "live" /\ b = a

(***************************************************************************)
(* A step that leaves every address space alone, or makes it right, and    *)
(* keeps the books.                                                        *)
(***************************************************************************)
LEMMA StaysGood ==
  ASSUME NEW m, NEW pr, NEW ob, Good(m, pr, ob), NEW m2 \in MemTypes,
         NEW pr2 \in [Procs -> ProcTypes], NEW ob2 \in [Objects -> ObjTypes],
         Counted(m2, Refs(m2, ob2)), Calm(m, ob, m2, ob2), FramesKept(ob, ob2),
         \A q \in Procs : Untouched(m, m2, pr[q], pr2[q]) \/ HasSpace(m2, pr2[q], ob2),
         Rings(ob2),
         \A q \in Procs : \A o \in pr2[q].fds : ob2[o].alive
  PROVE  Good(m2, pr2, ob2)
<1>0. m \in MemTypes /\ pr \in [Procs -> ProcTypes] /\ ob \in [Objects -> ObjTypes]
  BY DEF Good
<1>1. ASSUME NEW q \in Procs PROVE HasSpace(m2, pr2[q], ob2)
  <2>1. HasSpace(m, pr[q], ob) /\ pr[q] \in ProcTypes /\ pr2[q] \in ProcTypes
    BY <1>0 DEF Good
  <2>2. CASE /\ pr[q].state = "live" /\ pr2[q].state = "live" /\ pr2[q].root = pr[q].root
             /\ pr2[q].brk = pr[q].brk /\ pr2[q].vmas = pr[q].vmas
             /\ pr[q].root \in m2.roots /\ m2.pt[pr[q].root] = m.pt[pr[q].root]
    BY <1>0, <2>1, <2>2, OthersKeep
  <2>3. CASE pr[q].state # "live" /\ pr2[q] = pr[q]
    BY <2>1, <2>3 DEF HasSpace
  <2> QED
    BY <2>2, <2>3 DEF Untouched
<1> QED
  BY <1>1 DEF Good

(***************************************************************************)
(* An address space that no live process has is freed.                     *)
(***************************************************************************)
LEMMA CleanStep ==
  ASSUME NEW m, NEW pr, NEW ob, Good(m, pr, ob), NEW root \in m.roots,
         \A q \in Procs : pr[q].state = "live" => pr[q].root # root
  PROVE  Good(CleanedUp(m, root), pr, ob)
<1> DEFINE c == CleanedUp(m, root)
<1>0. /\ m \in MemTypes /\ pr \in [Procs -> ProcTypes] /\ ob \in [Objects -> ObjTypes]
      /\ Counted(m, Refs(m, ob))
  BY DEF Good
<1>1. /\ c \in MemTypes /\ c.roots = m.roots \ {root}
      /\ \A r \in Frames \ {root} : c.pt[r] = m.pt[r]
      /\ Counted(c, Refs(c, ob)) /\ (\A f \in Frames : Refs(c, ob)[f] <= Refs(m, ob)[f])
      /\ \A f \in m.stale : f \in c.stale \/ Refs(c, ob)[f] = 0
  BY <1>0, CleanedUpFacts
<1> HIDE DEF c
<1>2. Calm(m, ob, c, ob) /\ FramesKept(ob, ob)
  BY <1>1 DEF Calm, FramesKept
<1>3. \A q \in Procs : Untouched(m, c, pr[q], pr[q])
  <2> TAKE q \in Procs
  <2>1. CASE pr[q].state = "live"
    <3>1. pr[q].root \in m.roots /\ pr[q].root # root /\ pr[q].root \in Frames
      BY <1>0, <2>1 DEF Good, HasSpace, MemTypes
    <3> QED
      BY <1>1, <2>1, <3>1 DEF Untouched
  <2>2. CASE pr[q].state # "live"
    BY <2>2 DEF Untouched
  <2> QED
    BY <2>1, <2>2
<1>4. /\ Rings(ob)
      /\ \A q \in Procs : \A o \in pr[q].fds : ob[o].alive
  BY DEF Good
<1>5. Good(c, pr, ob)
  BY <1>0, <1>1, <1>2, <1>3, <1>4, StaysGood
<1> QED
  BY <1>5 DEF c

(***************************************************************************)
(* The processes change and nothing else: each still has its space.        *)
(***************************************************************************)
LEMMA ProcsChange ==
  ASSUME NEW m, NEW pr, NEW ob, Good(m, pr, ob), NEW pr2 \in [Procs -> ProcTypes],
         \A q \in Procs : pr2[q] = pr[q] \/ HasSpace(m, pr2[q], ob),
         \A q \in Procs : \A o \in pr2[q].fds : ob[o].alive
  PROVE  Good(m, pr2, ob)
BY DEF Good

(***************************************************************************)
(* A process ends: NoProcess has no space and no descriptors.              *)
(***************************************************************************)
LEMMA ProcEnds ==
  ASSUME NEW m, NEW pr, NEW ob, Good(m, pr, ob), NEW p \in Procs
  PROVE  Good(m, [pr EXCEPT ![p] = NoProcess], ob)
<1> DEFINE pr2 == [pr EXCEPT ![p] = NoProcess]
<1>0. pr \in [Procs -> ProcTypes]
  BY DEF Good
<1>1. NoProcess \in ProcTypes /\ NoProcess.state # "live" /\ NoProcess.fds = {}
  BY MemoryAssumption DEF NoProcess, ProcTypes, BrkBase
<1>2. /\ pr2 \in [Procs -> ProcTypes] /\ pr2[p] = NoProcess
      /\ \A q \in Procs \ {p} : pr2[q] = pr[q]
  BY <1>0, <1>1
<1> HIDE DEF pr2
<1>3. HasSpace(m, NoProcess, ob)
  BY <1>1 DEF HasSpace
<1>4. \A q \in Procs : pr2[q] = pr[q] \/ HasSpace(m, pr2[q], ob)
  BY <1>2, <1>3
<1>5. \A q \in Procs : \A o \in pr2[q].fds : ob[o].alive
  BY <1>1, <1>2 DEF Good
<1>6. Good(m, pr2, ob)
  BY <1>2, <1>4, <1>5, ProcsChange
<1> QED
  BY <1>6 DEF pr2

(***************************************************************************)
(* The descriptors of a process change: to objects that are alive.         *)
(***************************************************************************)
LEMMA FdsChange ==
  ASSUME NEW m, NEW pr, NEW ob, Good(m, pr, ob), NEW p \in Procs, pr[p].state = "live",
         NEW F \in SUBSET Objects, \A o \in F : ob[o].alive
  PROVE  Good(m, [pr EXCEPT ![p].fds = F], ob)
<1> DEFINE P == pr[p]
           Q == [P EXCEPT !.fds = F]
           pr2 == [pr EXCEPT ![p] = Q]
<1>0. /\ pr \in [Procs -> ProcTypes] /\ P \in ProcTypes /\ m \in MemTypes
      /\ ob \in [Objects -> ObjTypes] /\ HasSpace(m, P, ob) /\ P.state = "live"
      /\ P.root \in m.roots
  BY OwnSpace DEF Good
<1>1. /\ Q \in ProcTypes /\ Q.state = "live" /\ Q.root = P.root /\ Q.brk = P.brk
      /\ Q.vmas = P.vmas /\ Q.fds = F
  <2> HIDE DEF P
  <2> QED
    BY <1>0 DEF ProcTypes
<1>2. [pr EXCEPT ![p].fds = F] = pr2
  OBVIOUS
<1> HIDE DEF P, Q
<1>3. /\ pr2 \in [Procs -> ProcTypes] /\ pr2[p] = Q /\ \A q \in Procs \ {p} : pr2[q] = pr[q]
  BY <1>0, <1>1
<1> HIDE DEF pr2
<1>4. HasSpace(m, Q, ob)
  <2>1. FramesKept(ob, ob) /\ Calm(m, ob, m, ob)
    <3>1. \A f \in Frames : Refs(m, ob)[f] \in Nat
      BY <1>0, RefsFacts
    <3> QED
      BY <3>1 DEF FramesKept, Calm
  <2> QED
    BY <1>0, <1>1, <2>1, OthersKeep
<1>5. \A q \in Procs : pr2[q] = pr[q] \/ HasSpace(m, pr2[q], ob)
  BY <1>3, <1>4
<1>6. \A q \in Procs : \A o \in pr2[q].fds : ob[o].alive
  BY <1>1, <1>3 DEF Good
<1>7. Good(m, pr2, ob)
  BY <1>3, <1>5, <1>6, ProcsChange
<1> QED
  BY <1>2, <1>7

(***************************************************************************)
(* Objects without descriptors are dropped: they release their frames.     *)
(***************************************************************************)
LEMMA DropStep ==
  ASSUME NEW m, NEW pr, Good(m, pr, obj)
  PROVE  Good(WithoutDropped(m, pr), pr, ObjectsLeft(pr))
<1> DEFINE S == Dropped(pr)
           ob2 == ObjectsLeft(pr)
           r == Released(m, HeldBy(S))
<1>0. /\ m \in MemTypes /\ pr \in [Procs -> ProcTypes] /\ obj \in [Objects -> ObjTypes]
      /\ Counted(m, Refs(m, obj))
  BY DEF Good
<1>1. /\ S \in SUBSET Objects
      /\ \A o \in S : obj[o].alive /\ obj[o].owned /\ \A q \in Procs : o \notin pr[q].fds
  BY DEF Dropped
<1>2. \A o \in Objects : ob2[o] = IF o \in S THEN [obj[o] EXCEPT !.alive = FALSE] ELSE obj[o]
  BY DEF ObjectsLeft
<1>3. ob2 = [o \in Objects |-> ob2[o]]
  <2>1. ob2 = [o \in Objects |-> IF o \in S THEN [obj[o] EXCEPT !.alive = FALSE] ELSE obj[o]]
    BY Zenon DEF ObjectsLeft
  <2> HIDE DEF ob2, S
  <2> QED
    BY <2>1
<1>4. WithoutDropped(m, pr) = r
  BY Zenon DEF WithoutDropped
<1> HIDE DEF S, ob2
<1>5. \A o \in Objects :
        /\ obj[o] \in ObjTypes /\ ob2[o] \in ObjTypes /\ ob2[o].frames = obj[o].frames
        /\ ob2[o].port = obj[o].port /\ ob2[o].owned = obj[o].owned
        /\ ob2[o].ring = obj[o].ring /\ obj[o].ring \subseteq Objects
        /\ o \in S => ~ob2[o].alive
        /\ o \notin S => ob2[o].alive = obj[o].alive
  BY <1>0, <1>2 DEF ObjTypes
<1>6. ob2 \in [Objects -> ObjTypes]
  BY <1>3, <1>5
<1>7. Rings(obj)
  BY DEF Good
<1>8. \A o \in S : Owns(obj[o]) /\ ~Owns(ob2[o])
  BY <1>1, <1>5, <1>7 DEF Owns, Rings
<1>9. \A o \in Objects \ S : Owns(ob2[o]) <=> Owns(obj[o])
  BY <1>5 DEF Owns
<1>10. \A o \in Objects : ob2[o].frames = obj[o].frames
  BY <1>5
<1>11. /\ r \in MemTypes /\ r.roots = m.roots /\ r.pt = m.pt
       /\ Counted(r, Refs(r, ob2)) /\ Calm(m, obj, r, ob2)
  BY <1>0, <1>1, <1>6, <1>8, <1>9, <1>10, LetsGo
<1> HIDE DEF r
<1>12. \A q \in Procs : Untouched(m, r, pr[q], pr[q])
  BY <1>11 DEF Untouched, Good, HasSpace
<1>13. Rings(ob2)
  BY <1>5, <1>7 DEF Rings
<1>14. \A q \in Procs : \A o \in pr[q].fds : ob2[o].alive
  <2>1. \A q \in Procs : \A o \in pr[q].fds : obj[o].alive /\ o \in Objects
    BY <1>0 DEF Good, ProcTypes
  <2> QED
    BY <1>1, <1>5, <2>1
<1>15. FramesKept(obj, ob2)
  BY <1>10 DEF FramesKept
<1>16. Good(r, pr, ob2)
  BY <1>0, <1>6, <1>11, <1>12, <1>13, <1>14, <1>15, StaysGood
<1> QED
  BY <1>4, <1>16 DEF ob2

(***************************************************************************)
(* Objects are made of the next n frames, and the process gets descriptors *)
(* of them.                                                                *)
(***************************************************************************)
LEMMA MakesObjects ==
  ASSUME NEW m, NEW pr, NEW ob, Good(m, pr, ob), NEW p \in Procs, pr[p].state = "live",
         NEW ob2 \in [Objects -> ObjTypes], NEW S \in SUBSET Objects,
         \A o \in S : ob[o] = NoObject /\ Owns(ob2[o]) /\ ob2[o].alive,
         \A o \in Objects \ S : ob2[o] = ob[o], Rings(ob2),
         NEW n \in 0 .. Len(AvailSeq(m)),
         \A o \in S : Range(ob2[o].frames) \subseteq Range(SubSeq(AvailSeq(m), 1, n)),
         \A f \in Range(SubSeq(AvailSeq(m), 1, n)) : \E o \in S :
           /\ f \in Range(ob2[o].frames)
           /\ \A x \in S : f \in Range(ob2[x].frames) => x = o
  PROVE  Good(Taken(m, n), [pr EXCEPT ![p].fds = pr[p].fds \cup S], ob2)
<1> DEFINE t == Taken(m, n)
           F == pr[p].fds \cup S
<1>0. /\ m \in MemTypes /\ pr \in [Procs -> ProcTypes] /\ ob \in [Objects -> ObjTypes]
      /\ Counted(m, Refs(m, ob))
  BY DEF Good
<1>1. /\ t \in MemTypes /\ t.roots = m.roots /\ t.pt = m.pt
      /\ Counted(t, Refs(t, ob2)) /\ Calm(m, ob, t, ob2)
  <2>1. \A o \in S : ob[o] = NoObject /\ Owns(ob2[o])
    OBVIOUS
  <2> QED
    BY ZenonT(40), <1>0, <2>1, NewOwner
<1>2. \A o \in Objects : o \in S \/ ob2[o] = ob[o]
  OBVIOUS
<1> HIDE DEF t
<1>3. FramesKept(ob, ob2)
  <2>1. \A o \in S : ob[o].frames = <<>>
    BY DEF NoObject
  <2> QED
    BY <1>2, <2>1 DEF FramesKept
<1>4. \A q \in Procs : Untouched(m, t, pr[q], pr[q])
  BY <1>1 DEF Untouched, Good, HasSpace
<1>6. \A q \in Procs : \A y \in pr[q].fds : y \in Objects /\ ob2[y].alive
  <2>1. \A q \in Procs : \A y \in pr[q].fds : ob[y].alive /\ y \in Objects
    BY <1>0 DEF Good, ProcTypes
  <2> QED
    BY <1>2, <2>1
<1>7. Good(t, pr, ob2)
  BY <1>0, <1>1, <1>3, <1>4, <1>6, StaysGood
<1>8. F \in SUBSET Objects /\ \A y \in F : ob2[y].alive
  BY <1>2, <1>6
<1> HIDE DEF F
<1>9. Good(t, [pr EXCEPT ![p].fds = F], ob2)
  BY <1>7, <1>8, FdsChange
<1> QED
  BY <1>9 DEF t, F

(***************************************************************************)
(* The frames of an object that could not be made are lost.                *)
(***************************************************************************)
LEMMA LosesFrames ==
  ASSUME NEW m, NEW pr, NEW ob, Good(m, pr, ob), NEW n \in 0 .. Len(AvailSeq(m))
  PROVE  Good([Taken(m, n) EXCEPT !.lost = @ \cup Range(SubSeq(AvailSeq(m), 1, n))], pr, ob)
<1> DEFINE t == Taken(m, n)
           gone == Range(SubSeq(AvailSeq(m), 1, n))
           m2 == [t EXCEPT !.lost = @ \cup gone]
<1>0. /\ m \in MemTypes /\ pr \in [Procs -> ProcTypes] /\ ob \in [Objects -> ObjTypes]
      /\ Counted(m, Refs(m, ob)) /\ \A f \in m.free : f < m.next
  BY DEF Good, Counted
<1>1. /\ t \in MemTypes /\ (\A f \in t.free : f < t.next) /\ Avail(t) = Avail(m) \ gone
      /\ t.refcounts = m.refcounts /\ t.roots = m.roots /\ t.pt = m.pt /\ t.lost = m.lost
      /\ t.stale = m.stale
  BY <1>0, TakenFacts
<1>2. gone \subseteq Frames
  <2> DEFINE q == AvailSeq(m)
  <2>1. q \in Seq(Frames) /\ Len(q) \in Nat
    BY <1>0, AvailFacts
  <2> HIDE DEF q
  <2>2. n \in 0 .. Len(q)
    BY DEF q
  <2>3. Range(SubSeq(q, 1, n)) = {q[i] : i \in 1 .. n}
    BY <2>1, <2>2, RangeOfPart
  <2>4. \A i \in 1 .. n : q[i] \in Frames
    BY <2>1, <2>2
  <2> QED
    BY <2>3, <2>4 DEF q
<1> HIDE DEF gone, t
<1>3. /\ m2 \in MemTypes /\ m2.free = t.free /\ m2.next = t.next /\ m2.refcounts = t.refcounts
      /\ m2.roots = t.roots /\ m2.pt = t.pt /\ m2.lost = t.lost \cup gone
      /\ m2.stale = t.stale
  BY <1>1, <1>2 DEF MemTypes
<1> HIDE DEF m2
<1>4. Avail(m2) = Avail(m) \ gone
  BY <1>1, <1>3 DEF Avail
<1>5. Refs(m2, ob) = Refs(m, ob)
  <2>1. m2.roots = m.roots /\ \A x \in m.roots : m2.pt[x] = m.pt[x]
    BY <1>1, <1>3
  <2> QED
    BY <2>1, SameTables
<1>6. Refs(m, ob) \in [Frames -> Nat]
  BY <1>0, RefsFacts
<1>7. Counted(m2, Refs(m, ob))
  <2>1. /\ \A f \in m2.free : f < m2.next
        /\ m2.refcounts = m.refcounts /\ Avail(m2) \subseteq Avail(m)
        /\ m.roots \subseteq m2.roots /\ m.lost \subseteq m2.lost
        /\ \A f \in m2.roots : f \in m.roots
        /\ \A f \in Avail(m) \ Avail(m2) : f \in m2.lost
    BY <1>1, <1>3, <1>4
  <2> DEFINE l == Refs(m, ob)
  <2>2. l \in [Frames -> Nat] /\ Counted(m, l)
    BY <1>0, <1>6
  <2> HIDE DEF l
  <2>3. Counted(m2, l)
    BY <1>0, <1>3, <2>1, <2>2, HandsOut
  <2> QED
    BY <2>3 DEF l
<1>8. Calm(m, ob, m2, ob) /\ FramesKept(ob, ob)
  BY <1>1, <1>3, <1>5, <1>6 DEF Calm, FramesKept
<1>9. \A q \in Procs : Untouched(m, m2, pr[q], pr[q])
  BY <1>1, <1>3 DEF Untouched, Good, HasSpace
<1>10. /\ Rings(ob)
       /\ \A q \in Procs : \A y \in pr[q].fds : ob[y].alive
  BY DEF Good
<1>11. Good(m2, pr, ob)
  BY <1>0, <1>3, <1>5, <1>7, <1>8, <1>9, <1>10, StaysGood
<1> QED
  BY <1>11 DEF m2, t, gone

(***************************************************************************)
(* Frames that are allocated and given back leave the books as they were.  *)
(***************************************************************************)
LEMMA ReturnsFrames ==
  ASSUME NEW m, NEW pr, NEW ob, Good(m, pr, ob), NEW n \in 0 .. Len(AvailSeq(m))
  PROVE  Good(Returned(m, n), pr, ob)
<1> DEFINE t == Taken(m, n)
           R == Range(SubSeq(AvailSeq(m), 1, n))
           k == [f \in Frames |-> IF f \in R THEN 1 ELSE 0]
           r == Released(t, k)
           l == Refs(m, ob)
           h == [f \in Frames |-> l[f] + k[f]]
<1>0. /\ m \in MemTypes /\ pr \in [Procs -> ProcTypes] /\ ob \in [Objects -> ObjTypes]
      /\ Counted(m, l) /\ \A f \in m.free : f < m.next
  BY DEF Good, Counted
<1>1. /\ t \in MemTypes /\ (\A f \in t.free : f < t.next) /\ Avail(t) = Avail(m) \ R
      /\ t.refcounts = m.refcounts /\ t.roots = m.roots /\ t.pt = m.pt /\ t.lost = m.lost
      /\ t.stale = m.stale
  BY <1>0, TakenFacts
<1>2. R \subseteq Avail(m)
  <2> DEFINE q == AvailSeq(m)
  <2>1. q \in Seq(Frames) /\ Range(q) = Avail(m) /\ n \in 0 .. Len(q)
    BY <1>0, AvailFacts
  <2> HIDE DEF q
  <2>2. Range(SubSeq(q, 1, n)) \subseteq Range(q)
    BY <2>1, Splits
  <2> QED
    BY <2>1, <2>2 DEF q
<1>3. l \in [Frames -> Nat]
  BY <1>0, RefsFacts
<1> HIDE DEF t, R, l
<1>4. k \in [Frames -> Nat] /\ h \in [Frames -> Nat]
  BY <1>3
<1>5. Counted(t, h)
  <2>1. \A f \in Avail(m) : f \in Frames /\ l[f] = 0 /\ f \notin m.roots
    BY <1>0 DEF Counted, Avail, MemTypes
  <2>2. ASSUME NEW f \in Frames PROVE h[f] = l[f] \/ (f \in Avail(m) \ Avail(t) /\ h[f] = 1)
    <3>1. CASE f \in R
      <4>1. l[f] = 0 /\ k[f] = 1 /\ f \in Avail(m) \ Avail(t)
        BY <1>1, <1>2, <2>1, <3>1
      <4> QED
        BY <4>1
    <3>2. CASE f \notin R
      <4>1. k[f] = 0 /\ l[f] \in Nat
        BY <1>3, <3>2
      <4> QED
        BY <4>1
    <3> QED
      BY <3>1, <3>2
  <2>3. \A f \in Avail(m) \ Avail(t) : h[f] = 1 \/ f \in t.roots \/ f \in t.lost
    <3> TAKE f \in Avail(m) \ Avail(t)
    <3>1. f \in R /\ f \in Frames /\ l[f] = 0
      BY <1>1, <2>1
    <3>2. k[f] = 1
      BY <3>1
    <3> QED
      BY <3>1, <3>2
  <2>4. /\ t \in MemTypes /\ (\A f \in t.free : f < t.next) /\ t.refcounts = m.refcounts
        /\ Avail(t) \subseteq Avail(m) /\ m.roots \subseteq t.roots /\ m.lost \subseteq t.lost
        /\ \A f \in t.roots : f \in m.roots
    BY <1>1
  <2>5. m \in MemTypes /\ Counted(m, l) /\ h \in [Frames -> Nat] /\ l \in [Frames -> Nat]
    BY <1>0, <1>3, <1>4
  <2> HIDE DEF h, k
  <2> QED
    BY ZenonT(40), <2>2, <2>3, <2>4, <2>5, HandsOut
<1>6. \A f \in Frames : h[f] = l[f] + k[f]
  OBVIOUS
<1> HIDE DEF k, h
<1>7. /\ r \in MemTypes /\ Counted(r, l) /\ r.roots = m.roots /\ r.pt = m.pt
      /\ \A f \in m.stale : f \in r.stale \/ l[f] = 0
  <2>1. /\ r \in MemTypes /\ Counted(r, l) /\ r.roots = t.roots /\ r.pt = t.pt
        /\ \A f \in t.stale : f \in r.stale \/ l[f] = 0
    BY ZenonT(40), <1>1, <1>3, <1>4, <1>5, <1>6, Releases
  <2> QED
    BY <1>1, <2>1
<1>8. Returned(m, n) = r
  BY DEF Returned, r, t, R, k
<1> HIDE DEF r
<1>9. Refs(r, ob) = l
  BY <1>7, SameTables DEF l
<1>10. Calm(m, ob, r, ob) /\ FramesKept(ob, ob)
  BY <1>3, <1>7, <1>9 DEF Calm, FramesKept, l
<1>11. \A q \in Procs : Untouched(m, r, pr[q], pr[q])
  BY <1>7 DEF Untouched, Good, HasSpace
<1>12. Rings(ob) /\ \A q \in Procs : \A y \in pr[q].fds : ob[y].alive
  BY DEF Good
<1>13. Good(r, pr, ob)
  BY <1>0, <1>7, <1>9, <1>10, <1>11, <1>12, StaysGood
<1> QED
  BY <1>8, <1>13

(***************************************************************************)
(* A port is closed: its ring releases its frames.                         *)
(***************************************************************************)
LEMMA PortCloses ==
  ASSUME Good(mem, proc, obj), NEW o \in Objects, obj[o].port
  PROVE  Good(Released(mem, HeldBy(obj[o].ring)), proc,
              [x \in Objects |-> IF x \in obj[o].ring THEN [obj[x] EXCEPT !.port = FALSE]
                                 ELSE obj[x]])
<1> DEFINE S == obj[o].ring
           ob2 == [x \in Objects |-> IF x \in S THEN [obj[x] EXCEPT !.port = FALSE] ELSE obj[x]]
           r == Released(mem, HeldBy(S))
<1>0. /\ mem \in MemTypes /\ proc \in [Procs -> ProcTypes] /\ obj \in [Objects -> ObjTypes]
      /\ Counted(mem, Refs(mem, obj)) /\ Rings(obj)
  BY DEF Good
<1>1. S \in SUBSET Objects /\ \A x \in S : obj[x].port /\ obj[x].ring = S /\ ~obj[x].owned
  <2>1. S \in SUBSET Objects
    BY <1>0 DEF ObjTypes
  <2> QED
    BY <1>0, <2>1 DEF Rings
<1>2. \A x \in Objects : x \notin S /\ obj[x].port => obj[x].ring \cap S = {}
  BY <1>0, <1>1 DEF Rings
<1> HIDE DEF S
<1>3. \A x \in Objects :
        /\ obj[x] \in ObjTypes /\ ob2[x] \in ObjTypes /\ ob2[x].frames = obj[x].frames
        /\ ob2[x].owned = obj[x].owned /\ ob2[x].alive = obj[x].alive
        /\ ob2[x].ring = obj[x].ring /\ obj[x].ring \subseteq Objects
        /\ x \in S => ~ob2[x].port
        /\ x \notin S => ob2[x] = obj[x]
  <2> TAKE x \in Objects
  <2> DEFINE y == obj[x]
             z == [y EXCEPT !.port = FALSE]
  <2>1. y \in ObjTypes /\ ob2[x] = IF x \in S THEN z ELSE y
    BY <1>0
  <2> HIDE DEF y, ob2
  <2>2. /\ z \in ObjTypes /\ z.frames = y.frames /\ z.owned = y.owned /\ z.alive = y.alive
        /\ z.ring = y.ring /\ z.port = FALSE /\ y.ring \subseteq Objects
    BY <2>1 DEF ObjTypes
  <2> HIDE DEF z
  <2>3. CASE x \in S
    BY <2>1, <2>2, <2>3 DEF y
  <2>4. CASE x \notin S
    BY <2>1, <2>2, <2>4 DEF y
  <2> QED
    BY <2>3, <2>4
<1>4. ob2 \in [Objects -> ObjTypes]
  BY <1>3
<1> HIDE DEF ob2
<1>5. /\ \A y \in S : Owns(obj[y]) /\ ~Owns(ob2[y])
      /\ \A y \in Objects \ S : Owns(ob2[y]) <=> Owns(obj[y])
      /\ \A y \in Objects : ob2[y].frames = obj[y].frames
  BY <1>1, <1>3 DEF Owns
<1>6. /\ r \in MemTypes /\ r.roots = mem.roots /\ r.pt = mem.pt
      /\ Counted(r, Refs(r, ob2)) /\ Calm(mem, obj, r, ob2)
  BY <1>0, <1>1, <1>4, <1>5, LetsGo
<1> HIDE DEF r
<1>7. \A q \in Procs : Untouched(mem, r, proc[q], proc[q])
  BY <1>6 DEF Untouched, Good, HasSpace
<1>8. Rings(ob2)
  <2> SUFFICES ASSUME NEW y \in Objects, ob2[y].port
               PROVE  /\ ~ob2[y].owned /\ y \in ob2[y].ring
                      /\ \A x \in ob2[y].ring : ob2[x].port /\ ob2[x].ring = ob2[y].ring
    BY DEF Rings
  <2>1. y \notin S /\ ob2[y] = obj[y] /\ obj[y].port
    BY <1>3
  <2>2. obj[y].ring \cap S = {} /\ obj[y].ring \subseteq Objects
    BY <1>2, <1>3, <2>1
  <2> QED
    BY <1>0, <1>3, <2>1, <2>2 DEF Rings
<1>9. \A q \in Procs : \A y \in proc[q].fds : ob2[y].alive
  <2>1. \A q \in Procs : \A y \in proc[q].fds : obj[y].alive /\ y \in Objects
    BY <1>0 DEF Good, ProcTypes
  <2> QED
    BY <1>3, <2>1
<1>10. FramesKept(obj, ob2)
  BY <1>5 DEF FramesKept
<1>11. Good(r, proc, ob2)
  BY <1>0, <1>4, <1>6, <1>7, <1>8, <1>9, <1>10, StaysGood
<1> QED
  BY <1>11 DEF r, ob2, S

(***************************************************************************)
(* A process gets a new address space, with image and stack only.          *)
(***************************************************************************)
LEMMA LoadStep ==
  ASSUME NEW m, NEW pr, NEW ob, Good(m, pr, ob), NEW p \in Procs, CanLoad(m),
         NEW new \in ProcTypes, new.state = "live", new.root = AvailSeq(m)[1],
         new.brk = BrkBase, new.vmas = {}, new.fds \subseteq pr[p].fds
  PROVE  /\ Good(Loaded(m), [pr EXCEPT ![p] = new], ob)
         /\ AvailSeq(m)[1] \notin m.roots /\ m.roots \subseteq Loaded(m).roots
<1> DEFINE t == Loaded(m)
           root == AvailSeq(m)[1]
           pr2 == [pr EXCEPT ![p] = new]
<1>0. /\ m \in MemTypes /\ pr \in [Procs -> ProcTypes] /\ ob \in [Objects -> ObjTypes]
      /\ Counted(m, Refs(m, ob))
  BY DEF Good
<1>1. /\ root \in Frames \ m.roots /\ t \in MemTypes /\ t.roots = m.roots \cup {root}
      /\ \A r \in Frames \ {root} : t.pt[r] = m.pt[r]
      /\ Counted(t, Refs(t, ob)) /\ Calm(m, ob, t, ob)
      /\ t.pt[root][TopPage] # NoPage
      /\ Refs(t, ob)[t.pt[root][TopPage].frame] = 1
  BY <1>0, LoadedFacts
<1>2. new.root = root
  OBVIOUS
<1>3. /\ pr2 \in [Procs -> ProcTypes] /\ pr2[p] = new
      /\ \A q \in Procs \ {p} : pr2[q] = pr[q]
  BY <1>0
<1> HIDE DEF t, root, pr2
<1>4. Heap(new) = {}
  BY DEF Heap, BrkBase
<1>5. SpaceOk(t.pt[root], new, ob)
  BY <1>1, <1>4 DEF SpaceOk, GoodVmas
<1>6. Alone(t.pt[root], new, t, ob)
  <2>1. \A i \in Pages : Private(new, i) => i = TopPage
    BY <1>4 DEF Private
  <2> QED
    BY <1>1, <2>1 DEF Alone, Sole
<1>7. HasSpace(t, new, ob)
  BY <1>1, <1>2, <1>5, <1>6 DEF HasSpace
<1>8. \A q \in Procs : Untouched(m, t, pr[q], pr2[q]) \/ HasSpace(t, pr2[q], ob)
  <2> TAKE q \in Procs
  <2>1. CASE q = p
    BY <1>3, <1>7, <2>1
  <2>2. CASE q # p /\ pr[q].state = "live"
    <3>1. pr[q].root \in m.roots
      BY <2>2 DEF Good, HasSpace
    <3>2. pr[q].root \in Frames \ {root} /\ pr[q].root \in t.roots
      BY <1>0, <1>1, <3>1 DEF MemTypes
    <3> QED
      BY <1>1, <1>3, <2>2, <3>2 DEF Untouched
  <2>3. CASE q # p /\ pr[q].state # "live"
    BY <1>3, <2>3 DEF Untouched
  <2> QED
    BY <2>1, <2>2, <2>3
<1>9. /\ Rings(ob)
      /\ \A q \in Procs : \A y \in pr2[q].fds : ob[y].alive
  BY <1>3 DEF Good
<1>10. FramesKept(ob, ob)
  BY DEF FramesKept
<1>11. Good(t, pr2, ob)
  BY <1>0, <1>1, <1>3, <1>8, <1>9, <1>10, StaysGood
<1> QED
  BY <1>1, <1>11 DEF t, pr2, root

-----------------------------------------------------------------------------
(***************************************************************************)
(* A process that runs has its address space for itself.                   *)
(***************************************************************************)
LEMMA Running ==
  ASSUME MemoryInv, NEW p \in Procs, Runs(p)
  PROVE  Exclusive(proc, p) /\ proc[p].state = "live" /\ proc[p].shared = FALSE
<1>1. proc[p] \in ProcTypes
  BY DEF MemoryInv, Good
<1>2. proc[p].shared \in BOOLEAN
  BY <1>1 DEF ProcTypes
<1> QED
  BY <1>2 DEF Runs, Live, Exclusive

(***************************************************************************)
(* A call is about one page or more.                                       *)
(***************************************************************************)
LEMMA CallLengths ==
  ASSUME MemoryInv, NEW len \in Lens
  PROVE  len \in Nat /\ len >= 1
<1>1. load.len \in Nat
  BY MemoryAssumption DEF MemoryInv
<1> QED
  BY <1>1 DEF Lens

\* A process has another VMA map.
WithVmas(pr, p, W) == [pr EXCEPT ![p].vmas = W]

(***************************************************************************)
(* It keeps its address space, and the last map set is the one it has.     *)
(***************************************************************************)
LEMMA VmasSet ==
  ASSUME NEW pr \in [Procs -> ProcTypes], NEW p \in Procs, Exclusive(pr, p), NEW W, NEW X
  PROVE  LET pr1 == WithVmas(pr, p, W)
         IN  /\ Exclusive(pr1, p) /\ pr1[p].root = pr[p].root /\ pr1[p].vmas = W
             /\ WithVmas(pr1, p, X) = WithVmas(pr, p, X)
<1> DEFINE P == pr[p]
           pr1 == [pr EXCEPT ![p].vmas = W]
<1>1. P \in ProcTypes
  OBVIOUS
<1>2. /\ pr1[p] = [P EXCEPT !.vmas = W] /\ DOMAIN pr1 = Procs
      /\ \A q \in Procs \ {p} : pr1[q] = pr[q]
  OBVIOUS
<1>3. [P EXCEPT !.vmas = W].vmas = W
  <2> HIDE DEF P
  <2> QED
    BY <1>1 DEF ProcTypes
<1>4. /\ [P EXCEPT !.vmas = W].root = P.root /\ [P EXCEPT !.vmas = W].state = P.state
      /\ [[P EXCEPT !.vmas = W] EXCEPT !.vmas = X] = [P EXCEPT !.vmas = X]
  <2> HIDE DEF P
  <2> QED
    BY <1>1 DEF ProcTypes
<1>5. [pr1 EXCEPT ![p].vmas = X] = [pr EXCEPT ![p].vmas = X]
  <2>1. /\ [pr1 EXCEPT ![p].vmas = X] = [q \in Procs |-> IF q = p THEN [pr1[p] EXCEPT !.vmas = X]
                                                            ELSE pr1[q]]
        /\ [pr EXCEPT ![p].vmas = X] = [q \in Procs |-> IF q = p THEN [P EXCEPT !.vmas = X]
                                                           ELSE pr[q]]
    OBVIOUS
  <2> HIDE DEF P, pr1
  <2> QED
    BY <1>2, <1>4, <2>1
<1> QED
  BY <1>2, <1>3, <1>4, <1>5 DEF Exclusive, WithVmas

(***************************************************************************)
(* mmap at the highest gap, anonymous or of a file.                        *)
(***************************************************************************)
LEMMA MmapKeeps ==
  ASSUME MemoryInv, NEW p \in Procs, Mmap(p)
  PROVE  Good(mem', proc', obj')
<1>0. Good(mem, proc, obj) /\ Exclusive(proc, p) /\ proc[p].state = "live"
  BY Running DEF MemoryInv, Mmap
<1> DEFINE base(len) == find_gap_topdown(proc[p].vmas, len)
           root == proc[p].root
<1>1. PICK len \in Lens :
        /\ base(len) # 0 /\ mem' = NewPages(mem, root, base(len), len, "rw")
        /\ proc' = IF NewPagesOk(mem, root, base(len), len)
                   THEN [proc EXCEPT ![p].vmas = @ \cup {Vma(base(len), len, "rw", "private")}]
                   ELSE proc
  BY DEF Mmap
<1>2. obj' = obj
  BY DEF Mmap
<1> DEFINE b == base(len)
<1>3. len \in Nat /\ len >= 1
  BY CallLengths
<1>4. b \in Pages /\ b + len <= MMAP_CEILING
  <2>1. proc[p].vmas \in SUBSET Vmas
    BY <1>0, OwnSpace DEF GoodVmas
  <2>2. b \in Nat /\ MMAP_FLOOR <= b /\ b + len <= MMAP_CEILING
    BY <1>1, <1>3, <2>1, GapInRegion
  <2> HIDE DEF b
  <2> QED
    BY <1>3, <2>2, MemoryAssumption DEF Pages, BrkBase
<1> HIDE DEF b
<1>5. /\ Good(NewPages(mem, root, b, len, "rw"), proc, obj)
      /\ NewPagesOk(mem, root, b, len) =>
           Good(NewPages(mem, root, b, len, "rw"),
                [proc EXCEPT ![p].vmas = proc[p].vmas \cup {Vma(b, len, "rw", "private")}], obj)
  BY <1>0, <1>3, <1>4, MapsNew
<1>6. CASE NewPagesOk(mem, root, b, len)
  BY <1>1, <1>2, <1>5, <1>6 DEF b
<1>7. CASE ~NewPagesOk(mem, root, b, len)
  BY <1>1, <1>2, <1>5, <1>7 DEF b
<1> QED
  BY <1>6, <1>7

(***************************************************************************)
(* mmap with MAP_FIXED, over whatever is mapped there.                     *)
(***************************************************************************)
LEMMA MmapFixedKeeps ==
  ASSUME MemoryInv, NEW p \in Procs, MmapFixed(p)
  PROVE  Good(mem', proc', obj')
<1>0. Good(mem, proc, obj) /\ Exclusive(proc, p) /\ proc[p].state = "live"
  BY Running DEF MemoryInv, MmapFixed
<1> DEFINE root == proc[p].root
           V == proc[p].vmas
           cut(start, len) == munmap_vmas(V, start, len)
           m(start, len) == Unmapped(mem, root, Covered(V, start, len))
<1>1. PICK len \in Lens, start \in BrkBase .. MMAP_CEILING - 1 :
        /\ start + len <= MMAP_CEILING
        /\ mem' = NewPages(m(start, len), root, start, len, "rw")
        /\ proc' = [proc EXCEPT ![p].vmas =
                      IF NewPagesOk(m(start, len), root, start, len)
                      THEN cut(start, len) \cup {Vma(start, len, "rw", "private")}
                      ELSE cut(start, len)]
  BY DEF MmapFixed
<1>2. obj' = obj
  BY DEF MmapFixed
<1>3. len \in Nat /\ len >= 1
  BY CallLengths
<1>4. start \in Nat /\ start \in Pages
  BY MemoryAssumption DEF Pages, BrkBase
<1> DEFINE u == m(start, len)
           W == cut(start, len)
           pr1 == WithVmas(proc, p, W)
           X == W \cup {Vma(start, len, "rw", "private")}
<1>5. Good(u, pr1, obj)
  BY <1>0, <1>3, <1>4, MunmapStep DEF WithVmas
<1>6. proc \in [Procs -> ProcTypes]
  BY <1>0 DEF Good
<1> HIDE DEF u, W, X
<1>7. /\ Exclusive(pr1, p) /\ pr1[p].root = proc[p].root /\ pr1[p].vmas = W
      /\ WithVmas(pr1, p, X) = WithVmas(proc, p, X)
  BY <1>0, <1>6, VmasSet
<1> HIDE DEF pr1
<1>8. /\ Good(NewPages(u, pr1[p].root, start, len, "rw"), pr1, obj)
      /\ NewPagesOk(u, pr1[p].root, start, len) =>
           Good(NewPages(u, pr1[p].root, start, len, "rw"),
                [pr1 EXCEPT ![p].vmas = pr1[p].vmas \cup {Vma(start, len, "rw", "private")}], obj)
  BY <1>1, <1>3, <1>4, <1>5, <1>7, MapsNew
<1>9. X = pr1[p].vmas \cup {Vma(start, len, "rw", "private")}
  BY <1>7 DEF X
<1>10. CASE NewPagesOk(u, root, start, len)
  <2>1. mem' = NewPages(u, root, start, len, "rw") /\ proc' = WithVmas(proc, p, X)
    BY <1>1, <1>10 DEF u, W, X, WithVmas
  <2> QED
    BY <1>2, <1>7, <1>8, <1>9, <1>10, <2>1 DEF WithVmas
<1>11. CASE ~NewPagesOk(u, root, start, len)
  <2>1. mem' = NewPages(u, root, start, len, "rw") /\ proc' = pr1
    BY <1>1, <1>11 DEF u, W, pr1, WithVmas
  <2> QED
    BY <1>2, <1>7, <1>8, <2>1
<1> QED
  BY <1>10, <1>11

(***************************************************************************)
(* An object that a process may map owns its frames, or is a page of a     *)
(* dropped ring.                                                           *)
(***************************************************************************)
LEMMA MappableOwns ==
  ASSUME MemoryInv, NEW p \in Procs, NEW o \in Objects, Mappable(p, o)
  PROVE  /\ RingGone(o) \in BOOLEAN /\ (~RingGone(o) => Owns(obj[o]))
         /\ Len(obj[o].frames) \in Nat
<1>1. obj[o].alive
  BY DEF MemoryInv, Good, Mappable
<1>2. obj[o] \in ObjTypes
  BY DEF MemoryInv, Good
<1> QED
  BY <1>1, <1>2 DEF RingGone, Owns, ObjTypes

(***************************************************************************)
(* mmap of a shared object, at the highest gap.                            *)
(***************************************************************************)
LEMMA MmapSharedKeeps ==
  ASSUME MemoryInv, NEW p \in Procs, MmapShared(p), Clear(mem')
  PROVE  Good(mem', proc', obj')
<1>0. Good(mem, proc, obj) /\ Exclusive(proc, p) /\ proc[p].state = "live"
  BY Running DEF MemoryInv, MmapShared
<1> DEFINE base(len) == find_gap_topdown(proc[p].vmas, len)
           root == proc[p].root
<1>1. PICK o \in Objects, len \in Lens :
        /\ Mappable(p, o) /\ len <= Len(obj[o].frames) /\ base(len) # 0
        /\ mem' = SharedPages(mem, root, base(len), SubSeq(obj[o].frames, 1, len), "rw",
                              RingGone(o))
        /\ proc' = IF FreeRun(mem, root, base(len), len) = len
                   THEN [proc EXCEPT ![p].vmas = @ \cup {Vma(base(len), len, "rw", o)}]
                   ELSE proc
  BY DEF MmapShared
<1>2. obj' = obj
  BY DEF MmapShared
<1> DEFINE b == base(len)
<1>3. len \in Nat /\ len >= 1
  BY CallLengths
<1>4. b \in Pages /\ b + len <= MMAP_CEILING
  <2>1. proc[p].vmas \in SUBSET Vmas
    BY <1>0, OwnSpace DEF GoodVmas
  <2>2. b \in Nat /\ MMAP_FLOOR <= b /\ b + len <= MMAP_CEILING
    BY <1>1, <1>3, <2>1, GapInRegion
  <2> HIDE DEF b
  <2> QED
    BY <1>3, <2>2, MemoryAssumption DEF Pages, BrkBase
<1> HIDE DEF b
<1> DEFINE gone == RingGone(o)
           m2 == SharedPages(mem, root, b, SubSeq(obj[o].frames, 1, len), "rw", gone)
<1>5. gone \in BOOLEAN /\ (~gone => Owns(obj[o])) /\ Clear(m2) /\ mem' = m2
  BY <1>1, MappableOwns DEF b
<1> HIDE DEF gone
<1>6. /\ Good(m2, proc, obj)
      /\ FreeRun(mem, root, b, len) = len =>
           Good(m2, [proc EXCEPT ![p].vmas = proc[p].vmas \cup {Vma(b, len, "rw", o)}], obj)
  BY <1>0, <1>1, <1>3, <1>4, <1>5, MapsShared
<1> HIDE DEF m2
<1>8. CASE FreeRun(mem, root, b, len) = len
  BY <1>1, <1>2, <1>5, <1>6, <1>8 DEF b
<1>9. CASE FreeRun(mem, root, b, len) # len
  BY <1>1, <1>2, <1>5, <1>6, <1>9 DEF b
<1> QED
  BY <1>8, <1>9

(***************************************************************************)
(* mmap of a shared object with MAP_FIXED.                                 *)
(***************************************************************************)
LEMMA MmapSharedFixedKeeps ==
  ASSUME MemoryInv, NEW p \in Procs, MmapSharedFixed(p), Clear(mem')
  PROVE  Good(mem', proc', obj')
<1>0. Good(mem, proc, obj) /\ Exclusive(proc, p) /\ proc[p].state = "live"
  BY Running DEF MemoryInv, MmapSharedFixed
<1> DEFINE root == proc[p].root
           V == proc[p].vmas
           cut(start) == munmap_vmas(V, start, 1)
           m(start) == Unmapped(mem, root, Covered(V, start, 1))
<1>1. PICK o \in Objects, start \in MMAP_FLOOR .. MMAP_CEILING - 1 :
        /\ Mappable(p, o) /\ obj[o].frames # <<>>
        /\ mem' = SharedPages(m(start), root, start, SubSeq(obj[o].frames, 1, 1), "rw",
                              RingGone(o))
        /\ proc' = [proc EXCEPT ![p].vmas =
                      IF FreeRun(m(start), root, start, 1) = 1
                      THEN cut(start) \cup {Vma(start, 1, "rw", o)} ELSE cut(start)]
  BY DEF MmapSharedFixed
<1>2. obj' = obj
  BY DEF MmapSharedFixed
<1>3. start \in Nat /\ start \in Pages /\ start + 1 <= MMAP_CEILING
  BY MemoryAssumption DEF Pages, BrkBase
<1> DEFINE gone == RingGone(o)
<1>4. gone \in BOOLEAN /\ (~gone => Owns(obj[o])) /\ 1 <= Len(obj[o].frames)
  <2>1. obj[o].frames \in Seq(Frames)
    BY <1>0 DEF Good, ObjTypes
  <2>2. gone \in BOOLEAN /\ (~gone => Owns(obj[o]))
    BY <1>1, MappableOwns
  <2> QED
    BY <1>1, <2>1, <2>2
<1> DEFINE u == m(start)
           W == cut(start)
           pr1 == WithVmas(proc, p, W)
           X == W \cup {Vma(start, 1, "rw", o)}
<1>5. Good(u, pr1, obj)
  <2>1. 1 \in Nat /\ 1 >= 1
    OBVIOUS
  <2> QED
    BY <1>0, <1>3, <2>1, MunmapStep DEF WithVmas
<1>6. proc \in [Procs -> ProcTypes]
  BY <1>0 DEF Good
<1> HIDE DEF u, W, X
<1>7. /\ Exclusive(pr1, p) /\ pr1[p].root = proc[p].root /\ pr1[p].vmas = W
      /\ WithVmas(pr1, p, X) = WithVmas(proc, p, X)
  BY <1>0, <1>6, VmasSet
<1> HIDE DEF pr1
<1> DEFINE m2 == SharedPages(u, pr1[p].root, start, SubSeq(obj[o].frames, 1, 1), "rw", gone)
<1>71. mem' = m2 /\ Clear(m2)
  BY <1>1, <1>7 DEF u
<1> HIDE DEF gone
<1>8. /\ Good(m2, pr1, obj)
      /\ FreeRun(u, pr1[p].root, start, 1) = 1 =>
           Good(m2, [pr1 EXCEPT ![p].vmas = pr1[p].vmas \cup {Vma(start, 1, "rw", o)}], obj)
  <2> DEFINE n == 1
  <2>1. n \in Nat /\ n >= 1 /\ n <= Len(obj[o].frames) /\ start + n <= MMAP_CEILING
    BY <1>3, <1>4
  <2>2. n = 1
    OBVIOUS
  <2> HIDE DEF n
  <2>4. Clear(SharedPages(u, pr1[p].root, start, SubSeq(obj[o].frames, 1, n), "rw", gone))
    BY <1>71, <2>2
  <2>3. LET m3 == SharedPages(u, pr1[p].root, start, SubSeq(obj[o].frames, 1, n), "rw", gone)
        IN  /\ Good(m3, pr1, obj)
            /\ FreeRun(u, pr1[p].root, start, n) = n =>
                 Good(m3, [pr1 EXCEPT ![p].vmas = pr1[p].vmas \cup {Vma(start, n, "rw", o)}], obj)
    BY <1>3, <1>4, <1>5, <1>7, <2>1, <2>4, MapsShared
  <2> QED
    BY <2>2, <2>3
<1>9. X = pr1[p].vmas \cup {Vma(start, 1, "rw", o)} /\ mem' = m2
  BY <1>7, <1>71 DEF X
<1> HIDE DEF m2
<1>10. CASE FreeRun(u, root, start, 1) = 1
  <2>1. proc' = WithVmas(proc, p, X)
    BY <1>1, <1>10 DEF u, W, X, WithVmas
  <2> QED
    BY <1>2, <1>7, <1>8, <1>9, <1>10, <2>1 DEF WithVmas
<1>11. CASE FreeRun(u, root, start, 1) # 1
  <2>1. proc' = pr1
    BY <1>1, <1>11 DEF u, W, pr1, WithVmas
  <2> QED
    BY <1>2, <1>7, <1>8, <1>9, <2>1
<1> QED
  BY <1>10, <1>11

(***************************************************************************)
(* munmap.                                                                 *)
(***************************************************************************)
LEMMA MunmapKeeps ==
  ASSUME MemoryInv, NEW p \in Procs, Munmap(p)
  PROVE  Good(mem', proc', obj')
<1>0. Good(mem, proc, obj) /\ Exclusive(proc, p)
  BY Running DEF MemoryInv, Munmap
<1>1. PICK start \in MMAP_FLOOR .. MMAP_CEILING - 1, len \in Lens :
        /\ mem' = Unmapped(mem, proc[p].root, Covered(proc[p].vmas, start, len))
        /\ proc' = [proc EXCEPT ![p].vmas = munmap_vmas(proc[p].vmas, start, len)]
  BY DEF Munmap
<1>2. obj' = obj
  BY DEF Munmap
<1>3. len \in Nat /\ len >= 1 /\ start \in Nat
  BY CallLengths, MemoryAssumption
<1> QED
  BY <1>0, <1>1, <1>2, <1>3, MunmapStep

(***************************************************************************)
(* mprotect.                                                               *)
(***************************************************************************)
LEMMA MprotectKeeps ==
  ASSUME MemoryInv, NEW p \in Procs, Mprotect(p)
  PROVE  Good(mem', proc', obj')
<1>0. Good(mem, proc, obj) /\ Exclusive(proc, p)
  BY Running DEF MemoryInv, Mprotect
<1> DEFINE range(start, len) == Covered(proc[p].vmas, start, len)
           r == proc[p].root
<1>1. PICK start \in MMAP_FLOOR .. MMAP_CEILING - 1, len \in Lens, prot \in Prots :
        /\ proc' = [proc EXCEPT ![p].vmas = mprotect_vmas(proc[p].vmas, start, len, prot)]
        /\ mem' = [mem EXCEPT !.pt[r] = Protected(mem.pt[r], range(start, len), prot)]
  BY DEF Mprotect
<1>2. obj' = obj
  BY DEF Mprotect
<1>3. len \in Nat /\ len >= 1 /\ start \in Nat
  BY CallLengths, MemoryAssumption
<1>4. mem' = WithTable(mem, r, Protected(mem.pt[r], range(start, len), prot), mem.left,
                       mem.stale)
  <2> DEFINE T2 == Protected(mem.pt[r], range(start, len), prot)
  <2>1. mem \in MemTypes /\ mem' = [mem EXCEPT !.pt[r] = T2]
    BY <1>0, <1>1 DEF Good
  <2> HIDE DEF T2, r
  <2>2. mem' = WithTable(mem, r, T2, mem.left, mem.stale)
    BY <2>1 DEF MemTypes, WithTable
  <2> QED
    BY <2>2 DEF T2
<1>5. Good(WithTable(mem, r, Protected(mem.pt[r], range(start, len), prot), mem.left, mem.stale),
           [proc EXCEPT ![p].vmas = mprotect_vmas(proc[p].vmas, start, len, prot)], obj)
  BY <1>0, <1>3, MprotectStep
<1> QED
  BY <1>1, <1>2, <1>4, <1>5

(***************************************************************************)
(* brk, in both directions.                                                *)
(***************************************************************************)
LEMMA BrkKeeps ==
  ASSUME MemoryInv, NEW p \in Procs, Brk(p), Clear(mem')
  PROVE  Good(mem', proc', obj')
<1>0. Good(mem, proc, obj) /\ Exclusive(proc, p)
  BY Running DEF MemoryInv, Brk
<1> DEFINE old == proc[p].brk
           root == proc[p].root
<1>1. PICK brk \in BrkBase .. MMAP_FLOOR :
        \/ /\ brk < old /\ mem' = Freed(mem, root, brk .. old - 1)
           /\ proc' = [proc EXCEPT ![p].brk = brk]
        \/ /\ brk > old /\ mem' = NewPages(mem, root, old, brk - old, "rw")
           /\ proc' = IF NewPagesOk(mem, root, old, brk - old)
                      THEN [proc EXCEPT ![p].brk = brk] ELSE proc
  BY DEF Brk
<1>2. obj' = obj
  BY DEF Brk
<1>3. CASE /\ brk < old /\ mem' = Freed(mem, root, brk .. old - 1)
           /\ proc' = [proc EXCEPT ![p].brk = brk]
  BY <1>0, <1>2, <1>3, BrkShrinks
<1>4. CASE /\ brk > old /\ mem' = NewPages(mem, root, old, brk - old, "rw")
           /\ proc' = IF NewPagesOk(mem, root, old, brk - old)
                      THEN [proc EXCEPT ![p].brk = brk] ELSE proc
  <2>1. /\ Good(NewPages(mem, root, old, brk - old, "rw"), proc, obj)
        /\ NewPagesOk(mem, root, old, brk - old) =>
             Good(NewPages(mem, root, old, brk - old, "rw"), [proc EXCEPT ![p].brk = brk], obj)
    BY <1>0, <1>4, BrkGrows
  <2> QED
    BY <1>2, <1>4, <2>1
<1> QED
  BY <1>1, <1>3, <1>4

(***************************************************************************)
(* shmem_create, whether or not there are frames enough.                   *)
(***************************************************************************)
LEMMA ShmemCreateKeeps ==
  ASSUME MemoryInv, NEW p \in Procs, ShmemCreate(p)
  PROVE  Good(mem', proc', obj')
<1>0. Good(mem, proc, obj) /\ proc[p].state = "live"
  BY Running DEF MemoryInv, ShmemCreate
<1> DEFINE avail == AvailSeq(mem)
           got(n) == Min({n, Len(avail)})
<1>1. PICK o \in Objects, n \in Lens :
        /\ obj[o] = NoObject
        /\ \/ /\ got(n) = n /\ mem' = Taken(mem, n)
              /\ obj' = [obj EXCEPT ![o] = NewObject(n)]
              /\ proc' = [proc EXCEPT ![p].fds = proc[p].fds \cup {o}]
           \/ /\ got(n) < n
              /\ mem' = [Taken(mem, got(n)) EXCEPT
                           !.lost = @ \cup Range(SubSeq(avail, 1, got(n)))]
              /\ proc' = proc /\ obj' = obj
           \/ /\ got(n) = n /\ mem' = Returned(mem, n)
              /\ proc' = proc /\ obj' = obj
  BY DEF ShmemCreate
<1>2. n \in Nat
  BY CallLengths
<1>3. avail \in Seq(Frames) /\ Len(avail) \in Nat /\ obj \in [Objects -> ObjTypes]
  <2>1. mem \in MemTypes /\ (\A f \in mem.free : f < mem.next) /\ obj \in [Objects -> ObjTypes]
    BY <1>0 DEF Good, Counted
  <2> QED
    BY <2>1, AvailFacts
<1> DEFINE k == got(n)
<1>4. k \in 0 .. Len(avail)
  <2>1. Min({n, Len(avail)}) = IF n <= Len(avail) THEN n ELSE Len(avail)
    BY <1>2, <1>3, OfTwo
  <2> QED
    BY <1>2, <1>3, <2>1
<1> HIDE DEF k
<1>5. CASE /\ mem' = [Taken(mem, k) EXCEPT !.lost = @ \cup Range(SubSeq(avail, 1, k))]
           /\ proc' = proc /\ obj' = obj
  BY <1>0, <1>4, <1>5, LosesFrames
<1>6. CASE k = n /\ mem' = Returned(mem, n) /\ proc' = proc /\ obj' = obj
  BY <1>0, <1>4, <1>6, ReturnsFrames
<1>7. CASE /\ k = n /\ mem' = Taken(mem, n) /\ obj' = [obj EXCEPT ![o] = NewObject(n)]
           /\ proc' = [proc EXCEPT ![p].fds = proc[p].fds \cup {o}]
  <2> DEFINE x == NewObject(n)
             ob2 == [obj EXCEPT ![o] = x]
             s == SubSeq(AvailSeq(mem), 1, n)
  <2>1. /\ x \in ObjTypes /\ Owns(x) /\ x.alive /\ x.frames = s /\ x.port = FALSE
    <3>1. SubSeq(avail, 1, n) \in Seq(Frames)
      <4> HIDE DEF avail
      <4> QED
        BY <1>3, <1>4, <1>7
    <3> QED
      BY <3>1 DEF NewObject, ObjTypes, Owns
  <2>2. n \in 0 .. Len(AvailSeq(mem)) /\ obj[o] = NoObject
    BY <1>1, <1>4, <1>7
  <2> HIDE DEF x, s
  <2>3. /\ ob2 \in [Objects -> ObjTypes] /\ ob2[o] = x
        /\ \A y \in Objects \ {o} : ob2[y] = obj[y]
    BY <1>3, <2>1
  <2> HIDE DEF ob2
  <2>4. Rings(ob2)
    <3>1. Rings(obj) /\ obj[o].port = FALSE
      BY <1>0, <2>2 DEF Good, NoObject
    <3>2. \A y \in Objects : obj[y].ring \subseteq Objects
      BY <1>3 DEF ObjTypes
    <3>3. \A y \in Objects : ob2[y].port => ob2[y] = obj[y]
      BY <2>1, <2>3
    <3> QED
      BY <2>3, <3>1, <3>2, <3>3 DEF Rings
  <2> DEFINE S == {o}
  <2>5. /\ S \in SUBSET Objects
        /\ \A y \in S : obj[y] = NoObject /\ Owns(ob2[y]) /\ ob2[y].alive
        /\ \A y \in Objects \ S : ob2[y] = obj[y]
        /\ \A y \in S : Range(ob2[y].frames) \subseteq Range(s)
        /\ \A f \in Range(s) : \E y \in S :
             f \in Range(ob2[y].frames) /\ \A z \in S : f \in Range(ob2[z].frames) => z = y
    BY <2>1, <2>2, <2>3
  <2> HIDE DEF S
  <2>6. Good(Taken(mem, n), [proc EXCEPT ![p].fds = proc[p].fds \cup S], ob2)
    BY <1>0, <2>2, <2>3, <2>4, <2>5, MakesObjects DEF s
  <2> QED
    BY <1>7, <2>6 DEF S, ob2, x
<1> QED
  BY <1>1, <1>5, <1>6, <1>7 DEF k

(***************************************************************************)
(* io_setup_rings: two pages, two descriptors.                             *)
(***************************************************************************)
LEMMA SetupRingsKeeps ==
  ASSUME MemoryInv, NEW p \in Procs, SetupRings(p)
  PROVE  Good(mem', proc', obj')
<1>0. Good(mem, proc, obj) /\ proc[p].state = "live"
  BY Running DEF MemoryInv, SetupRings
<1> DEFINE avail == AvailSeq(mem)
<1>1. PICK sq \in Objects, cq \in Objects :
        /\ sq # cq /\ obj[sq] = NoObject /\ obj[cq] = NoObject
        /\ obj' = [obj EXCEPT ![sq] = RingPage(avail[1], {sq, cq}),
                              ![cq] = RingPage(avail[2], {sq, cq})]
        /\ proc' = [proc EXCEPT ![p].fds = proc[p].fds \cup {sq, cq}]
  BY DEF SetupRings
<1>2. mem' = Taken(mem, 2) /\ Len(avail) >= 2
  BY DEF SetupRings
<1>3. /\ avail \in Seq(Frames) /\ Len(avail) \in Nat /\ IsInjective(avail)
      /\ obj \in [Objects -> ObjTypes]
  <2>1. mem \in MemTypes /\ (\A f \in mem.free : f < mem.next) /\ obj \in [Objects -> ObjTypes]
    BY <1>0 DEF Good, Counted
  <2> QED
    BY <2>1, AvailFacts
<1> DEFINE a == avail[1]
           b == avail[2]
           S == {sq, cq}
           x == RingPage(a, S)
           y == RingPage(b, S)
           ob2 == [[obj EXCEPT ![sq] = x] EXCEPT ![cq] = y]
           s == SubSeq(AvailSeq(mem), 1, 2)
<1>4. a \in Frames /\ b \in Frames /\ a # b /\ 2 \in 0 .. Len(avail) /\ Range(s) = {a, b}
  <2> HIDE DEF avail
  <2>1. 1 \in DOMAIN avail /\ 2 \in DOMAIN avail /\ 2 \in 0 .. Len(avail)
    BY <1>2, <1>3
  <2>2. Range(SubSeq(avail, 1, 2)) = {avail[i] : i \in 1 .. 2}
    BY <1>2, <1>3, RangeOfPart
  <2>3. 1 .. 2 = {1, 2}
    OBVIOUS
  <2>4. avail[1] # avail[2]
    BY <1>3, <2>1 DEF IsInjective
  <2> QED
    BY <1>3, <2>1, <2>2, <2>3, <2>4 DEF avail
<1> HIDE DEF a, b, s
<1>5. /\ x \in ObjTypes /\ Owns(x) /\ x.alive /\ x.frames = <<a>> /\ x.ring = S
      /\ x.port /\ ~x.owned
      /\ y \in ObjTypes /\ Owns(y) /\ y.alive /\ y.frames = <<b>> /\ y.ring = S
      /\ y.port /\ ~y.owned
  <2>1. S \in SUBSET Objects /\ <<a>> \in Seq(Frames) /\ <<b>> \in Seq(Frames)
    BY <1>4
  <2> HIDE DEF S
  <2> QED
    BY <2>1 DEF RingPage, ObjTypes, Owns
<1> HIDE DEF x, y
<1>6. /\ ob2 \in [Objects -> ObjTypes] /\ ob2[sq] = x /\ ob2[cq] = y
      /\ \A z \in Objects \ S : ob2[z] = obj[z]
  BY <1>1, <1>3, <1>5
<1>7. obj' = ob2
  BY <1>1 DEF ob2, x, y, a, b
<1> HIDE DEF ob2
<1>8. Rings(ob2)
  <2>1. Rings(obj) /\ obj[sq].port = FALSE /\ obj[cq].port = FALSE
    BY <1>0, <1>1 DEF Good, NoObject
  <2>2. \A z \in Objects : obj[z].ring \subseteq Objects
    BY <1>3 DEF ObjTypes
  <2> SUFFICES ASSUME NEW z \in Objects, ob2[z].port
               PROVE  /\ ~ob2[z].owned /\ z \in ob2[z].ring
                      /\ \A w \in ob2[z].ring : ob2[w].port /\ ob2[w].ring = ob2[z].ring
    BY DEF Rings
  <2>3. CASE z \in S
    BY <1>5, <1>6, <2>3
  <2>4. CASE z \notin S
    <3>1. /\ ob2[z] = obj[z] /\ ~obj[z].owned /\ z \in obj[z].ring
          /\ \A w \in obj[z].ring : w \in Objects /\ obj[w].port /\ obj[w].ring = obj[z].ring
      BY <1>6, <2>1, <2>2, <2>4 DEF Rings
    <3>2. \A w \in obj[z].ring : w \notin S
      BY <2>1, <3>1
    <3> QED
      BY <1>6, <3>1, <3>2
  <2> QED
    BY <2>3, <2>4
<1>9. Range(x.frames) = {a} /\ Range(y.frames) = {b}
  <2>1. \A z : DOMAIN <<z>> = {1} /\ <<z>>[1] = z
    OBVIOUS
  <2>2. \A z : Range(<<z>>) = {z}
    BY <2>1 DEF Range
  <2> QED
    BY <1>5, <2>2
<1>10. /\ S \in SUBSET Objects
       /\ \A z \in S : obj[z] = NoObject /\ Owns(ob2[z]) /\ ob2[z].alive
       /\ \A z \in S : Range(ob2[z].frames) \subseteq Range(s)
       /\ \A f \in Range(s) : \E z \in S :
            f \in Range(ob2[z].frames) /\ \A w \in S : f \in Range(ob2[w].frames) => w = z
  BY <1>1, <1>4, <1>5, <1>6, <1>9
<1> HIDE DEF S
<1>11. Good(Taken(mem, 2), [proc EXCEPT ![p].fds = proc[p].fds \cup S], ob2)
  BY <1>0, <1>4, <1>6, <1>8, <1>10, MakesObjects DEF s
<1> QED
  BY <1>1, <1>2, <1>7, <1>11 DEF S

(***************************************************************************)
(* io_setup_rings fails: a frame is lost, or both are given back.          *)
(***************************************************************************)
LEMMA SetupRingsFailsKeeps ==
  ASSUME MemoryInv, NEW p \in Procs, SetupRingsFails(p)
  PROVE  Good(mem', proc', obj')
<1> DEFINE avail == AvailSeq(mem)
<1>0. Good(mem, proc, obj) /\ proc' = proc /\ obj' = obj
  BY DEF MemoryInv, SetupRingsFails
<1>1. avail \in Seq(Frames) /\ Len(avail) \in Nat
  <2>1. mem \in MemTypes /\ \A f \in mem.free : f < mem.next
    BY <1>0 DEF Good, Counted
  <2> QED
    BY <2>1, AvailFacts
<1>2. CASE Len(avail) = 1 /\ mem' = [Taken(mem, 1) EXCEPT !.lost = @ \cup {avail[1]}]
  <2>1. Range(SubSeq(avail, 1, 1)) = {avail[1]}
    <3>0. Len(avail) = 1
      BY <1>2
    <3> HIDE DEF avail
    <3>1. Range(SubSeq(avail, 1, 1)) = {avail[i] : i \in 1 .. 1}
      <4>1. 1 \in Nat /\ 1 <= 1 /\ 1 <= 1 + 1 /\ 1 <= Len(avail)
        BY <3>0
      <4> QED
        BY <1>1, <4>1, RangeOfPart
    <3>2. 1 .. 1 = {1}
      OBVIOUS
    <3> QED
      BY <3>1, <3>2
  <2>2. 1 \in 0 .. Len(AvailSeq(mem))
    BY <1>2
  <2>3. Good([Taken(mem, 1) EXCEPT !.lost = @ \cup Range(SubSeq(AvailSeq(mem), 1, 1))],
             proc, obj)
    BY <1>0, <2>2, LosesFrames
  <2> QED
    BY <1>0, <1>2, <2>1, <2>3
<1>3. CASE Len(avail) >= 2 /\ mem' = Returned(mem, 2)
  <2>1. 2 \in 0 .. Len(AvailSeq(mem))
    BY <1>1, <1>3
  <2> QED
    BY <1>0, <1>3, <2>1, ReturnsFrames
<1> QED
  BY <1>2, <1>3 DEF SetupRingsFails

(***************************************************************************)
(* Descriptors are closed and passed on.                                   *)
(***************************************************************************)
LEMMA CloseFdKeeps ==
  ASSUME MemoryInv, NEW p \in Procs, CloseFd(p)
  PROVE  Good(mem', proc', obj')
<1>0. Good(mem, proc, obj) /\ proc[p].state = "live"
  BY Running DEF MemoryInv, CloseFd
<1>1. PICK o \in proc[p].fds : FdsBecome(mem, [proc EXCEPT ![p].fds = proc[p].fds \ {o}])
  BY DEF CloseFd
<1> DEFINE F == proc[p].fds \ {o}
           pr == [proc EXCEPT ![p].fds = F]
<1>2. F \in SUBSET Objects /\ \A y \in F : obj[y].alive
  <2>1. proc[p] \in ProcTypes
    BY <1>0 DEF Good
  <2> QED
    BY <1>0, <2>1 DEF Good, ProcTypes
<1>3. FdsBecome(mem, pr)
  BY <1>1
<1> HIDE DEF F
<1>4. Good(mem, pr, obj)
  BY <1>0, <1>2, FdsChange
<1> HIDE DEF pr
<1>5. Good(WithoutDropped(mem, pr), pr, ObjectsLeft(pr))
  BY <1>4, DropStep
<1> QED
  BY <1>3, <1>5 DEF FdsBecome

(***************************************************************************)
(* A descriptor is passed to another process.                              *)
(***************************************************************************)
LEMMA PassFdKeeps ==
  ASSUME MemoryInv, NEW p \in Procs, NEW q \in Procs, PassFd(p, q)
  PROVE  Good(mem', proc', obj')
<1>0. Good(mem, proc, obj) /\ proc[q].state = "live"
  BY Running DEF MemoryInv, PassFd
<1>1. PICK o \in proc[p].fds : proc' = [proc EXCEPT ![q].fds = proc[q].fds \cup {o}]
  BY DEF PassFd
<1>2. mem' = mem /\ obj' = obj
  BY DEF PassFd
<1> DEFINE F == proc[q].fds \cup {o}
<1>3. F \in SUBSET Objects /\ \A y \in F : obj[y].alive
  <2>1. proc[p] \in ProcTypes /\ proc[q] \in ProcTypes
    BY <1>0 DEF Good
  <2> QED
    BY <1>0, <2>1 DEF Good, ProcTypes
<1>4. proc' = [proc EXCEPT ![q].fds = F]
  BY <1>1
<1> HIDE DEF F
<1> QED
  BY <1>0, <1>2, <1>3, <1>4, FdsChange

(***************************************************************************)
(* clone: the child has the parent's address space, which stays whole.     *)
(***************************************************************************)
LEMMA CloneKeeps ==
  ASSUME MemoryInv, NEW p \in Procs, NEW c \in Procs, Clone(p, c)
  PROVE  Good(mem', proc', obj')
<1>0. Good(mem, proc, obj) /\ proc[p].state = "live"
  BY Running DEF MemoryInv, Clone
<1> DEFINE P == proc[p]
           Q == [P EXCEPT !.shared = TRUE]
           pr2 == [proc EXCEPT ![c] = Q]
<1>1. mem' = mem /\ obj' = obj /\ proc' = pr2
  BY DEF Clone
<1>2. /\ mem \in MemTypes /\ obj \in [Objects -> ObjTypes] /\ P \in ProcTypes
      /\ P.state = "live" /\ P.root \in mem.roots /\ HasSpace(mem, P, obj)
  BY <1>0, OwnSpace
<1>3. \A o \in P.fds : obj[o].alive
  BY <1>0 DEF Good
<1> HIDE DEF P
<1>4. /\ Q \in ProcTypes /\ Q.state = "live" /\ Q.root = P.root /\ Q.brk = P.brk
      /\ Q.vmas = P.vmas /\ Q.fds = P.fds
  BY <1>2 DEF ProcTypes
<1> HIDE DEF Q
<1>5. HasSpace(mem, Q, obj)
  <2>1. FramesKept(obj, obj) /\ Calm(mem, obj, mem, obj)
    <3>1. \A f \in Frames : Refs(mem, obj)[f] \in Nat
      BY <1>2, RefsFacts
    <3> QED
      BY <3>1 DEF FramesKept, Calm
  <2> QED
    BY <1>2, <1>4, <2>1, OthersKeep
<1>6. proc \in [Procs -> ProcTypes]
  BY <1>0 DEF Good
<1>7. /\ pr2 \in [Procs -> ProcTypes] /\ pr2[c] = Q /\ \A q \in Procs \ {c} : pr2[q] = proc[q]
  BY <1>4, <1>6
<1> HIDE DEF pr2
<1>8. \A q \in Procs : pr2[q] = proc[q] \/ HasSpace(mem, pr2[q], obj)
  BY <1>5, <1>7
<1>9. \A q \in Procs : \A o \in pr2[q].fds : obj[o].alive
  BY <1>0, <1>3, <1>4, <1>7 DEF Good
<1>10. Good(mem, pr2, obj)
  BY <1>0, <1>7, <1>8, <1>9, ProcsChange
<1> QED
  BY <1>1, <1>10

(***************************************************************************)
(* spawn.                                                                  *)
(***************************************************************************)
LEMMA SpawnKeeps ==
  ASSUME MemoryInv, NEW p \in Procs, Spawn(p)
  PROVE  Good(mem', proc', obj')
<1>0. Good(mem, proc, obj) /\ CanLoad(mem)
  BY DEF MemoryInv, Spawn
<1> DEFINE root == AvailSeq(mem)[1]
           new == [NoProcess EXCEPT !.state = "live", !.root = root]
<1>1. mem' = Loaded(mem) /\ obj' = obj /\ proc' = [proc EXCEPT ![p] = new]
  BY DEF Spawn
<1>2. root \in Frames
  <2>1. mem \in MemTypes /\ obj \in [Objects -> ObjTypes] /\ Counted(mem, Refs(mem, obj))
    BY <1>0 DEF Good
  <2> QED
    BY <1>0, <2>1, LoadedFacts
<1>3. NoProcess \in ProcTypes /\ NoProcess.brk = BrkBase /\ NoProcess.vmas = {} /\ NoProcess.fds = {}
  BY MemoryAssumption DEF NoProcess, ProcTypes, BrkBase
<1>4. new = [[NoProcess EXCEPT !.state = "live"] EXCEPT !.root = root]
  OBVIOUS
<1> HIDE DEF new, root
<1>5. /\ new \in ProcTypes /\ new.state = "live" /\ new.root = root
      /\ new.brk = BrkBase /\ new.vmas = {} /\ new.fds = {}
  BY <1>2, <1>3, <1>4 DEF ProcTypes
<1>6. new.root = AvailSeq(mem)[1] /\ new.fds \subseteq proc[p].fds
  BY <1>5 DEF root
<1>7. Good(Loaded(mem), [proc EXCEPT ![p] = new], obj)
  BY <1>0, <1>5, <1>6, LoadStep
<1> QED
  BY <1>1, <1>7

(***************************************************************************)
(* The caller of execve or _exit: it has the space to itself, or it is a   *)
(* vfork child, whose space is the parent's.                               *)
(***************************************************************************)
LEMMA Leaves ==
  ASSUME MemoryInv, NEW p \in Procs, Runs(p) \/ proc[p].shared
  PROVE  /\ proc[p].state = "live" /\ proc[p] \in ProcTypes /\ proc[p].root \in mem.roots
         /\ ~proc[p].shared => Exclusive(proc, p)
<1>1. proc[p] \in ProcTypes /\ HasSpace(mem, proc[p], obj)
  BY DEF MemoryInv, Good
<1>2. proc[p].state = "live"
  <2>1. CASE Runs(p)
    BY <2>1, Running
  <2>2. CASE proc[p].shared
    <3>1. NoProcess.shared = FALSE
      BY DEF NoProcess
    <3> QED
      BY <1>1, <2>2, <3>1 DEF HasSpace
  <2> QED
    BY <2>1, <2>2
<1> QED
  BY <1>1, <1>2, Running DEF HasSpace

(***************************************************************************)
(* execve: the new space first, then the old one is freed, unless it is    *)
(* the parent's.                                                           *)
(***************************************************************************)
LEMMA ExecveKeeps ==
  ASSUME MemoryInv, NEW p \in Procs, Execve(p)
  PROVE  Good(mem', proc', obj')
<1>0. Good(mem, proc, obj) /\ CanLoad(mem) /\ proc \in [Procs -> ProcTypes]
  BY DEF MemoryInv, Execve, Good
<1> DEFINE root == AvailSeq(mem)[1]
           P == proc[p]
           new == [P EXCEPT !.root = root, !.shared = FALSE, !.brk = BrkBase, !.vmas = {}]
           pr2 == [proc EXCEPT ![p] = new]
           t == Loaded(mem)
<1>1. mem' = OldSpace(p, t) /\ obj' = obj /\ proc' = pr2
  BY DEF Execve
<1>2. /\ P.state = "live" /\ P \in ProcTypes /\ P.root \in mem.roots
      /\ ~P.shared => Exclusive(proc, p)
  BY Leaves DEF Execve
<1>3. root \in Frames
  <2>1. mem \in MemTypes /\ obj \in [Objects -> ObjTypes] /\ Counted(mem, Refs(mem, obj))
    BY <1>0 DEF Good
  <2> QED
    BY <1>0, <2>1, LoadedFacts
<1>4. P = proc[p] /\ OldSpace(p, t) = IF P.shared THEN t ELSE CleanedUp(t, P.root)
  BY DEF OldSpace
<1>5. new = [[[[P EXCEPT !.root = root] EXCEPT !.shared = FALSE] EXCEPT !.brk = BrkBase]
               EXCEPT !.vmas = {}]
  OBVIOUS
<1> HIDE DEF P, new, root
<1>6. /\ new \in ProcTypes /\ new.state = "live" /\ new.root = root
      /\ new.brk = BrkBase /\ new.vmas = {} /\ new.fds = P.fds
  <2>1. BrkBase \in BrkBase .. MMAP_FLOOR
    BY MemoryAssumption DEF BrkBase
  <2> QED
    BY <1>2, <1>3, <1>5, <2>1 DEF ProcTypes
<1>7. new.root = AvailSeq(mem)[1] /\ new.fds \subseteq proc[p].fds
  BY <1>4, <1>6 DEF root
<1>8. Good(t, pr2, obj) /\ root \notin mem.roots /\ mem.roots \subseteq t.roots
  BY <1>0, <1>6, <1>7, LoadStep DEF root
<1>9. pr2[p] = new /\ \A q \in Procs \ {p} : pr2[q] = proc[q]
  BY <1>0
<1> HIDE DEF pr2, t
<1>10. CASE P.shared
  BY <1>1, <1>4, <1>8, <1>10
<1>11. CASE ~P.shared
  <2>1. \A q \in Procs : pr2[q].state = "live" => pr2[q].root # P.root
    <3> TAKE q \in Procs
    <3>1. CASE q = p
      BY <1>2, <1>6, <1>8, <1>9, <3>1
    <3>2. CASE q # p
      BY <1>2, <1>4, <1>9, <1>11, <3>2 DEF Exclusive
    <3> QED
      BY <3>1, <3>2
  <2>2. P.root \in t.roots
    BY <1>2, <1>8
  <2>3. Good(CleanedUp(t, P.root), pr2, obj)
    BY <1>8, <2>1, <2>2, CleanStep
  <2> QED
    BY <1>1, <1>4, <1>11, <2>3
<1> QED
  BY <1>10, <1>11

(***************************************************************************)
(* _exit: the space goes unless it is the parent's, then the descriptors   *)
(* and the objects that had no other.                                      *)
(***************************************************************************)
LEMMA ExitKeeps ==
  ASSUME MemoryInv, NEW p \in Procs, Exit(p)
  PROVE  Good(mem', proc', obj')
<1>0. Good(mem, proc, obj) /\ proc \in [Procs -> ProcTypes]
  BY DEF MemoryInv, Good
<1> DEFINE P == proc[p]
           pr2 == [proc EXCEPT ![p] = NoProcess]
           m == OldSpace(p, mem)
<1>1. FdsBecome(m, pr2)
  BY DEF Exit
<1>2. /\ P.state = "live" /\ P \in ProcTypes /\ P.root \in mem.roots
      /\ ~P.shared => Exclusive(proc, p)
  BY Leaves DEF Exit
<1>3. P = proc[p] /\ m = IF P.shared THEN mem ELSE CleanedUp(mem, P.root)
  BY DEF OldSpace
<1>4. Good(mem, pr2, obj)
  BY <1>0, ProcEnds
<1>5. pr2[p].state # "live" /\ \A q \in Procs \ {p} : pr2[q] = proc[q]
  BY <1>0 DEF NoProcess
<1> HIDE DEF P, pr2, m
<1>6. Good(m, pr2, obj)
  <2>1. CASE P.shared
    BY <1>3, <1>4, <2>1
  <2>2. CASE ~P.shared
    <3>1. \A q \in Procs : pr2[q].state = "live" => pr2[q].root # P.root
      BY <1>2, <1>3, <1>5, <2>2 DEF Exclusive
    <3>2. Good(CleanedUp(mem, P.root), pr2, obj)
      BY <1>2, <1>4, <3>1, CleanStep
    <3> QED
      BY <1>3, <2>2, <3>2
  <2> QED
    BY <2>1, <2>2
<1>7. Good(WithoutDropped(m, pr2), pr2, ObjectsLeft(pr2))
  BY <1>6, DropStep
<1> QED
  BY <1>1, <1>7 DEF FdsBecome

(***************************************************************************)
(* A frame is written off: the books allow it.                             *)
(***************************************************************************)
LEMMA WritesOff ==
  ASSUME NEW m, NEW pr, NEW ob, Good(m, pr, ob), NEW f \in Frames
  PROVE  Good([m EXCEPT !.lost = @ \cup {f}], pr, ob)
<1> DEFINE m2 == [m EXCEPT !.lost = @ \cup {f}]
<1>0. /\ m \in MemTypes /\ pr \in [Procs -> ProcTypes] /\ ob \in [Objects -> ObjTypes]
      /\ Counted(m, Refs(m, ob))
  BY DEF Good
<1>1. /\ m2 \in MemTypes /\ m2.free = m.free /\ m2.next = m.next /\ m2.refcounts = m.refcounts
      /\ m2.roots = m.roots /\ m2.pt = m.pt /\ m2.lost = m.lost \cup {f}
      /\ m2.stale = m.stale
  BY <1>0 DEF MemTypes
<1> HIDE DEF m2
<1>2. Refs(m2, ob) = Refs(m, ob)
  <2>1. m2.roots = m.roots /\ \A x \in m.roots : m2.pt[x] = m.pt[x]
    BY <1>1
  <2> QED
    BY <2>1, SameTables
<1>3. Avail(m2) = Avail(m)
  BY <1>1 DEF Avail
<1>4. Counted(m2, Refs(m2, ob))
  BY <1>0, <1>1, <1>2, <1>3 DEF Counted
<1>5. Calm(m, ob, m2, ob) /\ FramesKept(ob, ob)
  <2>1. \A g \in Frames : Refs(m, ob)[g] \in Nat
    BY <1>0, RefsFacts
  <2> QED
    BY <1>1, <1>2, <2>1 DEF Calm, FramesKept
<1>6. \A q \in Procs : Untouched(m, m2, pr[q], pr[q])
  BY <1>1 DEF Untouched, Good, HasSpace
<1>7. /\ Rings(ob)
      /\ \A q \in Procs : \A y \in pr[q].fds : ob[y].alive
  BY DEF Good
<1>8. Good(m2, pr, ob)
  BY <1>0, <1>1, <1>4, <1>5, <1>6, <1>7, StaysGood
<1> QED
  BY <1>8 DEF m2

(***************************************************************************)
(* A process is killed by a fault: its space is not freed.                 *)
(***************************************************************************)
LEMMA CrashKeeps ==
  ASSUME MemoryInv, NEW p \in Procs, Crash(p)
  PROVE  Good(mem', proc', obj')
<1>0. Good(mem, proc, obj) /\ proc[p].state = "live"
  BY Running DEF MemoryInv, Crash
<1> DEFINE root == proc[p].root
           pr2 == [proc EXCEPT ![p] = NoProcess]
           m == [mem EXCEPT !.lost = @ \cup {root}]
<1>1. FdsBecome(m, pr2)
  BY DEF Crash
<1>2. root \in Frames
  BY <1>0, OwnSpace
<1>3. Good(mem, pr2, obj)
  BY <1>0, ProcEnds
<1> HIDE DEF pr2, root
<1>4. Good(m, pr2, obj)
  BY <1>2, <1>3, WritesOff
<1> HIDE DEF m
<1>5. Good(WithoutDropped(m, pr2), pr2, ObjectsLeft(pr2))
  BY <1>4, DropStep
<1> QED
  BY <1>1, <1>5 DEF FdsBecome

(***************************************************************************)
(* A port is closed.                                                       *)
(***************************************************************************)
LEMMA ClosePortKeeps ==
  ASSUME MemoryInv, ClosePort
  PROVE  Good(mem', proc', obj')
<1>1. PICK o \in Objects :
        /\ obj[o].port /\ mem' = Released(mem, HeldBy(obj[o].ring))
        /\ obj' = [x \in Objects |-> IF x \in obj[o].ring THEN [obj[x] EXCEPT !.port = FALSE]
                                     ELSE obj[x]]
  BY DEF ClosePort
<1>2. proc' = proc /\ Good(mem, proc, obj)
  BY DEF ClosePort, MemoryInv
<1> QED
  BY <1>1, <1>2, PortCloses

-----------------------------------------------------------------------------
(***************************************************************************)
(* Which used pages are explained: a process that has the address space    *)
(* and not only borrows it knows of the page, or a call left it behind.    *)
(***************************************************************************)
Knows(pr, r, i) ==
  \E q \in Procs : /\ pr[q].state = "live" /\ ~pr[q].shared /\ pr[q].root = r
                   /\ Promised(pr[q], i)

Explained(m, pr, r) ==
  \A i \in Pages : m.pt[r][i] # NoPage => <<r, i>> \in m.left \/ Knows(pr, r, i)

Known(m, pr) == \A r \in m.roots \ m.lost : Explained(m, pr, r)

\* The same process, descriptors aside.
Same(a, b) == /\ b.state = a.state /\ b.shared = a.shared /\ b.root = a.root
              /\ b.brk = a.brk /\ b.vmas = a.vmas

(***************************************************************************)
(* A space whose table and whose processes stay.                           *)
(***************************************************************************)
LEMMA StaysExplained ==
  ASSUME NEW m, NEW m2, NEW pr, NEW pr2, NEW r, Explained(m, pr, r), m2.pt[r] = m.pt[r],
         \A i \in Pages : <<r, i>> \in m.left => <<r, i>> \in m2.left,
         \A q \in Procs : pr[q].state = "live" /\ ~pr[q].shared /\ pr[q].root = r =>
                            Same(pr[q], pr2[q])
  PROVE  Explained(m2, pr2, r)
<1>1. ASSUME NEW i \in Pages, Knows(pr, r, i) PROVE Knows(pr2, r, i)
  <2>1. PICK q \in Procs : /\ pr[q].state = "live" /\ ~pr[q].shared /\ pr[q].root = r
                           /\ Promised(pr[q], i)
    BY <1>1 DEF Knows
  <2>2. Same(pr[q], pr2[q])
    BY <2>1
  <2>3. Promised(pr2[q], i)
    BY <2>1, <2>2 DEF Same, Promised, Heap
  <2> QED
    BY <2>1, <2>2, <2>3 DEF Knows, Same
<1> QED
  BY <1>1 DEF Explained

(***************************************************************************)
(* No table changes: spaces may go, and their processes with them.         *)
(***************************************************************************)
LEMMA KnownStays ==
  ASSUME NEW m, NEW m2, NEW pr, NEW pr2, Known(m, pr),
         \A r \in m2.roots \ m2.lost :
           /\ r \in m.roots \ m.lost /\ m2.pt[r] = m.pt[r]
           /\ \A i \in Pages : <<r, i>> \in m.left => <<r, i>> \in m2.left
           /\ \A q \in Procs : pr[q].state = "live" /\ ~pr[q].shared /\ pr[q].root = r =>
                                 Same(pr[q], pr2[q])
  PROVE  Known(m2, pr2)
<1>1. ASSUME NEW r \in m2.roots \ m2.lost PROVE Explained(m2, pr2, r)
  <2>1. Explained(m, pr, r)
    BY DEF Known
  <2> QED
    BY <2>1, StaysExplained
<1> QED
  BY <1>1 DEF Known

(***************************************************************************)
(* A process changes its own address space: the pages used after that are  *)
(* left behind, known to it, or were used before and are as well known as  *)
(* then.                                                                   *)
(***************************************************************************)
LEMMA OwnPagesKnown ==
  ASSUME NEW m \in MemTypes, NEW m2, NEW pr, NEW pr2, Known(m, pr), NEW p \in Procs,
         Exclusive(pr, p), ~pr[p].shared, NEW r, r = pr[p].root,
         pr2[p].state = "live", ~pr2[p].shared, pr2[p].root = r,
         \A q \in Procs \ {p} : pr2[q] = pr[q],
         m2.roots = m.roots, m.lost \subseteq m2.lost, m.left \subseteq m2.left,
         \A x \in Frames \ {r} : m2.pt[x] = m.pt[x],
         \A i \in Pages : m2.pt[r][i] # NoPage =>
           \/ <<r, i>> \in m2.left \/ Promised(pr2[p], i)
           \/ m.pt[r][i] # NoPage /\ (Promised(pr[p], i) => Promised(pr2[p], i))
  PROVE  Known(m2, pr2)
<1> SUFFICES ASSUME NEW x \in m2.roots \ m2.lost PROVE Explained(m2, pr2, x)
  BY DEF Known
<1>1. x \in m.roots \ m.lost /\ x \in Frames /\ Explained(m, pr, x)
  BY DEF Known, MemTypes
<1>2. CASE x # r
  <2>1. m2.pt[x] = m.pt[x] /\ \A i \in Pages : <<x, i>> \in m.left => <<x, i>> \in m2.left
    BY <1>1, <1>2
  <2>2. \A q \in Procs : pr[q].state = "live" /\ ~pr[q].shared /\ pr[q].root = x =>
                           Same(pr[q], pr2[q])
    BY <1>2 DEF Same
  <2> QED
    BY <1>1, <2>1, <2>2, StaysExplained
<1>3. CASE x = r
  <2> SUFFICES ASSUME NEW i \in Pages, m2.pt[r][i] # NoPage, <<r, i>> \notin m2.left
               PROVE  Knows(pr2, r, i)
    BY <1>3 DEF Explained
  <2>1. CASE Promised(pr2[p], i)
    BY <2>1 DEF Knows
  <2>2. CASE m.pt[r][i] # NoPage /\ (Promised(pr[p], i) => Promised(pr2[p], i))
    <3>1. Knows(pr, r, i)
      BY <1>1, <1>3, <2>2 DEF Explained
    <3>2. PICK q \in Procs : /\ pr[q].state = "live" /\ pr[q].root = r /\ Promised(pr[q], i)
      BY <3>1 DEF Knows
    <3>3. q = p
      BY <3>2 DEF Exclusive
    <3> QED
      BY <2>1, <2>2, <3>2, <3>3
  <2> QED
    BY <2>1, <2>2
<1> QED
  BY <1>2, <1>3

\* Pages are mapped in the space r; those of A, if they are not among what is left behind.
Adds(m, m2, r, A) ==
  /\ m2.roots = m.roots /\ m.lost \subseteq m2.lost /\ m.left \subseteq m2.left
  /\ \A x \in Frames \ {r} : m2.pt[x] = m.pt[x]
  /\ \A v \in Pages : m2.pt[r][v] # NoPage =>
                        m.pt[r][v] # NoPage \/ <<r, v>> \in m2.left \/ v \in A

(***************************************************************************)
(* Frames are handed out and references given up: no page table changes.   *)
(***************************************************************************)
LEMMA TablesKept ==
  ASSUME NEW m \in MemTypes, NEW n
  PROVE  /\ Taken(m, n).roots = m.roots /\ Taken(m, n).pt = m.pt
         /\ Taken(m, n).lost = m.lost /\ Taken(m, n).left = m.left
         /\ Released(m, n).roots = m.roots /\ Released(m, n).pt = m.pt
         /\ Released(m, n).lost = m.lost /\ Released(m, n).left = m.left
<1>1. /\ Taken(m, n).roots = m.roots /\ Taken(m, n).pt = m.pt
      /\ Taken(m, n).lost = m.lost /\ Taken(m, n).left = m.left
  BY DEF Taken, MemTypes
<1>2. /\ Released(m, n).roots = m.roots /\ Released(m, n).pt = m.pt
      /\ Released(m, n).lost = m.lost /\ Released(m, n).left = m.left
  BY DEF Released, MemTypes
<1> QED
  BY <1>1, <1>2

(***************************************************************************)
(* New entries lie where they were asked for.                              *)
(***************************************************************************)
LEMMA NewEntries ==
  ASSUME NEW table, NEW start \in Nat, NEW frames, NEW prot, NEW n \in Nat, Len(frames) = n,
         NEW v \in Pages, WithPages(table, start, frames, prot)[v] # NoPage
  PROVE  table[v] # NoPage \/ v \in start .. start + n - 1
<1>1. v \in Nat
  BY MemoryAssumption DEF Pages, BrkBase
<1>2. WithPages(table, start, frames, prot)[v] = table[v] \/ (start <= v /\ v < start + n)
  BY DEF WithPages
<1> QED
  BY <1>1, <1>2

LEMMA NewPagesAdd ==
  ASSUME NEW m \in MemTypes, \A f \in m.free : f < m.next, NEW root \in Frames,
         NEW start \in Pages, NEW n \in Nat, NEW prot
  PROVE  Adds(m, NewPages(m, root, start, n, prot), root,
              IF NewPagesOk(m, root, start, n) THEN start .. start + n - 1 ELSE {})
<1> DEFINE q == AvailSeq(m)
           run == FreeRun(m, root, start, n)
           got == Min({run, Len(q)})
           used == IF got < n /\ got < Len(q) THEN got + 1 ELSE got
           s1 == SubSeq(q, 1, got)
           lost2 == m.lost \cup Range(SubSeq(q, got + 1, used))
           left2 == IF got < n THEN m.left \cup ({root} \X (start .. start + got - 1))
                    ELSE m.left
           t == Taken(m, used)
           T2 == WithPages(m.pt[root], start, s1, prot)
           p == NewPages(m, root, start, n, prot)
           A == IF NewPagesOk(m, root, start, n) THEN start .. start + n - 1 ELSE {}
<1>0. start \in Nat /\ m.pt \in [Frames -> [Pages -> Entries]]
  BY MemoryAssumption DEF Pages, BrkBase, MemTypes
<1>1. q \in Seq(Frames) /\ Len(q) \in Nat /\ run \in 0 .. n
  BY <1>0, AvailFacts, FreeRunFacts
<1>2. /\ got \in 0 .. Len(q) /\ got \in Nat /\ got <= n
      /\ (got < n) <=> ~(run = n /\ n <= Len(q))
  <2> HIDE DEF run, q
  <2>1. got = IF run <= Len(q) THEN run ELSE Len(q)
    BY <1>1, OfTwo
  <2> QED
    BY <1>1, <2>1
<1>3. Len(s1) = got
  <2> HIDE DEF q, got
  <2> QED
    BY <1>1, <1>2
<1>4. t.roots = m.roots /\ t.pt = m.pt /\ t.lost = m.lost /\ t.left = m.left
  BY TablesKept
<1>5. p = [t EXCEPT !.pt[root] = T2, !.left = left2, !.lost = lost2]
  BY <1>4 DEF NewPages
<1>6. t \in MemTypes
  <2>1. used \in 0 .. Len(AvailSeq(m))
    <3> HIDE DEF q, got
    <3>1. used \in 0 .. Len(q)
      BY <1>1, <1>2
    <3> QED
      BY <3>1 DEF q
  <2> HIDE DEF used
  <2> QED
    BY <2>1, TakenFacts
<1>7. A = IF got < n THEN {} ELSE start .. start + n - 1
  <2>1. NewPagesOk(m, root, start, n) <=> run = n /\ n <= Len(q)
    BY DEF NewPagesOk
  <2> HIDE DEF got, run, q
  <2> QED
    BY <1>2, <2>1
<1> HIDE DEF t, T2, left2, lost2, p, A, s1, got, run
<1>8. p.roots = m.roots /\ p.pt = [m.pt EXCEPT ![root] = T2] /\ p.left = left2 /\ p.lost = lost2
  BY <1>4, <1>5, <1>6 DEF MemTypes
<1>9. p.pt[root] = T2 /\ \A x \in Frames \ {root} : p.pt[x] = m.pt[x]
  BY <1>0, <1>8
<1>10. m.left \subseteq left2 /\ m.lost \subseteq lost2
  BY DEF left2, lost2
<1>11. ASSUME NEW v \in Pages, p.pt[root][v] # NoPage
       PROVE  m.pt[root][v] # NoPage \/ <<root, v>> \in p.left \/ v \in A
  <2>1. m.pt[root][v] # NoPage \/ v \in start .. start + got - 1
    BY <1>0, <1>2, <1>3, <1>9, <1>11, NewEntries DEF T2
  <2>2. CASE got < n
    BY <1>8, <2>1, <2>2 DEF left2
  <2>3. CASE ~(got < n)
    <3>1. A = start .. start + n - 1 /\ got = n
      BY <1>2, <1>7, <2>3
    <3> QED
      BY <2>1, <3>1
  <2> QED
    BY <2>2, <2>3
<1> QED
  BY <1>8, <1>9, <1>10, <1>11 DEF Adds, A, p

(***************************************************************************)
(* The same of the pages of an object.                                     *)
(***************************************************************************)
LEMMA SharedPagesAdd ==
  ASSUME NEW m \in MemTypes, NEW root \in Frames, NEW start \in Pages,
         NEW frames \in Seq(Frames), NEW n \in Nat, Len(frames) = n, NEW prot, NEW gone
  PROVE  Adds(m, SharedPages(m, root, start, frames, prot, gone), root,
              IF FreeRun(m, root, start, n) = n THEN start .. start + n - 1 ELSE {})
<1> DEFINE run == FreeRun(m, root, start, n)
           mapped == SubSeq(frames, 1, run)
           left2 == IF run < n THEN m.left \cup ({root} \X (start .. start + run - 1))
                    ELSE m.left
           T2 == WithPages(m.pt[root], start, mapped, prot)
           p == SharedPages(m, root, start, frames, prot, gone)
           stale2 == IF gone THEN m.stale \cup Range(mapped) ELSE m.stale
           counts == [f \in Frames |->
                        RefShare(m.refcounts[f], Cardinality({i \in DOMAIN mapped : mapped[i] = f}))]
<1>0. start \in Nat /\ m.pt \in [Frames -> [Pages -> Entries]]
  BY MemoryAssumption DEF Pages, BrkBase, MemTypes
<1>1. run \in 0 .. n
  BY <1>0, FreeRunFacts
<1>2. Len(mapped) = run
  <2> HIDE DEF run
  <2> QED
    BY <1>1
<1>3. p = [m EXCEPT !.pt[root] = T2, !.left = left2, !.stale = stale2, !.refcounts = counts]
  BY DEF SharedPages
<1> HIDE DEF T2, left2, p, mapped, run, stale2, counts
<1>4. p.roots = m.roots /\ p.pt = [m.pt EXCEPT ![root] = T2] /\ p.left = left2 /\ p.lost = m.lost
  BY <1>3 DEF MemTypes
<1>5. p.pt[root] = T2 /\ \A x \in Frames \ {root} : p.pt[x] = m.pt[x]
  BY <1>0, <1>4
<1>6. m.left \subseteq left2
  BY DEF left2
<1>7. ASSUME NEW v \in Pages, p.pt[root][v] # NoPage
      PROVE  \/ m.pt[root][v] # NoPage \/ <<root, v>> \in p.left
             \/ v \in IF run = n THEN start .. start + n - 1 ELSE {}
  <2>1. m.pt[root][v] # NoPage \/ v \in start .. start + run - 1
    BY <1>0, <1>1, <1>2, <1>5, <1>7, NewEntries DEF T2
  <2>2. CASE run < n
    BY <1>4, <2>1, <2>2 DEF left2
  <2>3. CASE ~(run < n)
    <3>1. run = n
      BY <1>1, <2>3
    <3> QED
      BY <2>1, <3>1
  <2> QED
    BY <2>2, <2>3
<1> QED
  BY <1>4, <1>5, <1>6, <1>7 DEF Adds, p, run

(***************************************************************************)
(* unmap_and_release_user_page and unmap_and_free_user_page: a page of the *)
(* range that is used after it was not present, and is left behind.        *)
(***************************************************************************)
LEMMA UnmappedDrops ==
  ASSUME NEW m \in MemTypes, NEW root \in Frames, NEW range \in SUBSET Pages
  PROVE  LET u == Unmapped(m, root, range)
         IN  /\ u.roots = m.roots /\ u.lost = m.lost /\ m.left \subseteq u.left
             /\ \A x \in Frames \ {root} : u.pt[x] = m.pt[x]
             /\ \A v \in Pages : u.pt[root][v] # NoPage =>
                  m.pt[root][v] # NoPage /\ (v \in range => <<root, v>> \in u.left)
<1> DEFINE T == m.pt[root]
           hit == {v \in range : Present(T[v])}
           miss == {v \in range : T[v] # NoPage /\ v \notin hit}
           left2 == m.left \cup ({root} \X miss)
           T2 == [v \in Pages |-> IF v \in hit THEN NoPage ELSE T[v]]
           c == [m EXCEPT !.pt[root] = T2, !.left = left2]
           k == [f \in Frames |-> Cardinality({v \in hit : T[v].frame = f})]
           u == Unmapped(m, root, range)
<1>1. u = Released(c, k)
  BY DEF Unmapped
<1>2. T2 \in [Pages -> Entries] /\ left2 \in SUBSET (Frames \X Pages)
  <2>1. left2 \in SUBSET (Frames \X Pages)
    BY DEF MemTypes
  <2> QED
    BY <2>1 DEF Entries, MemTypes
<1>3. \A v \in Pages : T2[v] # NoPage => T[v] # NoPage /\ (v \in range => <<root, v>> \in left2)
  OBVIOUS
<1>4. m.left \subseteq left2
  OBVIOUS
<1> HIDE DEF T2, left2, k, u
<1>5. /\ c \in MemTypes /\ c.roots = m.roots /\ c.lost = m.lost /\ c.left = left2
      /\ c.pt[root] = T2 /\ \A x \in Frames \ {root} : c.pt[x] = m.pt[x]
  BY <1>2 DEF MemTypes
<1> HIDE DEF c
<1>6. u.roots = c.roots /\ u.pt = c.pt /\ u.lost = c.lost /\ u.left = c.left
  BY <1>1, <1>5, TablesKept
<1> QED
  BY <1>3, <1>4, <1>5, <1>6 DEF u

LEMMA FreedDrops ==
  ASSUME NEW m \in MemTypes, NEW root \in Frames, NEW range \in SUBSET Pages,
         \A v \in range : Present(m.pt[root][v])
  PROVE  LET u == Freed(m, root, range)
         IN  /\ u.roots = m.roots /\ u.lost = m.lost /\ u.left = m.left
             /\ \A x \in Frames \ {root} : u.pt[x] = m.pt[x]
             /\ \A v \in Pages : u.pt[root][v] # NoPage => m.pt[root][v] # NoPage /\ v \notin range
<1> DEFINE T == m.pt[root]
           hit == {v \in range : Present(T[v])}
           T2 == [v \in Pages |-> IF v \in hit THEN NoPage ELSE T[v]]
           free2 == m.free \cup {T[v].frame : v \in hit}
           u == Freed(m, root, range)
<1>1. u = [m EXCEPT !.pt[root] = T2, !.free = free2]
  BY DEF Freed
<1>2. \A v \in Pages : T2[v] # NoPage => T[v] # NoPage /\ v \notin range
  OBVIOUS
<1> HIDE DEF T2, free2, u
<1>3. /\ u.roots = m.roots /\ u.lost = m.lost /\ u.left = m.left
      /\ u.pt[root] = T2 /\ \A x \in Frames \ {root} : u.pt[x] = m.pt[x]
  BY <1>1 DEF MemTypes
<1> QED
  BY <1>2, <1>3 DEF u

(***************************************************************************)
(* The part of a VMA inside a range has all its pages that are in there.   *)
(***************************************************************************)
LEMMA InsideRange ==
  ASSUME NEW v \in Vmas, End(v) <= MMAP_CEILING, NEW start \in Nat, NEW end \in Nat,
         start < end, Overlaps(v, start, end), NEW i \in Nat,
         v.start <= i, i < End(v), start <= i, i < end
  PROVE  i \in PagesOf(Inside(v, start, end))
<1> DEFINE a == Max({v.start, start})
           b == Min({End(v), end})
<1>0. v.start \in Nat /\ End(v) \in Nat /\ v.start < End(v) /\ MMAP_CEILING \in Nat
  BY VmaFacts, MemoryAssumption
<1>1. /\ a = IF v.start <= start THEN start ELSE v.start
      /\ b = IF End(v) <= end THEN End(v) ELSE end
  BY <1>0, OfTwo
<1>2. Inside(v, start, end) = Cut(v, a, b)
  BY DEF Inside
<1> HIDE DEF a, b
<1>3. /\ a \in Nat /\ b \in Nat /\ v.start <= a /\ a < b /\ b <= End(v)
      /\ a <= i /\ i < b /\ b <= MMAP_CEILING
  BY <1>0, <1>1 DEF Overlaps
<1> DEFINE c == Cut(v, a, b)
<1>4. c \in Vmas /\ c.start = a /\ End(c) = b
  BY <1>3, CutFacts
<1> HIDE DEF c
<1>5. i \in PagesOf(c)
  BY <1>3, <1>4, VmaFacts
<1> QED
  BY <1>2, <1>5 DEF c

(***************************************************************************)
(* What munmap_vmas leaves covers all the pages outside of the range.      *)
(***************************************************************************)
LEMMA PagesLeft ==
  ASSUME NEW V, GoodVmas(V), NEW start \in Nat, NEW len \in Nat, len >= 1, NEW v \in V,
         NEW i \in PagesOf(v), i \notin Covered(V, start, len)
  PROVE  \E c \in munmap_vmas(V, start, len) : i \in PagesOf(c)
<1> DEFINE end == start + len
           R == munmap_vmas(V, start, len)
<1>0. end \in Nat /\ start < end
  OBVIOUS
<1>1. /\ v \in Vmas /\ End(v) <= MMAP_CEILING /\ v.start \in Nat /\ End(v) \in Nat
      /\ i \in Nat /\ v.start <= i /\ i < End(v)
  <2>1. v \in Vmas /\ End(v) <= MMAP_CEILING
    BY DEF GoodVmas
  <2>2. Pages \subseteq Nat
    BY MemoryAssumption DEF Pages, BrkBase
  <2> QED
    BY <2>1, <2>2, VmaFacts
<1>2. CASE ~Overlaps(v, start, end)
  <2>1. v \in R
    BY <1>2 DEF munmap_vmas
  <2> QED
    BY <2>1
<1>3. CASE Overlaps(v, start, end)
  <2>0. v.start < end /\ End(v) > start
    BY <1>3 DEF Overlaps
  <2>1. Outside(v, start, end) \subseteq R
    BY <1>3 DEF munmap_vmas
  <2>2. CASE i < start
    <3> DEFINE c == Cut(v, v.start, start)
    <3>1. v.start < start /\ v.start <= v.start /\ start <= End(v)
      BY <1>1, <2>0, <2>2
    <3>2. c \in R
      BY <2>1, <3>1 DEF Outside
    <3>3. c \in Vmas /\ c.start = v.start /\ End(c) = start
      BY <1>1, <3>1, CutFacts
    <3> HIDE DEF c
    <3>4. End(c) <= MMAP_CEILING
      BY <1>1, <3>1, <3>3, MemoryAssumption
    <3>5. i \in PagesOf(c)
      BY <1>1, <2>2, <3>3, <3>4, VmaFacts
    <3> QED
      BY <3>2, <3>5
  <2>3. CASE end <= i
    <3> DEFINE c == Cut(v, end, End(v))
    <3> HIDE DEF end
    <3>1. end < End(v) /\ v.start <= end /\ End(v) <= End(v)
      BY <1>0, <1>1, <2>0, <2>3
    <3>2. c \in R
      BY <2>1, <3>1 DEF Outside
    <3>3. c \in Vmas /\ c.start = end /\ End(c) = End(v)
      BY <1>0, <1>1, <3>1, CutFacts
    <3> HIDE DEF c
    <3>4. i \in PagesOf(c)
      BY <1>1, <2>3, <3>3, VmaFacts
    <3> QED
      BY <3>2, <3>4
  <2>4. CASE start <= i /\ i < end
    <3>1. i \in PagesOf(Inside(v, start, end))
      BY <1>0, <1>1, <1>3, <2>4, InsideRange
    <3> QED
      BY <1>3, <3>1 DEF Covered
  <2> QED
    BY <1>0, <1>1, <2>2, <2>3, <2>4
<1> QED
  BY <1>2, <1>3 DEF R

(***************************************************************************)
(* What mprotect_vmas leaves covers all pages that were covered.           *)
(***************************************************************************)
LEMMA PagesProtected ==
  ASSUME NEW V, GoodVmas(V), NEW start \in Nat, NEW len \in Nat, len >= 1, NEW prot \in Prots,
         NEW v \in V, NEW i \in PagesOf(v)
  PROVE  \E c \in mprotect_vmas(V, start, len, prot) : i \in PagesOf(c)
<1> DEFINE end == start + len
<1>1. CASE i \notin Covered(V, start, len)
  <2>1. PICK c \in munmap_vmas(V, start, len) : i \in PagesOf(c)
    BY <1>1, PagesLeft
  <2>2. c \in mprotect_vmas(V, start, len, prot)
    BY DEF mprotect_vmas
  <2> QED
    BY <2>1, <2>2
<1>2. CASE i \in Covered(V, start, len)
  <2>1. PICK w \in V : Overlaps(w, start, end) /\ i \in PagesOf(Inside(w, start, end))
    BY <1>2 DEF Covered
  <2> DEFINE x == Inside(w, start, end)
             c == [x EXCEPT !.prot = prot]
  <2>2. c \in mprotect_vmas(V, start, len, prot)
    BY <2>1 DEF mprotect_vmas
  <2>3. x \in Vmas
    <3>1. w \in Vmas /\ End(w) <= MMAP_CEILING /\ end \in Nat /\ start < end
      BY DEF GoodVmas
    <3> HIDE DEF end
    <3> QED
      BY <2>1, <3>1, InsideFacts
  <2>4. i \in PagesOf(x)
    BY <2>1
  <2> HIDE DEF x
  <2>5. c.start = x.start /\ c.len = x.len
    BY <2>3 DEF Vmas
  <2>6. PagesOf(c) = PagesOf(x)
    BY <2>5 DEF PagesOf, End
  <2> QED
    BY <2>2, <2>4, <2>6
<1> QED
  BY <1>1, <1>2

-----------------------------------------------------------------------------
(***************************************************************************)
(* A process that has an address space for itself.                         *)
(***************************************************************************)
Runner(m, pr, p) ==
  /\ m \in MemTypes /\ pr \in [Procs -> ProcTypes] /\ Exclusive(pr, p)
  /\ pr[p].shared = FALSE /\ pr[p].root \in Frames /\ GoodVmas(pr[p].vmas)
  /\ pr[p].brk \in Nat

LEMMA RunnerIs ==
  ASSUME NEW m, NEW pr, NEW ob, Good(m, pr, ob), NEW p \in Procs, Exclusive(pr, p),
         pr[p].shared = FALSE
  PROVE  Runner(m, pr, p) /\ \A f \in m.free : f < m.next
<1>1. /\ m \in MemTypes /\ pr \in [Procs -> ProcTypes] /\ pr[p].root \in Frames
      /\ GoodVmas(pr[p].vmas) /\ pr[p] \in ProcTypes /\ Counted(m, Refs(m, ob))
  BY OwnSpace DEF Good, Exclusive
<1>2. pr[p].brk \in Nat
  BY <1>1, MemoryAssumption DEF ProcTypes, BrkBase
<1> QED
  BY <1>1, <1>2 DEF Runner, Counted

(***************************************************************************)
(* Only the VMA map of a process changes; only its descriptors.            *)
(***************************************************************************)
LEMMA VmasOnly ==
  ASSUME NEW pr \in [Procs -> ProcTypes], NEW p \in Procs, NEW W
  PROVE  LET pr1 == WithVmas(pr, p, W)
         IN  /\ pr1[p].state = pr[p].state /\ pr1[p].shared = pr[p].shared
             /\ pr1[p].root = pr[p].root /\ pr1[p].brk = pr[p].brk /\ pr1[p].vmas = W
             /\ \A q \in Procs \ {p} : pr1[q] = pr[q]
<1> DEFINE P == pr[p]
           P1 == [P EXCEPT !.vmas = W]
<1>1. P \in ProcTypes /\ WithVmas(pr, p, W) = [pr EXCEPT ![p] = P1]
  BY DEF WithVmas
<1> HIDE DEF P
<1>2. /\ P1.state = P.state /\ P1.shared = P.shared /\ P1.root = P.root /\ P1.brk = P.brk
      /\ P1.vmas = W
  BY <1>1 DEF ProcTypes
<1> HIDE DEF P1
<1> QED
  BY <1>1, <1>2 DEF P

LEMMA FdsOnly ==
  ASSUME NEW pr \in [Procs -> ProcTypes], NEW p \in Procs, NEW F
  PROVE  \A q \in Procs : Same(pr[q], [pr EXCEPT ![p].fds = F][q])
<1> DEFINE P == pr[p]
           P1 == [P EXCEPT !.fds = F]
<1>1. P \in ProcTypes /\ [pr EXCEPT ![p].fds = F] = [pr EXCEPT ![p] = P1]
  OBVIOUS
<1> HIDE DEF P
<1>2. Same(P, P1)
  BY <1>1 DEF ProcTypes, Same
<1> HIDE DEF P1
<1>3. \A q \in Procs : Same(pr[q], pr[q])
  BY DEF Same
<1> QED
  BY <1>1, <1>2, <1>3 DEF P

(***************************************************************************)
(* Pages are added, and their process knows of them.                       *)
(***************************************************************************)
Covers(pr, pr2, p, A) ==
  /\ pr2[p].state = "live" /\ pr2[p].shared = FALSE /\ pr2[p].root = pr[p].root
  /\ \A q \in Procs \ {p} : pr2[q] = pr[q]
  /\ \A i \in Pages : Promised(pr[p], i) => Promised(pr2[p], i)
  /\ \A i \in A : Promised(pr2[p], i)

LEMMA AddsKnown ==
  ASSUME NEW m, NEW pr, NEW p \in Procs, Runner(m, pr, p), Known(m, pr), NEW m2, NEW A,
         Adds(m, m2, pr[p].root, A), NEW pr2, Covers(pr, pr2, p, A)
  PROVE  Known(m2, pr2)
<1> USE DEF Covers
<1> DEFINE r == pr[p].root
<1>1. /\ m \in MemTypes /\ Exclusive(pr, p) /\ pr[p].shared = FALSE
  BY DEF Runner
<1>2. /\ m2.roots = m.roots /\ m.lost \subseteq m2.lost /\ m.left \subseteq m2.left
      /\ \A x \in Frames \ {r} : m2.pt[x] = m.pt[x]
      /\ \A v \in Pages : m2.pt[r][v] # NoPage =>
                            m.pt[r][v] # NoPage \/ <<r, v>> \in m2.left \/ v \in A
  BY DEF Adds
<1>3. \A i \in Pages : m2.pt[r][i] # NoPage =>
           \/ <<r, i>> \in m2.left \/ Promised(pr2[p], i)
           \/ m.pt[r][i] # NoPage /\ (Promised(pr[p], i) => Promised(pr2[p], i))
  BY <1>2
<1>4. r = pr[p].root /\ pr2[p].root = r
  OBVIOUS
<1> HIDE DEF r
<1> QED
  BY <1>1, <1>2, <1>3, <1>4, OwnPagesKnown

(***************************************************************************)
(* mmap: the VMA is entered when all its pages are mapped.                 *)
(***************************************************************************)
LEMMA AddsVma ==
  ASSUME NEW m, NEW pr, NEW p \in Procs, Runner(m, pr, p), Known(m, pr), NEW m2,
         NEW start \in Nat, NEW n \in Nat, NEW ok,
         Adds(m, m2, pr[p].root, IF ok THEN start .. start + n - 1 ELSE {}), NEW prot, NEW kind
  PROVE  /\ ok => Known(m2, WithVmas(pr, p, pr[p].vmas \cup {Vma(start, n, prot, kind)}))
         /\ ~ok => Known(m2, pr)
<1>0. pr \in [Procs -> ProcTypes] /\ pr[p].state = "live" /\ pr[p].shared = FALSE
  BY DEF Runner, Exclusive
<1>1. ASSUME ~ok PROVE Known(m2, pr)
  <2>1. Adds(m, m2, pr[p].root, {})
    BY <1>1
  <2>2. Covers(pr, pr, p, {})
    BY <1>0 DEF Covers
  <2> QED
    BY <2>1, <2>2, AddsKnown
<1>2. ASSUME ok
      PROVE  Known(m2, WithVmas(pr, p, pr[p].vmas \cup {Vma(start, n, prot, kind)}))
  <2> DEFINE new == Vma(start, n, prot, kind)
             W == pr[p].vmas \cup {new}
             pr2 == WithVmas(pr, p, W)
             A == start .. start + n - 1
  <2>1. Adds(m, m2, pr[p].root, A)
    BY <1>2
  <2>2. PagesOf(new) = A
    BY DEF PagesOf, End, Vma
  <2>3. new \in W /\ \A v \in pr[p].vmas : v \in W
    OBVIOUS
  <2> HIDE DEF W
  <2>4. /\ pr2[p].state = pr[p].state /\ pr2[p].shared = pr[p].shared
        /\ pr2[p].root = pr[p].root /\ pr2[p].brk = pr[p].brk /\ pr2[p].vmas = W
        /\ \A q \in Procs \ {p} : pr2[q] = pr[q]
    BY <1>0, VmasOnly
  <2> HIDE DEF pr2, A, new
  <2>5. \A i \in Pages : Promised(pr[p], i) => Promised(pr2[p], i)
    BY <2>3, <2>4 DEF Promised, Heap
  <2>6. \A i \in A : Promised(pr2[p], i)
    BY <2>2, <2>3, <2>4 DEF Promised
  <2>7. Covers(pr, pr2, p, A)
    BY <1>0, <2>4, <2>5, <2>6 DEF Covers
  <2>8. Known(m2, pr2)
    BY <2>1, <2>7, AddsKnown
  <2> QED
    BY <2>8 DEF pr2, W, new
<1> QED
  BY <1>1, <1>2

(***************************************************************************)
(* munmap: what stays used in the range is left behind.                    *)
(***************************************************************************)
LEMMA CutKnown ==
  ASSUME NEW m, NEW pr, NEW p \in Procs, Runner(m, pr, p), Known(m, pr),
         NEW start \in Nat, NEW len \in Nat, len >= 1
  PROVE  Known(Unmapped(m, pr[p].root, Covered(pr[p].vmas, start, len)),
               WithVmas(pr, p, munmap_vmas(pr[p].vmas, start, len)))
<1> DEFINE r == pr[p].root
           V == pr[p].vmas
           range == Covered(V, start, len)
           W == munmap_vmas(V, start, len)
           u == Unmapped(m, r, range)
           pr2 == WithVmas(pr, p, W)
<1>0. /\ m \in MemTypes /\ pr \in [Procs -> ProcTypes] /\ Exclusive(pr, p)
      /\ pr[p].state = "live" /\ pr[p].shared = FALSE /\ r \in Frames /\ GoodVmas(V)
  BY DEF Runner, Exclusive
<1>1. range \in SUBSET Pages
  BY <1>0, CoveredFacts
<1>2. \A v \in V : \A i \in PagesOf(v) : i \in range \/ \E c \in W : i \in PagesOf(c)
  BY <1>0, PagesLeft
<1>3. r = pr[p].root /\ V = pr[p].vmas
  OBVIOUS
<1> HIDE DEF range, W, r, V
<1>4. /\ u.roots = m.roots /\ u.lost = m.lost /\ m.left \subseteq u.left
      /\ \A x \in Frames \ {r} : u.pt[x] = m.pt[x]
      /\ \A v \in Pages : u.pt[r][v] # NoPage =>
           m.pt[r][v] # NoPage /\ (v \in range => <<r, v>> \in u.left)
  BY <1>0, <1>1, UnmappedDrops
<1>5. /\ pr2[p].state = pr[p].state /\ pr2[p].shared = pr[p].shared
      /\ pr2[p].root = pr[p].root /\ pr2[p].brk = pr[p].brk /\ pr2[p].vmas = W
      /\ \A q \in Procs \ {p} : pr2[q] = pr[q]
  BY <1>0, VmasOnly
<1> HIDE DEF u, pr2
<1>6. ASSUME NEW i \in Pages, i \notin range, Promised(pr[p], i) PROVE Promised(pr2[p], i)
  BY <1>2, <1>3, <1>5, <1>6 DEF Promised, Heap
<1>7. \A i \in Pages : u.pt[r][i] # NoPage =>
           \/ <<r, i>> \in u.left \/ Promised(pr2[p], i)
           \/ m.pt[r][i] # NoPage /\ (Promised(pr[p], i) => Promised(pr2[p], i))
  BY <1>4, <1>6
<1>8. Known(u, pr2)
  BY <1>0, <1>3, <1>4, <1>5, <1>7, OwnPagesKnown
<1> QED
  BY <1>3, <1>8 DEF u, pr2, range, W

(***************************************************************************)
(* mprotect uses no new page and takes none from the map.                  *)
(***************************************************************************)
LEMMA ProtectKnown ==
  ASSUME NEW m, NEW pr, NEW p \in Procs, Runner(m, pr, p), Known(m, pr),
         NEW start \in Nat, NEW len \in Nat, len >= 1, NEW prot \in Prots, NEW range
  PROVE  Known([m EXCEPT !.pt[pr[p].root] = Protected(m.pt[pr[p].root], range, prot)],
               WithVmas(pr, p, mprotect_vmas(pr[p].vmas, start, len, prot)))
<1> DEFINE r == pr[p].root
           V == pr[p].vmas
           W == mprotect_vmas(V, start, len, prot)
           T == m.pt[r]
           T2 == Protected(T, range, prot)
           u == [m EXCEPT !.pt[r] = T2]
           pr2 == WithVmas(pr, p, W)
<1>0. /\ m \in MemTypes /\ pr \in [Procs -> ProcTypes] /\ Exclusive(pr, p)
      /\ pr[p].state = "live" /\ pr[p].shared = FALSE /\ r \in Frames /\ GoodVmas(V)
  BY DEF Runner, Exclusive
<1>1. \A v \in Pages : T2[v] # NoPage => T[v] # NoPage
  BY DEF Protected
<1>2. \A v \in V : \A i \in PagesOf(v) : \E c \in W : i \in PagesOf(c)
  BY <1>0, PagesProtected
<1>3. r = pr[p].root /\ V = pr[p].vmas
  OBVIOUS
<1> HIDE DEF W, r, V, T2
<1>4. /\ u.roots = m.roots /\ u.lost = m.lost /\ u.left = m.left
      /\ u.pt[r] = T2 /\ \A x \in Frames \ {r} : u.pt[x] = m.pt[x]
  BY <1>0 DEF MemTypes
<1>5. /\ pr2[p].state = pr[p].state /\ pr2[p].shared = pr[p].shared
      /\ pr2[p].root = pr[p].root /\ pr2[p].brk = pr[p].brk /\ pr2[p].vmas = W
      /\ \A q \in Procs \ {p} : pr2[q] = pr[q]
  BY <1>0, VmasOnly
<1> HIDE DEF pr2, u
<1>6. \A i \in Pages : Promised(pr[p], i) => Promised(pr2[p], i)
  BY <1>2, <1>3, <1>5 DEF Promised, Heap
<1>7. \A i \in Pages : u.pt[r][i] # NoPage =>
           \/ <<r, i>> \in u.left \/ Promised(pr2[p], i)
           \/ m.pt[r][i] # NoPage /\ (Promised(pr[p], i) => Promised(pr2[p], i))
  BY <1>1, <1>4, <1>6
<1>8. m.lost \subseteq u.lost /\ m.left \subseteq u.left
  BY <1>4
<1>9. Known(u, pr2)
  BY <1>0, <1>3, <1>4, <1>5, <1>7, <1>8, OwnPagesKnown
<1> QED
  BY <1>3, <1>9 DEF u, pr2, T2, W

\* No table and no address space changes; frames may be lost.
Quiet(m, m2) ==
  m2.roots = m.roots /\ m2.pt = m.pt /\ m2.left = m.left /\ m.lost \subseteq m2.lost

LEMMA QuietKnown ==
  ASSUME NEW m, NEW m2, NEW pr, NEW pr2, Known(m, pr), Quiet(m, m2),
         \A q \in Procs : pr[q].state = "live" /\ ~pr[q].shared => Same(pr[q], pr2[q])
  PROVE  Known(m2, pr2)
<1>1. m2.roots = m.roots /\ m2.pt = m.pt /\ m2.left = m.left /\ m.lost \subseteq m2.lost
  BY DEF Quiet
<1> QED
  BY <1>1, KnownStays

LEMMA QuietFrames ==
  ASSUME NEW m \in MemTypes
  PROVE  /\ \A n : Quiet(m, Taken(m, n)) /\ Quiet(m, Released(m, n))
         /\ \A L : Quiet(m, [m EXCEPT !.lost = @ \cup L])
<1>1. ASSUME NEW n PROVE Quiet(m, Taken(m, n)) /\ Quiet(m, Released(m, n))
  BY TablesKept DEF Quiet
<1>2. ASSUME NEW L PROVE Quiet(m, [m EXCEPT !.lost = @ \cup L])
  BY DEF Quiet, MemTypes
<1> QED
  BY <1>1, <1>2

-----------------------------------------------------------------------------
(***************************************************************************)
(* Every used page stays explained: mmap.                                  *)
(***************************************************************************)
LEMMA MmapKnown ==
  ASSUME MemoryInv, Known(mem, proc), NEW p \in Procs, Mmap(p)
  PROVE  Known(mem', proc')
<1> DEFINE base(len) == find_gap_topdown(proc[p].vmas, len)
           root == proc[p].root
<1>0. /\ Good(mem, proc, obj) /\ Exclusive(proc, p) /\ proc[p].shared = FALSE
  BY Running DEF MemoryInv, Mmap
<1>1. Runner(mem, proc, p) /\ \A f \in mem.free : f < mem.next
  BY <1>0, RunnerIs
<1>2. PICK len \in Lens :
        /\ base(len) # 0 /\ mem' = NewPages(mem, root, base(len), len, "rw")
        /\ proc' = IF NewPagesOk(mem, root, base(len), len)
                   THEN [proc EXCEPT ![p].vmas = @ \cup {Vma(base(len), len, "rw", "private")}]
                   ELSE proc
  BY DEF Mmap
<1> DEFINE b == base(len)
<1>3. len \in Nat /\ len >= 1
  BY CallLengths
<1>4. b \in Pages /\ b \in Nat
  <2>1. proc[p].vmas \in SUBSET Vmas
    BY <1>1 DEF GoodVmas, Runner
  <2>2. b \in Nat /\ MMAP_FLOOR <= b /\ b + len <= MMAP_CEILING
    BY <1>2, <1>3, <2>1, GapInRegion
  <2> HIDE DEF b
  <2> QED
    BY <1>3, <2>2, MemoryAssumption DEF Pages, BrkBase
<1>5. /\ mem' = NewPages(mem, root, b, len, "rw")
      /\ proc' = IF NewPagesOk(mem, root, b, len)
                 THEN WithVmas(proc, p, proc[p].vmas \cup {Vma(b, len, "rw", "private")})
                 ELSE proc
  BY <1>2 DEF WithVmas
<1> HIDE DEF b
<1>6. mem \in MemTypes /\ proc[p].root \in Frames
  BY <1>1 DEF Runner
<1>7. Adds(mem, mem', proc[p].root,
           IF NewPagesOk(mem, proc[p].root, b, len) THEN b .. b + len - 1 ELSE {})
  BY <1>1, <1>3, <1>4, <1>5, <1>6, NewPagesAdd
<1>8. /\ NewPagesOk(mem, root, b, len) =>
           Known(mem', WithVmas(proc, p, proc[p].vmas \cup {Vma(b, len, "rw", "private")}))
      /\ ~NewPagesOk(mem, root, b, len) => Known(mem', proc)
  BY <1>1, <1>3, <1>4, <1>7, AddsVma
<1> QED
  BY <1>5, <1>8

(***************************************************************************)
(* mmap of a shared object.                                                *)
(***************************************************************************)
LEMMA MmapSharedKnown ==
  ASSUME MemoryInv, Known(mem, proc), NEW p \in Procs, MmapShared(p)
  PROVE  Known(mem', proc')
<1> DEFINE base(len) == find_gap_topdown(proc[p].vmas, len)
           root == proc[p].root
<1>0. /\ Good(mem, proc, obj) /\ Exclusive(proc, p) /\ proc[p].shared = FALSE
  BY Running DEF MemoryInv, MmapShared
<1>1. Runner(mem, proc, p) /\ \A f \in mem.free : f < mem.next
  BY <1>0, RunnerIs
<1>2. PICK o \in Objects, len \in Lens :
        /\ len <= Len(obj[o].frames) /\ base(len) # 0
        /\ mem' = SharedPages(mem, root, base(len), SubSeq(obj[o].frames, 1, len), "rw",
                              RingGone(o))
        /\ proc' = IF FreeRun(mem, root, base(len), len) = len
                   THEN [proc EXCEPT ![p].vmas = @ \cup {Vma(base(len), len, "rw", o)}]
                   ELSE proc
  BY DEF MmapShared
<1> DEFINE b == base(len)
           fr == SubSeq(obj[o].frames, 1, len)
<1>3. len \in Nat /\ len >= 1
  BY CallLengths
<1>4. b \in Pages /\ b \in Nat
  <2>1. proc[p].vmas \in SUBSET Vmas
    BY <1>1 DEF GoodVmas, Runner
  <2>2. b \in Nat /\ MMAP_FLOOR <= b /\ b + len <= MMAP_CEILING
    BY <1>2, <1>3, <2>1, GapInRegion
  <2> HIDE DEF b
  <2> QED
    BY <1>3, <2>2, MemoryAssumption DEF Pages, BrkBase
<1>5. fr \in Seq(Frames) /\ Len(fr) = len
  <2>1. obj[o].frames \in Seq(Frames)
    BY <1>0 DEF Good, ObjTypes
  <2> QED
    BY <1>2, <1>3, <2>1
<1>6. /\ mem' = SharedPages(mem, root, b, fr, "rw", RingGone(o))
      /\ proc' = IF FreeRun(mem, root, b, len) = len
                 THEN WithVmas(proc, p, proc[p].vmas \cup {Vma(b, len, "rw", o)}) ELSE proc
  BY <1>2 DEF WithVmas
<1> HIDE DEF b, fr
<1>7. mem \in MemTypes /\ proc[p].root \in Frames
  BY <1>1 DEF Runner
<1>8. Adds(mem, mem', proc[p].root,
           IF FreeRun(mem, proc[p].root, b, len) = len THEN b .. b + len - 1 ELSE {})
  BY <1>3, <1>4, <1>5, <1>6, <1>7, SharedPagesAdd
<1>9. /\ FreeRun(mem, root, b, len) = len =>
           Known(mem', WithVmas(proc, p, proc[p].vmas \cup {Vma(b, len, "rw", o)}))
      /\ FreeRun(mem, root, b, len) # len => Known(mem', proc)
  BY <1>1, <1>3, <1>4, <1>8, AddsVma
<1> QED
  BY <1>6, <1>9

(***************************************************************************)
(* mmap with MAP_FIXED.                                                    *)
(***************************************************************************)
LEMMA MmapFixedKnown ==
  ASSUME MemoryInv, Known(mem, proc), NEW p \in Procs, MmapFixed(p)
  PROVE  Known(mem', proc')
<1> DEFINE root == proc[p].root
           V == proc[p].vmas
           cut(start, len) == munmap_vmas(V, start, len)
           m(start, len) == Unmapped(mem, root, Covered(V, start, len))
<1>0. /\ Good(mem, proc, obj) /\ Exclusive(proc, p) /\ proc[p].shared = FALSE
  BY Running DEF MemoryInv, MmapFixed
<1>1. PICK len \in Lens, start \in BrkBase .. MMAP_CEILING - 1 :
        /\ mem' = NewPages(m(start, len), root, start, len, "rw")
        /\ proc' = [proc EXCEPT ![p].vmas =
                      IF NewPagesOk(m(start, len), root, start, len)
                      THEN cut(start, len) \cup {Vma(start, len, "rw", "private")}
                      ELSE cut(start, len)]
  BY DEF MmapFixed
<1>2. len \in Nat /\ len >= 1 /\ start \in Nat /\ start \in Pages
  BY CallLengths, MemoryAssumption DEF Pages, BrkBase
<1> DEFINE u == m(start, len)
           W == cut(start, len)
           X == W \cup {Vma(start, len, "rw", "private")}
           pr1 == WithVmas(proc, p, W)
<1>5. /\ Runner(u, pr1, p) /\ (\A f \in u.free : f < u.next) /\ Known(u, pr1)
      /\ pr1[p].root = root /\ pr1[p].vmas = W /\ WithVmas(pr1, p, X) = WithVmas(proc, p, X)
  <2>1. Runner(mem, proc, p) /\ proc \in [Procs -> ProcTypes]
    BY <1>0, RunnerIs DEF Good
  <2>2. Known(u, pr1) /\ Good(u, pr1, obj)
    BY <1>0, <1>2, <2>1, CutKnown, MunmapStep DEF WithVmas
  <2> HIDE DEF X, W, u
  <2>3. /\ Exclusive(pr1, p) /\ pr1[p].root = proc[p].root /\ pr1[p].vmas = W
        /\ WithVmas(pr1, p, X) = WithVmas(proc, p, X)
    BY <1>0, <2>1, VmasSet
  <2>4. pr1[p].shared = FALSE
    BY <1>0, <2>1, VmasOnly
  <2> HIDE DEF pr1
  <2>5. Runner(u, pr1, p) /\ \A f \in u.free : f < u.next
    BY <2>2, <2>3, <2>4, RunnerIs
  <2> QED
    BY <2>2, <2>3, <2>5
<1>4. /\ mem' = NewPages(u, root, start, len, "rw")
      /\ NewPagesOk(u, root, start, len) => proc' = WithVmas(proc, p, X)
      /\ ~NewPagesOk(u, root, start, len) => proc' = pr1
  BY <1>1 DEF WithVmas
<1> HIDE DEF u, W, X, pr1, root
<1>6. u \in MemTypes /\ root \in Frames
  BY <1>5 DEF Runner
<1>7. Adds(u, mem', pr1[p].root,
           IF NewPagesOk(u, root, start, len) THEN start .. start + len - 1 ELSE {})
  BY <1>2, <1>4, <1>5, <1>6, NewPagesAdd
<1>8. /\ NewPagesOk(u, root, start, len) =>
           Known(mem', WithVmas(pr1, p, pr1[p].vmas \cup {Vma(start, len, "rw", "private")}))
      /\ ~NewPagesOk(u, root, start, len) => Known(mem', pr1)
  BY <1>2, <1>5, <1>7, AddsVma
<1>9. X = pr1[p].vmas \cup {Vma(start, len, "rw", "private")}
  BY <1>5 DEF X
<1> QED
  BY <1>4, <1>5, <1>8, <1>9

LEMMA MmapSharedFixedKnown ==
  ASSUME MemoryInv, Known(mem, proc), NEW p \in Procs, MmapSharedFixed(p)
  PROVE  Known(mem', proc')
<1> DEFINE root == proc[p].root
           V == proc[p].vmas
           cut(start) == munmap_vmas(V, start, 1)
           m(start) == Unmapped(mem, root, Covered(V, start, 1))
<1>0. /\ Good(mem, proc, obj) /\ Exclusive(proc, p) /\ proc[p].shared = FALSE
  BY Running DEF MemoryInv, MmapSharedFixed
<1>1. PICK o \in Objects, start \in MMAP_FLOOR .. MMAP_CEILING - 1 :
        /\ obj[o].frames # <<>>
        /\ mem' = SharedPages(m(start), root, start, SubSeq(obj[o].frames, 1, 1), "rw",
                              RingGone(o))
        /\ proc' = [proc EXCEPT ![p].vmas =
                      IF FreeRun(m(start), root, start, 1) = 1
                      THEN cut(start) \cup {Vma(start, 1, "rw", o)} ELSE cut(start)]
  BY DEF MmapSharedFixed
<1>2. start \in Nat /\ start \in Pages
  BY MemoryAssumption DEF Pages, BrkBase
<1> DEFINE n == 1
           fr == SubSeq(obj[o].frames, 1, 1)
           u == m(start)
           W == cut(start)
           X == W \cup {Vma(start, n, "rw", o)}
           pr1 == WithVmas(proc, p, W)
           gone == RingGone(o)
<1>3. n \in Nat /\ n >= 1
  OBVIOUS
<1>4. fr \in Seq(Frames) /\ Len(fr) = n
  <2>1. obj[o].frames \in Seq(Frames)
    BY <1>0 DEF Good, ObjTypes
  <2>2. Len(obj[o].frames) >= 1
    BY <1>1, <2>1
  <2> QED
    BY <2>1, <2>2
<1>7. /\ Runner(u, pr1, p) /\ (\A f \in u.free : f < u.next) /\ Known(u, pr1)
      /\ pr1[p].root = root /\ pr1[p].vmas = W /\ WithVmas(pr1, p, X) = WithVmas(proc, p, X)
  <2>1. Runner(mem, proc, p) /\ proc \in [Procs -> ProcTypes]
    BY <1>0, RunnerIs DEF Good
  <2>2. Known(u, pr1) /\ Good(u, pr1, obj)
    BY <1>0, <1>2, <1>3, <2>1, CutKnown, MunmapStep DEF WithVmas
  <2> HIDE DEF X, W, u
  <2>3. /\ Exclusive(pr1, p) /\ pr1[p].root = proc[p].root /\ pr1[p].vmas = W
        /\ WithVmas(pr1, p, X) = WithVmas(proc, p, X)
    BY <1>0, <2>1, VmasSet
  <2>4. pr1[p].shared = FALSE
    BY <1>0, <2>1, VmasOnly
  <2> HIDE DEF pr1
  <2>5. Runner(u, pr1, p) /\ \A f \in u.free : f < u.next
    BY <2>2, <2>3, <2>4, RunnerIs
  <2> QED
    BY <2>2, <2>3, <2>5
<1>6. /\ mem' = SharedPages(u, root, start, fr, "rw", gone)
      /\ FreeRun(u, root, start, n) = n => proc' = WithVmas(proc, p, X)
      /\ FreeRun(u, root, start, n) # n => proc' = pr1
  BY <1>1 DEF WithVmas
<1> HIDE DEF u, W, X, n, fr, gone, pr1, root
<1>8. u \in MemTypes /\ root \in Frames
  BY <1>7 DEF Runner
<1>9. Adds(u, mem', pr1[p].root,
           IF FreeRun(u, root, start, n) = n THEN start .. start + n - 1 ELSE {})
  BY <1>2, <1>3, <1>4, <1>6, <1>7, <1>8, SharedPagesAdd
<1>10. /\ FreeRun(u, root, start, n) = n =>
            Known(mem', WithVmas(pr1, p, pr1[p].vmas \cup {Vma(start, n, "rw", o)}))
       /\ FreeRun(u, root, start, n) # n => Known(mem', pr1)
  BY <1>2, <1>3, <1>7, <1>9, AddsVma
<1>11. X = pr1[p].vmas \cup {Vma(start, n, "rw", o)}
  BY <1>7 DEF X
<1> QED
  BY <1>6, <1>7, <1>10, <1>11

(***************************************************************************)
(* munmap and mprotect.                                                    *)
(***************************************************************************)
LEMMA MunmapKnown ==
  ASSUME MemoryInv, Known(mem, proc), NEW p \in Procs, Munmap(p) \/ Mprotect(p)
  PROVE  Known(mem', proc')
<1>0. /\ Good(mem, proc, obj) /\ Exclusive(proc, p) /\ proc[p].shared = FALSE
  BY Running DEF MemoryInv, Munmap, Mprotect
<1>1. Runner(mem, proc, p)
  BY <1>0, RunnerIs
<1>2. CASE Munmap(p)
  <2>1. PICK start \in MMAP_FLOOR .. MMAP_CEILING - 1, len \in Lens :
          /\ mem' = Unmapped(mem, proc[p].root, Covered(proc[p].vmas, start, len))
          /\ proc' = [proc EXCEPT ![p].vmas = munmap_vmas(proc[p].vmas, start, len)]
    BY <1>2 DEF Munmap
  <2>2. len \in Nat /\ len >= 1 /\ start \in Nat
    BY CallLengths, MemoryAssumption
  <2> QED
    BY <1>1, <2>1, <2>2, CutKnown DEF WithVmas
<1>3. CASE Mprotect(p)
  <2>1. PICK start \in MMAP_FLOOR .. MMAP_CEILING - 1, len \in Lens, prot \in Prots :
          /\ proc' = [proc EXCEPT ![p].vmas = mprotect_vmas(proc[p].vmas, start, len, prot)]
          /\ mem' = [mem EXCEPT !.pt[proc[p].root] =
                       Protected(mem.pt[proc[p].root], Covered(proc[p].vmas, start, len), prot)]
    BY <1>3 DEF Mprotect
  <2>2. len \in Nat /\ len >= 1 /\ start \in Nat
    BY CallLengths, MemoryAssumption
  <2> DEFINE range == Covered(proc[p].vmas, start, len)
  <2>3. Known([mem EXCEPT !.pt[proc[p].root] = Protected(mem.pt[proc[p].root], range, prot)],
              WithVmas(proc, p, mprotect_vmas(proc[p].vmas, start, len, prot)))
    <3> HIDE DEF range
    <3> QED
      BY <1>1, <2>2, ProtectKnown
  <2> QED
    BY <2>1, <2>3 DEF WithVmas
<1> QED
  BY <1>2, <1>3

(***************************************************************************)
(* brk.                                                                    *)
(***************************************************************************)
LEMMA BrkKnown ==
  ASSUME MemoryInv, Known(mem, proc), NEW p \in Procs, Brk(p)
  PROVE  Known(mem', proc')
<1> DEFINE P == proc[p]
           old == P.brk
           root == P.root
<1>0. /\ Good(mem, proc, obj) /\ Exclusive(proc, p) /\ P.shared = FALSE /\ P.state = "live"
  BY Running DEF MemoryInv, Brk
<1>1. Runner(mem, proc, p) /\ \A f \in mem.free : f < mem.next
  BY <1>0, RunnerIs
<1>2. /\ mem \in MemTypes /\ proc \in [Procs -> ProcTypes] /\ P \in ProcTypes /\ root \in Frames
      /\ old \in Nat /\ SpaceOk(mem.pt[root], P, obj)
  BY <1>0, <1>1, OwnSpace DEF Runner
<1>3. PICK brk \in BrkBase .. MMAP_FLOOR :
        \/ /\ brk < old /\ mem' = Freed(mem, root, brk .. old - 1)
           /\ proc' = [proc EXCEPT ![p].brk = brk]
        \/ /\ brk > old /\ mem' = NewPages(mem, root, old, brk - old, "rw")
           /\ proc' = IF NewPagesOk(mem, root, old, brk - old)
                      THEN [proc EXCEPT ![p].brk = brk] ELSE proc
  BY DEF Brk
<1> DEFINE Q == [P EXCEPT !.brk = brk]
           pr2 == [proc EXCEPT ![p] = Q]
<1>4. pr2 = [proc EXCEPT ![p].brk = brk]
  OBVIOUS
<1>5. /\ brk \in Nat /\ brk >= 1 /\ old >= 1 /\ old \in Pages /\ old - 1 <= TopPage /\ BrkBase = 1
  <2> HIDE DEF P
  <2>1. P.brk \in 1 .. MMAP_FLOOR
    BY <1>2 DEF ProcTypes, BrkBase
  <2> QED
    BY <2>1, MemoryAssumption DEF BrkBase, Pages
<1>6. P = proc[p] /\ root = proc[p].root
  OBVIOUS
<1> HIDE DEF P, root
<1>7. /\ Q.state = "live" /\ Q.shared = FALSE /\ Q.root = root /\ Q.brk = brk /\ Q.vmas = P.vmas
  BY <1>0, <1>2 DEF ProcTypes, root
<1> HIDE DEF Q
<1>8. pr2[p] = Q /\ \A q \in Procs \ {p} : pr2[q] = proc[q]
  BY <1>2
<1> HIDE DEF pr2
<1>9. CASE brk < old /\ mem' = Freed(mem, root, brk .. old - 1) /\ proc' = pr2
  <2> DEFINE range == brk .. old - 1
  <2>1. range \in SUBSET Pages /\ \A i \in range : i \in Heap(P)
    BY <1>2, <1>5, MemoryAssumption DEF Heap, Pages
  <2>2. \A v \in range : Present(mem.pt[root][v])
    BY <1>2, <2>1 DEF SpaceOk, Present
  <2>3. \A i \in Pages : Promised(P, i) => i \in range \/ Promised(Q, i)
    <3> SUFFICES ASSUME NEW i \in Pages, i \in Heap(P) PROVE i \in range \/ i \in Heap(Q)
      BY <1>7 DEF Promised
    <3>1. i \in Nat
      BY MemoryAssumption DEF Pages, BrkBase
    <3> QED
      BY <1>5, <1>7, <3>1 DEF Heap, old
  <2> HIDE DEF range
  <2>4. /\ mem'.roots = mem.roots /\ mem'.lost = mem.lost /\ mem'.left = mem.left
        /\ \A x \in Frames \ {root} : mem'.pt[x] = mem.pt[x]
        /\ \A v \in Pages : mem'.pt[root][v] # NoPage =>
             mem.pt[root][v] # NoPage /\ v \notin range
    <3>1. mem' = Freed(mem, root, range)
      BY <1>9 DEF range
    <3> QED
      BY <1>2, <2>1, <2>2, <3>1, FreedDrops
  <2>5. \A i \in Pages : mem'.pt[root][i] # NoPage =>
           \/ <<root, i>> \in mem'.left \/ Promised(pr2[p], i)
           \/ mem.pt[root][i] # NoPage /\ (Promised(proc[p], i) => Promised(pr2[p], i))
    BY <1>6, <1>8, <2>3, <2>4
  <2>6. /\ mem.lost \subseteq mem'.lost /\ mem.left \subseteq mem'.left
        /\ pr2[p].state = "live" /\ ~pr2[p].shared /\ pr2[p].root = root /\ ~proc[p].shared
    BY <1>0, <1>6, <1>7, <1>8, <2>4
  <2>7. Known(mem', pr2)
    BY <1>0, <1>2, <1>6, <1>8, <2>4, <2>5, <2>6, OwnPagesKnown
  <2> QED
    BY <1>9, <2>7
<1>10. CASE /\ brk > old /\ mem' = NewPages(mem, root, old, brk - old, "rw")
            /\ proc' = IF NewPagesOk(mem, root, old, brk - old) THEN pr2 ELSE proc
  <2> DEFINE n == brk - old
             ok == NewPagesOk(mem, root, old, n)
             A == IF ok THEN old .. old + n - 1 ELSE {}
  <2>1. n \in Nat /\ old + n - 1 = brk - 1
    BY <1>2, <1>5, <1>10
  <2>2. mem' = NewPages(mem, root, old, n, "rw") /\ proc' = IF ok THEN pr2 ELSE proc
    BY <1>10
  <2>3. \A i \in Pages : i \in old .. brk - 1 \/ i \in Heap(P) => i \in Heap(Q)
    <3> SUFFICES ASSUME NEW i \in Pages, i \in old .. brk - 1 \/ i \in Heap(P)
                 PROVE  i \in Heap(Q)
      OBVIOUS
    <3>1. i \in Nat
      BY MemoryAssumption DEF Pages, BrkBase
    <3> QED
      BY <1>2, <1>5, <1>7, <1>10, <3>1 DEF Heap, old
  <2>4. \A i \in old .. brk - 1 : i \in Pages
    BY <1>2, <1>5, MemoryAssumption DEF Pages
  <2> HIDE DEF n, ok
  <2>5. Adds(mem, mem', root, A)
    BY <1>1, <1>2, <1>5, <2>1, <2>2, NewPagesAdd DEF ok
  <2>6. CASE ok
    <3>1. \A i \in A : Promised(pr2[p], i)
      BY <1>8, <2>1, <2>3, <2>4, <2>6 DEF Promised
    <3>2. \A i \in Pages : Promised(proc[p], i) => Promised(pr2[p], i)
      BY <1>6, <1>7, <1>8, <2>3 DEF Promised
    <3> HIDE DEF A
    <3>4. Covers(proc, pr2, p, A)
      BY <1>6, <1>7, <1>8, <3>1, <3>2 DEF Covers
    <3>3. Known(mem', pr2)
      BY <1>1, <1>6, <2>5, <3>4, AddsKnown
    <3> QED
      BY <2>2, <2>6, <3>3
  <2>7. CASE ~ok
    <3>1. Adds(mem, mem', root, {})
      BY <2>5, <2>7
    <3>3. Covers(proc, proc, p, {})
      BY <1>0, <1>6 DEF Covers
    <3>2. Known(mem', proc)
      BY <1>1, <1>6, <3>1, <3>3, AddsKnown
    <3> QED
      BY <2>2, <2>7, <3>2
  <2> QED
    BY <2>6, <2>7
<1> QED
  BY <1>3, <1>4, <1>9, <1>10

(***************************************************************************)
(* Objects, rings and descriptors: no page table changes.                  *)
(***************************************************************************)
LEMMA ObjectsKnown ==
  ASSUME MemoryInv, Known(mem, proc), NEW p \in Procs,
         ShmemCreate(p) \/ SetupRings(p) \/ SetupRingsFails(p)
  PROVE  Known(mem', proc')
<1>0. /\ mem \in MemTypes /\ proc \in [Procs -> ProcTypes] /\ \A f \in mem.free : f < mem.next
  BY DEF MemoryInv, Good, Counted
<1>1. \A n \in 0 .. Len(AvailSeq(mem)) : Taken(mem, n) \in MemTypes
  BY <1>0, TakenFacts
<1>2. \A n \in 0 .. Len(AvailSeq(mem)) : Quiet(mem, Returned(mem, n))
  <2> TAKE n \in 0 .. Len(AvailSeq(mem))
  <2>1. Quiet(mem, Taken(mem, n)) /\ \A k : Quiet(Taken(mem, n), Released(Taken(mem, n), k))
    BY <1>0, <1>1, QuietFrames
  <2> QED
    BY <2>1 DEF Returned, Quiet
<1>3. \A L : \A n \in 0 .. Len(AvailSeq(mem)) :
        Quiet(mem, [Taken(mem, n) EXCEPT !.lost = @ \cup L])
  <2> TAKE L
  <2> TAKE n \in 0 .. Len(AvailSeq(mem))
  <2> DEFINE t == Taken(mem, n)
  <2>1. Quiet(mem, t) /\ t \in MemTypes
    BY <1>0, <1>1, QuietFrames
  <2> HIDE DEF t
  <2>2. Quiet(t, [t EXCEPT !.lost = @ \cup L])
    BY <2>1, QuietFrames
  <2>3. Quiet(mem, [t EXCEPT !.lost = @ \cup L])
    BY <2>1, <2>2 DEF Quiet
  <2> QED
    BY <2>3 DEF t
<1>4. Len(AvailSeq(mem)) \in Nat
  BY <1>0, AvailFacts
<1>5. \A n : Quiet(mem, Taken(mem, n))
  BY <1>0, QuietFrames
<1>6. Quiet(mem, mem')
  <2>1. CASE ShmemCreate(p)
    <3> DEFINE got(n) == Min({n, Len(AvailSeq(mem))})
    <3>1. PICK n \in Lens :
            \/ mem' = Taken(mem, n)
            \/ mem' = [Taken(mem, got(n)) EXCEPT
                         !.lost = @ \cup Range(SubSeq(AvailSeq(mem), 1, got(n)))]
            \/ got(n) = n /\ mem' = Returned(mem, n)
      BY <2>1 DEF ShmemCreate
    <3> DEFINE k == got(n)
               L == Range(SubSeq(AvailSeq(mem), 1, k))
    <3>2. n \in Nat
      BY CallLengths
    <3>3. k \in 0 .. Len(AvailSeq(mem))
      <4>1. k = IF n <= Len(AvailSeq(mem)) THEN n ELSE Len(AvailSeq(mem))
        BY <1>4, <3>2, OfTwo
      <4> QED
        BY <1>4, <3>2, <4>1
    <3>4. \/ mem' = Taken(mem, n) \/ mem' = [Taken(mem, k) EXCEPT !.lost = @ \cup L]
          \/ mem' = Returned(mem, k)
      BY <3>1
    <3> HIDE DEF k, L
    <3> QED
      BY <1>2, <1>3, <1>5, <3>3, <3>4
  <2>2. CASE SetupRings(p)
    BY <1>5, <2>2 DEF SetupRings
  <2>3. CASE SetupRingsFails(p)
    <3> DEFINE L == {AvailSeq(mem)[1]}
    <3>1. \/ /\ Len(AvailSeq(mem)) = 1
             /\ mem' = [Taken(mem, 1) EXCEPT !.lost = @ \cup L]
          \/ Len(AvailSeq(mem)) >= 2 /\ mem' = Returned(mem, 2)
      BY <2>3 DEF SetupRingsFails
    <3> HIDE DEF L
    <3>2. CASE /\ Len(AvailSeq(mem)) = 1 /\ mem' = [Taken(mem, 1) EXCEPT !.lost = @ \cup L]
      <4>1. 1 \in 0 .. Len(AvailSeq(mem))
        BY <3>2
      <4> QED
        BY <1>3, <3>2, <4>1
    <3>3. CASE Len(AvailSeq(mem)) >= 2 /\ mem' = Returned(mem, 2)
      <4>1. 2 \in 0 .. Len(AvailSeq(mem))
        BY <1>4, <3>3
      <4> QED
        BY <1>2, <3>3, <4>1
    <3> QED
      BY <3>1, <3>2, <3>3
  <2> QED
    BY <2>1, <2>2, <2>3
<1>7. \A q \in Procs : Same(proc[q], proc'[q])
  <2>1. proc' = proc \/ \E F : proc' = [proc EXCEPT ![p].fds = F]
    BY DEF ShmemCreate, SetupRings, SetupRingsFails
  <2>2. \A q \in Procs : Same(proc[q], proc[q])
    BY DEF Same
  <2> QED
    BY <1>0, <2>1, <2>2, FdsOnly
<1> QED
  BY <1>6, <1>7, QuietKnown

LEMMA FdsKnown ==
  ASSUME MemoryInv, Known(mem, proc), NEW p \in Procs, NEW q \in Procs,
         CloseFd(p) \/ PassFd(p, q) \/ Clone(p, q)
  PROVE  Known(mem', proc')
<1>0. mem \in MemTypes /\ proc \in [Procs -> ProcTypes]
  BY DEF MemoryInv, Good
<1>1. Quiet(mem, mem) /\ \A n : Quiet(mem, Released(mem, n))
  BY <1>0, QuietFrames DEF Quiet
<1>2. \A x \in Procs : Same(proc[x], proc[x])
  BY DEF Same
<1>3. Quiet(mem, mem')
  BY <1>1 DEF CloseFd, PassFd, Clone, FdsBecome, WithoutDropped
<1>4. \A x \in Procs : proc[x].state = "live" /\ ~proc[x].shared => Same(proc[x], proc'[x])
  <2>1. CASE CloseFd(p) \/ PassFd(p, q)
    <3>1. \E x \in Procs : \E F : proc' = [proc EXCEPT ![x].fds = F]
      BY <2>1 DEF CloseFd, PassFd, FdsBecome
    <3> QED
      BY <1>0, <3>1, FdsOnly
  <2>2. CASE Clone(p, q)
    <3>1. /\ proc[q].state # "live" /\ \A x \in Procs \ {q} : proc'[x] = proc[x]
      BY <1>0, <2>2 DEF Clone
    <3> QED
      BY <1>2, <3>1
  <2> QED
    BY <2>1, <2>2
<1> QED
  BY <1>3, <1>4, QuietKnown

(***************************************************************************)
(* An address space goes, and what was left behind in it.                  *)
(***************************************************************************)
LEMMA CleanedTables ==
  ASSUME NEW m \in MemTypes, NEW root \in Frames
  PROVE  LET c == CleanedUp(m, root)
         IN  /\ c.roots = m.roots \ {root} /\ c.lost = m.lost
             /\ \A x \in Frames \ {root} : c.pt[x] = m.pt[x]
             /\ \A x \in m.left : x[1] # root => x \in c.left
<1> DEFINE table == m.pt[root]
           k == [f \in Frames |-> Cardinality({v \in Pages : table[v].frame = f})]
           done == Released(m, k)
           c == CleanedUp(m, root)
           last == {f \in Frames : LastRelease(m.refcounts[f], k[f])}
           counts == [f \in Frames |-> RefRelease(m.refcounts[f], k[f])]
           left2 == {x \in m.left : x[1] # root}
           free2 == done.free \cup {root}
           roots2 == m.roots \ {root}
<1>1. /\ done.roots = m.roots /\ done.pt = m.pt /\ done.lost = m.lost /\ done.left = m.left
  BY TablesKept
<1>2. done = [m EXCEPT !.refcounts = counts, !.free = m.free \cup last,
                       !.stale = m.stale \ last]
  BY DEF Released
<1>3. c = [done EXCEPT !.pt[root] = EmptyTable, !.roots = roots2, !.free = free2,
                       !.left = left2]
  BY <1>1 DEF CleanedUp
<1> HIDE DEF left2, free2, counts, last, k, roots2
<1>4. /\ c.roots = roots2 /\ c.lost = done.lost /\ c.left = left2
      /\ c.pt = [done.pt EXCEPT ![root] = EmptyTable]
  <2> HIDE DEF c, done
  <2> QED
    BY <1>2, <1>3 DEF MemTypes
<1>5. m.pt \in [Frames -> [Pages -> Entries]]
  BY DEF MemTypes
<1> HIDE DEF c, done
<1>6. \A x \in Frames \ {root} : c.pt[x] = m.pt[x]
  BY <1>1, <1>4, <1>5
<1> QED
  BY <1>1, <1>4, <1>6 DEF c, left2, roots2

(***************************************************************************)
(* A new address space has the stack, and nothing else is used in it.      *)
(***************************************************************************)
LEMMA LoadedTables ==
  ASSUME NEW m \in MemTypes, \A f \in m.free : f < m.next, CanLoad(m)
  PROVE  LET t == Loaded(m)
             root == AvailSeq(m)[1]
         IN  /\ t.roots = m.roots \cup {root} /\ t.lost = m.lost /\ t.left = m.left
             /\ \A x \in Frames \ {root} : t.pt[x] = m.pt[x]
             /\ \A v \in Pages : t.pt[root][v] # NoPage => v = TopPage
<1> DEFINE q == AvailSeq(m)
           root == q[1]
           rest == Taken(m, 1)
           stack == [frame |-> rest.next, prot |-> "rw"]
           table == [EmptyTable EXCEPT ![TopPage] = stack]
           next2 == rest.next + 1
           roots2 == m.roots \cup {root}
           t == Loaded(m)
<1>1. q \in Seq(Frames) /\ q # <<>> /\ Len(q) \in Nat
  BY AvailFacts DEF CanLoad
<1>2. root \in Frames /\ 1 \in 0 .. Len(AvailSeq(m))
  <2> HIDE DEF q
  <2>1. Len(q) >= 1
    BY <1>1
  <2>2. q[1] \in Frames
    BY <1>1, <2>1
  <2> QED
    BY <1>1, <2>1, <2>2 DEF q
<1>3. /\ rest \in MemTypes /\ rest.roots = m.roots /\ rest.pt = m.pt
      /\ rest.lost = m.lost /\ rest.left = m.left
  BY <1>2, TakenFacts
<1>4. t = [rest EXCEPT !.next = next2, !.roots = roots2, !.pt[root] = table]
  BY <1>3 DEF Loaded
<1>5. \A v \in Pages : table[v] # NoPage => v = TopPage
  <2> HIDE DEF stack
  <2> QED
    BY DEF EmptyTable
<1> HIDE DEF next2, roots2, table, rest, root, t
<1>6. /\ t.roots = roots2 /\ t.lost = rest.lost /\ t.left = rest.left
      /\ t.pt = [rest.pt EXCEPT ![root] = table]
  BY <1>3, <1>4 DEF MemTypes
<1>7. m.pt \in [Frames -> [Pages -> Entries]]
  BY DEF MemTypes
<1>8. t.pt[root] = table /\ \A x \in Frames \ {root} : t.pt[x] = m.pt[x]
  BY <1>2, <1>3, <1>6, <1>7
<1> QED
  BY <1>3, <1>5, <1>6, <1>8 DEF t, root, roots2

\* The address spaces of m2 are some of those of t, and p has none of them for itself.
Survive(m2, t, pr, p) ==
  /\ m2.roots \subseteq t.roots /\ m2.lost = t.lost
  /\ \A x \in m2.roots : /\ m2.pt[x] = t.pt[x]
                         /\ \A i \in Pages : <<x, i>> \in t.left => <<x, i>> \in m2.left
                         /\ (pr[p].state = "live" /\ ~pr[p].shared) => pr[p].root # x

Moved(pr, pr2, p, root) ==
  /\ pr2[p].state = "live" /\ pr2[p].shared = FALSE /\ pr2[p].root = root
  /\ \A q \in Procs \ {p} : pr2[q] = pr[q]

(***************************************************************************)
(* spawn and execve: the process knows of its stack, and whoever has       *)
(* another address space stays.                                            *)
(***************************************************************************)
LEMMA LoadKnown ==
  ASSUME NEW m \in MemTypes, \A f \in m.free : f < m.next, CanLoad(m), NEW pr, Known(m, pr),
         NEW p \in Procs, NEW m2, NEW pr2,
         AvailSeq(m)[1] \notin m.roots, AvailSeq(m)[1] \in Frames,
         Survive(m2, Loaded(m), pr, p),
         Moved(pr, pr2, p, AvailSeq(m)[1])
  PROVE  Known(m2, pr2)
<1> DEFINE t == Loaded(m)
           root == AvailSeq(m)[1]
<1>1. /\ t.roots = m.roots \cup {root} /\ t.lost = m.lost /\ t.left = m.left
      /\ \A x \in Frames \ {root} : t.pt[x] = m.pt[x]
      /\ \A v \in Pages : t.pt[root][v] # NoPage => v = TopPage
  BY LoadedTables
<1> SUFFICES ASSUME NEW x \in m2.roots \ m2.lost PROVE Explained(m2, pr2, x)
  BY DEF Known
<1>5. Survive(m2, t, pr, p) /\ root \notin m.roots
  OBVIOUS
<1>6. /\ pr2[p].state = "live" /\ pr2[p].shared = FALSE /\ pr2[p].root = root
      /\ \A q \in Procs \ {p} : pr2[q] = pr[q]
  BY DEF Moved
<1> HIDE DEF t, root
<1>2. /\ m2.pt[x] = t.pt[x] /\ (\A i \in Pages : <<x, i>> \in t.left => <<x, i>> \in m2.left)
      /\ (pr[p].state = "live" /\ ~pr[p].shared) => pr[p].root # x
      /\ x \in t.roots \ t.lost
  <2>1. x \in m2.roots /\ x \in t.roots \ t.lost
    <3>1. m2.roots \subseteq t.roots /\ m2.lost = t.lost
      BY Zenon, <1>5 DEF Survive
    <3> QED
      BY <3>1
  <2>2. /\ m2.pt[x] = t.pt[x] /\ (\A i \in Pages : <<x, i>> \in t.left => <<x, i>> \in m2.left)
        /\ (pr[p].state = "live" /\ ~pr[p].shared) => pr[p].root # x
    BY Zenon, <1>5, <2>1 DEF Survive
  <2> QED
    BY <2>1, <2>2
<1>3. CASE x = root
  <2> SUFFICES ASSUME NEW i \in Pages, m2.pt[x][i] # NoPage PROVE Knows(pr2, x, i)
    BY DEF Explained
  <2>1. i = TopPage
    BY <1>1, <1>2, <1>3
  <2> QED
    BY <1>3, <1>6, <2>1 DEF Knows, Promised
<1>4. CASE x # root
  <2>1. x \in m.roots \ m.lost /\ x \in Frames
    BY <1>1, <1>2, <1>4 DEF MemTypes
  <2>2. Explained(m, pr, x) /\ m2.pt[x] = m.pt[x]
    BY <1>1, <1>2, <1>4, <2>1 DEF Known
  <2>3. \A i \in Pages : <<x, i>> \in m.left => <<x, i>> \in m2.left
    BY <1>1, <1>2
  <2>4. \A q \in Procs : pr[q].state = "live" /\ ~pr[q].shared /\ pr[q].root = x =>
                           Same(pr[q], pr2[q])
    BY <1>2, <1>6 DEF Same
  <2> QED
    BY <2>2, <2>3, <2>4, StaysExplained
<1> QED
  BY <1>3, <1>4

LEMMA SpawnKnown ==
  ASSUME MemoryInv, Known(mem, proc), NEW p \in Procs, Spawn(p)
  PROVE  Known(mem', proc')
<1> DEFINE root == AvailSeq(mem)[1]
           new == [NoProcess EXCEPT !.state = "live", !.root = root]
<1>0. /\ mem \in MemTypes /\ proc \in [Procs -> ProcTypes] /\ obj \in [Objects -> ObjTypes]
      /\ Counted(mem, Refs(mem, obj)) /\ CanLoad(mem) /\ \A f \in mem.free : f < mem.next
  BY DEF MemoryInv, Good, Spawn, Counted
<1>1. mem' = Loaded(mem) /\ proc' = [proc EXCEPT ![p] = new] /\ proc[p].state # "live"
  BY DEF Spawn
<1>2. root \in Frames /\ root \notin mem.roots
  BY <1>0, LoadedFacts
<1>3. new.state = "live" /\ new.shared = FALSE /\ new.root = root
  BY DEF NoProcess
<1>4. proc'[p] = new /\ \A q \in Procs \ {p} : proc'[q] = proc[q]
  BY <1>0, <1>1
<1> HIDE DEF new
<1>5. Survive(mem', Loaded(mem), proc, p)
  BY <1>1 DEF Survive
<1>6. Moved(proc, proc', p, root)
  BY <1>3, <1>4 DEF Moved
<1> QED
  BY <1>0, <1>2, <1>5, <1>6, LoadKnown

LEMMA ExecveKnown ==
  ASSUME MemoryInv, Known(mem, proc), NEW p \in Procs, Execve(p)
  PROVE  Known(mem', proc')
<1> DEFINE root == AvailSeq(mem)[1]
           P == proc[p]
           new == [P EXCEPT !.root = root, !.shared = FALSE, !.brk = BrkBase, !.vmas = {}]
           t == Loaded(mem)
<1>0. /\ mem \in MemTypes /\ proc \in [Procs -> ProcTypes] /\ obj \in [Objects -> ObjTypes]
      /\ Counted(mem, Refs(mem, obj)) /\ CanLoad(mem) /\ \A f \in mem.free : f < mem.next
  BY DEF MemoryInv, Good, Execve, Counted
<1>1. mem' = OldSpace(p, t) /\ proc' = [proc EXCEPT ![p] = new]
  BY DEF Execve
<1>2. P.state = "live" /\ P \in ProcTypes /\ P.root \in mem.roots /\ P.root \in Frames
  BY <1>0, Leaves DEF Execve, MemTypes
<1>3. root \in Frames /\ root \notin mem.roots /\ t \in MemTypes
  BY <1>0, LoadedFacts
<1>4. mem' = IF P.shared THEN t ELSE CleanedUp(t, P.root)
  BY <1>1 DEF OldSpace
<1>5. new = [[[[P EXCEPT !.root = root] EXCEPT !.shared = FALSE] EXCEPT !.brk = BrkBase]
               EXCEPT !.vmas = {}]
  OBVIOUS
<1>6. proc'[p] = new /\ (\A q \in Procs \ {p} : proc'[q] = proc[q]) /\ P = proc[p]
  BY <1>0, <1>1
<1> HIDE DEF P, new
<1>7. new.state = "live" /\ new.shared = FALSE /\ new.root = root
  BY <1>2, <1>5 DEF ProcTypes
<1> HIDE DEF t
<1>8. Survive(mem', t, proc, p)
  <2>1. CASE P.shared
    BY <1>4, <1>6, <2>1 DEF Survive
  <2>2. CASE ~P.shared
    <3>1. /\ mem'.roots = t.roots \ {P.root} /\ mem'.lost = t.lost
          /\ \A x \in Frames \ {P.root} : mem'.pt[x] = t.pt[x]
          /\ \A x \in t.left : x[1] # P.root => x \in mem'.left
      BY <1>2, <1>3, <1>4, <2>2, CleanedTables
    <3>2. t.roots \subseteq Frames
      BY <1>3 DEF MemTypes
    <3> QED
      BY <1>6, <3>1, <3>2 DEF Survive
  <2> QED
    BY <2>1, <2>2
<1>9. Moved(proc, proc', p, root)
  BY <1>6, <1>7 DEF Moved
<1> QED
  BY <1>0, <1>3, <1>8, <1>9, LoadKnown DEF t

(***************************************************************************)
(* _exit and faults: the space is freed, or given up for lost.             *)
(***************************************************************************)
LEMMA EndsKnown ==
  ASSUME MemoryInv, Known(mem, proc), NEW p \in Procs, Exit(p) \/ Crash(p)
  PROVE  Known(mem', proc')
<1> DEFINE P == proc[p]
           m == IF Exit(p) THEN OldSpace(p, mem) ELSE [mem EXCEPT !.lost = @ \cup {P.root}]
<1>0. mem \in MemTypes /\ proc \in [Procs -> ProcTypes] /\ Good(mem, proc, obj)
  BY DEF MemoryInv, Good
<1>1. \E pr : FdsBecome(m, pr) /\ pr = [proc EXCEPT ![p] = NoProcess]
  BY DEF Exit, Crash
<1>2. mem' = WithoutDropped(m, proc') /\ \A q \in Procs \ {p} : proc'[q] = proc[q]
  BY <1>0, <1>1 DEF FdsBecome
<1>3. P.root \in Frames
  BY <1>0, Leaves DEF Exit, Crash, MemTypes
<1>4. /\ m.roots \subseteq mem.roots
      /\ m.lost = mem.lost \/ m.lost = mem.lost \cup {P.root}
      /\ \A x \in m.roots \ m.lost :
           /\ m.pt[x] = mem.pt[x]
           /\ \A i \in Pages : <<x, i>> \in mem.left => <<x, i>> \in m.left
           /\ ~P.shared => P.root # x
  <2>1. CASE Exit(p) /\ P.shared
    BY <2>1 DEF OldSpace
  <2>2. CASE Exit(p) /\ ~P.shared
    <3>0. m = CleanedUp(mem, P.root)
      BY <2>2 DEF OldSpace
    <3> HIDE DEF m
    <3>1. /\ m.roots = mem.roots \ {P.root} /\ m.lost = mem.lost
          /\ \A x \in Frames \ {P.root} : m.pt[x] = mem.pt[x]
          /\ \A x \in mem.left : x[1] # P.root => x \in m.left
      BY <1>0, <1>3, <3>0, CleanedTables
    <3>2. mem.roots \subseteq Frames
      BY <1>0 DEF MemTypes
    <3> QED
      BY <3>1, <3>2
  <2>3. CASE ~Exit(p)
    <3>1. m = [mem EXCEPT !.lost = @ \cup {P.root}]
      BY <2>3
    <3> HIDE DEF m, P
    <3>2. m.roots = mem.roots /\ m.pt = mem.pt /\ m.left = mem.left /\ m.lost = mem.lost \cup {P.root}
      BY <1>0, <3>1 DEF MemTypes
    <3> QED
      BY <3>2
  <2> QED
    BY <2>1, <2>2, <2>3
<1>5. m \in MemTypes
  <2>1. CASE Exit(p) /\ P.shared
    BY <1>0, <2>1 DEF OldSpace
  <2>2. CASE Exit(p) /\ ~P.shared
    <3>1. /\ m = CleanedUp(mem, P.root) /\ P.root \in mem.roots /\ obj \in [Objects -> ObjTypes]
          /\ Counted(mem, Refs(mem, obj))
      BY <1>0, <2>2, Leaves DEF OldSpace, Good, Exit
    <3> QED
      BY <1>0, <3>1, CleanedUpFacts
  <2>3. CASE ~Exit(p)
    <3> DEFINE lost2 == mem.lost \cup {P.root}
    <3>1. m = [mem EXCEPT !.lost = lost2] /\ lost2 \in SUBSET Frames
      BY <1>0, <1>3, <2>3 DEF MemTypes
    <3> HIDE DEF m, lost2
    <3> QED
      BY <1>0, <3>1 DEF MemTypes
  <2> QED
    BY <2>1, <2>2, <2>3
<1> HIDE DEF m
<1>6. Quiet(m, mem')
  BY <1>2, <1>5, QuietFrames DEF WithoutDropped
<1>7. ASSUME NEW x \in mem'.roots \ mem'.lost
      PROVE  /\ x \in mem.roots \ mem.lost /\ mem'.pt[x] = mem.pt[x]
             /\ \A i \in Pages : <<x, i>> \in mem.left => <<x, i>> \in mem'.left
             /\ \A q \in Procs : proc[q].state = "live" /\ ~proc[q].shared /\ proc[q].root = x =>
                                   Same(proc[q], proc'[q])
  <2>1. x \in m.roots \ m.lost /\ mem'.pt = m.pt /\ mem'.left = m.left
    BY <1>6 DEF Quiet
  <2>2. /\ x \in mem.roots \ mem.lost /\ mem'.pt[x] = mem.pt[x] /\ (~P.shared => P.root # x)
        /\ \A i \in Pages : <<x, i>> \in mem.left => <<x, i>> \in mem'.left
    BY <1>4, <2>1
  <2>3. \A q \in Procs : proc[q].state = "live" /\ ~proc[q].shared /\ proc[q].root = x =>
                           Same(proc[q], proc'[q])
    BY <1>2, <2>2 DEF Same
  <2> QED
    BY <2>2, <2>3
<1> QED
  BY <1>7, KnownStays

(***************************************************************************)
(* Every call keeps it.                                                    *)
(***************************************************************************)
LEMMA KnownStep ==
  ASSUME MemoryInv, Known(mem, proc), Next
  PROVE  Known(mem', proc')
<1>1. ASSUME NEW p \in Procs,
             \/ Mmap(p) \/ MmapFixed(p) \/ MmapShared(p) \/ MmapSharedFixed(p)
             \/ Munmap(p) \/ Mprotect(p) \/ Brk(p)
      PROVE  Known(mem', proc')
  BY <1>1, MmapKnown, MmapFixedKnown, MmapSharedKnown, MmapSharedFixedKnown,
     MunmapKnown, BrkKnown
<1>2. ASSUME NEW p \in Procs,
             \/ ShmemCreate(p) \/ SetupRings(p) \/ SetupRingsFails(p) \/ CloseFd(p)
             \/ Spawn(p) \/ Execve(p) \/ Exit(p) \/ Crash(p)
      PROVE  Known(mem', proc')
  BY <1>2, ObjectsKnown, FdsKnown, SpawnKnown, ExecveKnown, EndsKnown
<1>3. ASSUME NEW p \in Procs, NEW q \in Procs, PassFd(p, q) \/ Clone(p, q)
      PROVE  Known(mem', proc')
  BY <1>3, FdsKnown
<1>4. CASE ClosePort
  <2>1. Quiet(mem, mem') /\ \A q \in Procs : Same(proc[q], proc'[q])
    <3>1. mem \in MemTypes
      BY DEF MemoryInv, Good
    <3> QED
      BY <1>4, <3>1, QuietFrames DEF ClosePort, Same
  <2> QED
    BY <2>1, QuietKnown
<1> QED
  BY <1>1, <1>2, <1>3, <1>4 DEF Next, Step

-----------------------------------------------------------------------------
(***************************************************************************)
(* Before the first process all memory is available and nothing refers to  *)
(* it.                                                                     *)
(***************************************************************************)
LEMMA MemoryStarts ==
  ASSUME Init
  PROVE  MemoryInv
<1> USE DEF Init
<1>1. /\ mem.free = {} /\ mem.next = 1 /\ mem.roots = {} /\ mem.lost = {}
      /\ mem.refcounts = [f \in Frames |-> 0] /\ mem.pt = [f \in Frames |-> EmptyTable]
      /\ mem.left = {} /\ mem.stale = {}
  OBVIOUS
<1>2. mem \in MemTypes
  <2>1. 1 \in 1 .. NumFrames + 1
    BY MemoryAssumption
  <2>2. EmptyTable \in [Pages -> Entries]
    BY DEF EmptyTable, Entries
  <2> HIDE DEF EmptyTable
  <2> QED
    BY <2>1, <2>2 DEF MemTypes
<1>3. NoProcess \in ProcTypes /\ NoProcess.state # "live" /\ NoProcess.fds = {}
  BY MemoryAssumption DEF NoProcess, ProcTypes, BrkBase
<1>4. NoObject \in ObjTypes /\ NoObject.frames = <<>> /\ NoObject.port = FALSE
  BY DEF NoObject, ObjTypes
<1>5. /\ proc \in [Procs -> ProcTypes] /\ (\A p \in Procs : proc[p] = NoProcess)
      /\ obj \in [Objects -> ObjTypes] /\ \A o \in Objects : obj[o] = NoObject
  BY <1>3, <1>4
<1>6. \A f \in Frames : Refs(mem, obj)[f] = 0
  <2> TAKE f \in Frames
  <2>1. MapsTo(mem, f) = {}
    BY <1>1 DEF MapsTo
  <2>2. OwnersIn(obj, f) = {}
    <3>1. Range(<<>>) = {}
      BY DEF Range
    <3> QED
      BY <1>4, <1>5, <3>1 DEF OwnersIn
  <2>3. Refs(mem, obj)[f] = 0 + 0
    BY <2>1, <2>2, FS_EmptySet DEF Refs
  <2> QED
    BY <2>3
<1>7. Counted(mem, Refs(mem, obj))
  <2>1. \A f \in Frames : f \in Avail(mem)
    BY <1>1 DEF Avail, Frames
  <2> QED
    BY <1>1, <1>6, <2>1 DEF Counted
<1>8. \A p \in Procs : HasSpace(mem, proc[p], obj)
  BY <1>3, <1>5 DEF HasSpace
<1>9. Rings(obj) /\ \A p \in Procs : \A o \in proc[p].fds : obj[o].alive
  BY <1>3, <1>4, <1>5 DEF Rings
<1> QED
  BY <1>2, <1>5, <1>7, <1>8, <1>9 DEF MemoryInv, Good

(***************************************************************************)
(* Every call keeps the invariant.                                         *)
(***************************************************************************)
LEMMA MemoryStep ==
  ASSUME MemoryInv, [Next]_vars, Clear(mem')
  PROVE  MemoryInv'
<1>1. CASE UNCHANGED vars
  BY <1>1 DEF vars, MemoryInv
<1>2. CASE Next
  <2>1. Good(mem', proc', obj')
    <3>1. ASSUME NEW p \in Procs,
                 \/ Mmap(p) \/ MmapFixed(p) \/ MmapShared(p) \/ MmapSharedFixed(p)
                 \/ Munmap(p) \/ Mprotect(p) \/ Brk(p)
          PROVE  Good(mem', proc', obj')
      BY <3>1, MmapKeeps, MmapFixedKeeps, MmapSharedKeeps, MmapSharedFixedKeeps,
         MunmapKeeps, MprotectKeeps, BrkKeeps
    <3>2. ASSUME NEW p \in Procs,
                 \/ ShmemCreate(p) \/ SetupRings(p) \/ SetupRingsFails(p) \/ CloseFd(p)
                 \/ Spawn(p) \/ Execve(p) \/ Exit(p) \/ Crash(p)
          PROVE  Good(mem', proc', obj')
      BY <3>2, ShmemCreateKeeps, SetupRingsKeeps, SetupRingsFailsKeeps, CloseFdKeeps,
         SpawnKeeps, ExecveKeeps, ExitKeeps, CrashKeeps
    <3>3. ASSUME NEW p \in Procs, NEW q \in Procs, PassFd(p, q) \/ Clone(p, q)
          PROVE  Good(mem', proc', obj')
      BY <3>3, PassFdKeeps, CloneKeeps
    <3>4. CASE ClosePort
      BY <3>4, ClosePortKeeps
    <3> QED
      BY <1>2, <3>1, <3>2, <3>3, <3>4 DEF Next, Step
  <2>2. \E op : Call(op)
    BY <1>2 DEF Next, Step, Mmap, MmapFixed, MmapShared, MmapSharedFixed, Munmap, Mprotect, Brk,
                ShmemCreate, SetupRings, SetupRingsFails, CloseFd, Spawn, Execve, Exit, Crash, PassFd, Clone,
                ClosePort
  <2>3. load' = load /\ calls' = calls + 1
    BY <2>2 DEF Call
  <2> QED
    BY <2>1, <2>3 DEF MemoryInv
<1> QED
  BY <1>1, <1>2

(***************************************************************************)
(* The history variable: until a frame that was mapped through the         *)
(* descriptor of a dropped ring is idle, none is.                          *)
(***************************************************************************)
LEMMA StillClear ==
  ASSUME Next, ~exposed'
  PROVE  ~exposed /\ Clear(mem')
<1>1. exposed' = (exposed \/ mem'.stale \cap Idle(mem') # {})
  BY DEF Next, Watch
<1>2. ~(exposed \/ mem'.stale \cap Idle(mem') # {})
  BY Zenon, <1>1
<1> QED
  BY <1>2 DEF Clear

(***************************************************************************)
(* What is claimed of every state: the invariant, and that every page in   *)
(* use is explained, until the history variable is set.                    *)
(***************************************************************************)
Sound == exposed \in BOOLEAN /\ (exposed \/ (MemoryInv /\ Known(mem, proc)))

(***************************************************************************)
(* Whatever programs do, also with the descriptors of rings whose port is  *)
(* closed: after any sequence of mmap, munmap, mprotect, brk, shared       *)
(* objects, rings, clone, execve, exit and faults the types are right, the *)
(* frame allocator's books agree with the page tables, objects and rings,  *)
(* every process has its address space, and every page in use is known to  *)
(* a process or was left behind by a call.  The one exception is a state   *)
(* the code reaches after IoRing::drop: from the moment a frame mapped     *)
(* through the descriptor of a dropped ring is free, a page table or lost, *)
(* nothing is claimed.                                                     *)
(***************************************************************************)
THEOREM MemorySafe ==
  Spec => []Sound
<1>1. Init => Sound
  <2>1. Init => mem.roots = {}
    BY DEF Init
  <2> QED
    BY <2>1, MemoryStarts DEF Known, Sound, Init
<1>2. ASSUME Sound, [Next]_vars PROVE Sound'
  <2>1. CASE UNCHANGED vars
    BY <1>2, <2>1 DEF vars, MemoryInv, Sound, Known, Explained, Knows
  <2>2. CASE Next
    <3>1. exposed' \in BOOLEAN
      BY Zenon, <2>2 DEF Next, Watch
    <3>2. ASSUME ~exposed' PROVE MemoryInv' /\ Known(mem, proc)'
      <4>1. ~exposed /\ Clear(mem')
        BY <2>2, <3>2, StillClear
      <4>2. MemoryInv /\ Known(mem, proc)
        BY <1>2, <4>1 DEF Sound
      <4>3. MemoryInv' /\ Known(mem', proc')
        BY <2>2, <4>1, <4>2, MemoryStep, KnownStep
      <4> QED
        BY <4>3
    <3> QED
      BY <3>1, <3>2 DEF Sound
  <2> QED
    BY <1>2, <2>1, <2>2
<1> QED
  BY <1>1, <1>2, PTL DEF Spec

(***************************************************************************)
(* Every part of the state has its type, until a frame of a dropped ring   *)
(* is exposed.                                                             *)
(***************************************************************************)
THEOREM MemoryTypes ==
  Spec => [](exposed \/ TypeOK)
<1>1. ASSUME Sound PROVE exposed \/ TypeOK
  <2> SUFFICES ASSUME ~exposed PROVE TypeOK
    OBVIOUS
  <2>1. /\ mem \in MemTypes /\ (\A p \in Procs : proc[p] \in ProcTypes)
        /\ \A o \in Objects : obj[o] \in ObjTypes
    BY <1>1 DEF Sound, MemoryInv, Good
  <2>2. exposed \in BOOLEAN
    BY <1>1 DEF Sound
  <2> QED
    BY <2>1, <2>2 DEF TypeOK, MemTypes, ProcTypes, ObjTypes
<1> QED
  BY <1>1, MemorySafe, PTL

(***************************************************************************)
(* The books say what FramesAccounted says.                                *)
(***************************************************************************)
LEMMA BooksBalance ==
  ASSUME MemoryInv, NEW f \in Frames
  PROVE  \/ /\ f \in mem.free \/ f >= mem.next
            /\ References(f) = 0 /\ mem.refcounts[f] = 0 /\ f \notin mem.roots
         \/ /\ f \notin mem.free /\ f < mem.next
            /\ \/ f \in mem.roots /\ References(f) = 0
               \/ f \in mem.lost /\ References(f) = 0
               \/ /\ References(f) > 0 /\ f \notin mem.roots
                  /\ mem.refcounts[f] = IF References(f) >= 2 THEN References(f) ELSE 0
<1>0. /\ mem \in MemTypes /\ obj \in [Objects -> ObjTypes] /\ Counted(mem, Refs(mem, obj))
  BY DEF MemoryInv, Good
<1> DEFINE n == Refs(mem, obj)[f]
<1>1. n \in Nat
  BY <1>0, RefsFacts
<1>2. References(f) = n
  <2>1. Mappings(f) = MapsTo(mem, f) /\ Owners(f) = OwnersIn(obj, f)
    BY DEF Mappings, MapsTo, Owners, OwnersIn
  <2> QED
    BY <2>1 DEF References, Refs
<1>3. /\ mem.refcounts[f] = IF n >= 2 THEN n ELSE 0
      /\ f \in Avail(mem) => n = 0 /\ f \notin mem.roots
      /\ f \in mem.roots => n = 0
      /\ f \notin Avail(mem) /\ f \notin mem.roots /\ n = 0 => f \in mem.lost
  BY <1>0 DEF Counted
<1>4. f \in Nat /\ mem.next \in Nat
  BY <1>0, MemoryAssumption DEF MemTypes, Frames
<1>5. f \in Avail(mem) <=> f \in mem.free \/ f >= mem.next
  BY DEF Avail
<1> HIDE DEF n
<1>6. CASE f \in Avail(mem)
  BY <1>2, <1>3, <1>5, <1>6
<1>7. CASE f \notin Avail(mem)
  <2>1. f \notin mem.free /\ f < mem.next
    BY <1>4, <1>5, <1>7
  <2>2. CASE n = 0
    BY <1>2, <1>3, <1>7, <2>1, <2>2
  <2>3. CASE n # 0
    BY <1>1, <1>2, <1>3, <2>1, <2>3
  <2> QED
    BY <2>2, <2>3
<1> QED
  BY <1>6, <1>7

(***************************************************************************)
(* Every frame is accounted for: what can be handed out has no reference,  *)
(* the count of every other frame is the number of its references, and the *)
(* pages that no process knows of are those that a call left behind.       *)
(***************************************************************************)
THEOREM FramesBalance ==
  Spec => []FramesAccounted
<1>1. ASSUME MemoryInv, Known(mem, proc) PROVE FramesAccounted
  <2>1. ASSUME NEW r \in mem.roots \ mem.lost, NEW i \in Pages, mem.pt[r][i] # NoPage
        PROVE  KnownPage(r, i) \/ <<r, i>> \in mem.left
    <3>1. <<r, i>> \in mem.left \/ Knows(proc, r, i)
      BY <1>1, <2>1 DEF Known, Explained
    <3>2. Knows(proc, r, i) => KnownPage(r, i)
      BY DEF Knows, KnownPage, Promised, Heap, Live
    <3> QED
      BY <3>1, <3>2
  <2> QED
    BY <1>1, <2>1, BooksBalance DEF FramesAccounted
<1>2. Sound => FramesAccounted
  BY <1>1 DEF Sound, FramesAccounted
<1> QED
  BY <1>2, MemorySafe, PTL

(***************************************************************************)
(* What the VMA map of a running process promises is mapped, and no two    *)
(* intervals overlap.                                                      *)
(***************************************************************************)
THEOREM VmasBacked ==
  Spec => []VmaBacked
<1>1. ASSUME MemoryInv PROVE VmaBacked
  <2> SUFFICES ASSUME NEW p \in Procs, Runs(p)
      PROVE  /\ \A v \in proc[p].vmas : \A i \in PagesOf(v) :
                  LET entry == mem.pt[proc[p].root][i] IN
                  /\ entry # NoPage /\ entry.prot = v.prot
                  /\ v.kind # "private" => entry.frame \in Range(obj[v.kind].frames)
             /\ \A v, w \in proc[p].vmas : v # w => PagesOf(v) \cap PagesOf(w) = {}
    BY DEF VmaBacked
  <2>1. SpaceOk(mem.pt[proc[p].root], proc[p], obj) /\ GoodVmas(proc[p].vmas)
    <3>1. Good(mem, proc, obj) /\ proc[p].state = "live"
      BY <1>1, Running DEF MemoryInv
    <3> QED
      BY <3>1, OwnSpace
  <2>2. \A v \in proc[p].vmas : Backed(mem.pt[proc[p].root], v, obj)
    BY <2>1 DEF SpaceOk
  <2>3. ASSUME NEW v \in proc[p].vmas, NEW w \in proc[p].vmas, v # w
        PROVE  PagesOf(v) \cap PagesOf(w) = {}
    <3>1. /\ v \in Vmas /\ w \in Vmas /\ End(v) <= MMAP_CEILING /\ End(w) <= MMAP_CEILING
          /\ End(v) <= w.start \/ End(w) <= v.start
      BY <2>1, <2>3 DEF GoodVmas
    <3>2. /\ v.start \in Nat /\ w.start \in Nat /\ End(v) \in Nat /\ End(w) \in Nat
          /\ PagesOf(v) \subseteq Pages \ {TopPage}
          /\ \A i \in Nat : i \in PagesOf(v) <=> v.start <= i /\ i < End(v)
          /\ \A i \in Nat : i \in PagesOf(w) <=> w.start <= i /\ i < End(w)
      BY <3>1, VmaFacts
    <3>3. Pages \subseteq Nat
      BY MemoryAssumption DEF Pages, BrkBase
    <3>4. ASSUME NEW i \in PagesOf(v), i \in PagesOf(w) PROVE FALSE
      <4>1. i \in Nat
        BY <3>2, <3>3
      <4>2. v.start <= i /\ i < End(v) /\ w.start <= i /\ i < End(w)
        BY <3>2, <3>4, <4>1
      <4> QED
        BY <3>1, <3>2, <4>1, <4>2
    <3> QED
      BY <3>4
  <2> QED
    BY <2>2, <2>3 DEF Backed
<1>2. Sound => VmaBacked
  BY <1>1 DEF Sound, VmaBacked
<1> QED
  BY <1>2, MemorySafe, PTL

(***************************************************************************)
(* No private page of any address space is visible at a second place.      *)
(***************************************************************************)
THEOREM PrivateIsolated ==
  Spec => []Isolation
<1>1. ASSUME MemoryInv PROVE Isolation
  <2> SUFFICES ASSUME NEW r \in mem.roots, NEW i \in Pages, PrivatePage(r, i),
                      mem.pt[r][i].frame \notin mem.stale
      PROVE  Mappings(mem.pt[r][i].frame) = {<<r, i>>}
    BY DEF Isolation
  <2>0. Good(mem, proc, obj) /\ mem \in MemTypes /\ obj \in [Objects -> ObjTypes]
    BY <1>1 DEF MemoryInv, Good
  <2>1. PICK p \in Procs : proc[p].root = r /\ Private(proc[p], i)
    BY DEF PrivatePage, Private, Heap
  <2>2. r \in Frames /\ 0 \notin Frames
    BY <2>0 DEF MemTypes, Frames
  <2>3. proc[p].state = "live"
    <3>1. HasSpace(mem, proc[p], obj)
      BY <2>0 DEF Good
    <3>2. NoProcess.root = 0
      BY DEF NoProcess
    <3> QED
      BY <2>1, <2>2, <3>1, <3>2 DEF HasSpace
  <2>4. /\ proc[p] \in ProcTypes /\ mem.pt[r] \in [Pages -> Entries]
        /\ SpaceOk(mem.pt[r], proc[p], obj) /\ Alone(mem.pt[r], proc[p], mem, obj)
    BY <2>0, <2>1, <2>3, OwnSpace
  <2> DEFINE f == mem.pt[r][i].frame
  <2>5. f \in Frames
    BY <2>1, <2>4, PrivateUsed
  <2>6. Refs(mem, obj)[f] = 1
    BY <2>1, <2>4 DEF Alone, Sole
  <2> HIDE DEF f
  <2>7. /\ IsFiniteSet(MapsTo(mem, f)) /\ Cardinality(MapsTo(mem, f)) \in Nat
        /\ Cardinality(OwnersIn(obj, f)) \in Nat
        /\ Cardinality(MapsTo(mem, f)) + Cardinality(OwnersIn(obj, f)) = 1
    BY <2>0, <2>5, <2>6, RefsFacts
  <2>8. <<r, i>> \in MapsTo(mem, f)
    BY DEF MapsTo, f
  <2>9. Cardinality(MapsTo(mem, f)) = 1
    <3>1. Cardinality(MapsTo(mem, f)) # 0
      BY <2>7, <2>8, FS_EmptySet
    <3> QED
      BY <2>7, <3>1
  <2>10. \E x : MapsTo(mem, f) = {x}
    BY <2>7, <2>9, FS_Singleton
  <2>11. MapsTo(mem, f) = {<<r, i>>}
    BY <2>8, <2>10
  <2>12. Mappings(f) = MapsTo(mem, f)
    BY DEF Mappings, MapsTo
  <2> QED
    BY <2>11, <2>12 DEF f
<1>2. Sound => Isolation
  BY <1>1 DEF Sound, Isolation
<1> QED
  BY <1>2, MemorySafe, PTL

(***************************************************************************)
(* find_gap_topdown finds the highest gap in the VMA map of any process,   *)
(* as long as none of its mappings ends below the floor of the region and  *)
(* no frame of a dropped ring is exposed.                                  *)
(***************************************************************************)
THEOREM GapFinder ==
  Spec => [](exposed \/ GapIsHighest)
<1>1. ASSUME MemoryInv PROVE GapIsHighest
  <2> SUFFICES ASSUME NEW p \in Procs, NEW len \in Lens,
                      \A v \in proc[p].vmas : End(v) >= MMAP_FLOOR
      PROVE  find_gap_topdown(proc[p].vmas, len) = HighestGap(proc[p].vmas, len)
    BY DEF GapIsHighest
  <2>1. GoodVmas(proc[p].vmas)
    <3>1. Good(mem, proc, obj)
      BY <1>1 DEF MemoryInv
    <3>2. CASE proc[p].state = "live"
      BY <3>1, <3>2, OwnSpace
    <3>3. CASE proc[p].state # "live"
      <4>1. proc[p] = NoProcess
        BY <3>1, <3>3 DEF Good, HasSpace
      <4> QED
        BY <4>1 DEF NoProcess, GoodVmas
    <3> QED
      BY <3>2, <3>3
  <2>2. len \in Nat /\ len >= 1
    BY <1>1, CallLengths
  <2> QED
    BY <2>1, <2>2, FindsHighest
<1>2. Sound => exposed \/ GapIsHighest
  BY <1>1 DEF Sound
<1> QED
  BY <1>2, MemorySafe, PTL
=============================================================================
