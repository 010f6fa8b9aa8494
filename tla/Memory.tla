------------------------------- MODULE Memory -------------------------------
(***************************************************************************)
(* Memory of the processes: the VMA map and the page table of each         *)
(* address space, the frame allocator, reference counts of shared frames,  *)
(* shared memory objects and the frames of completion rings.               *)
(*                                                                         *)
(* A system call runs with interrupts off, so it is one step.  Addresses   *)
(* are page numbers.  Frames are interchangeable: the lowest one of the    *)
(* free list is handed out.  The tables below a PML4 are counted with it,  *)
(* as the one frame that names the address space; image and stack are one  *)
(* page, at the top.                                                       *)
(*                                                                         *)
(* osl/src/syscalls/mem.rs, shmem.rs; libkernel/src/memory/, gap.rs,       *)
(* shmem.rs, process.rs; osl/src/elf_loader.rs, exec.rs, clone.rs.         *)
(***************************************************************************)
EXTENDS Naturals, FiniteSets, FiniteSetsExt, Sequences, SequencesExt

CONSTANTS Procs,          \* process identifiers
          NumFrames,      \* bound: usable physical frames
          Objects,        \* shared memory objects that may be created
          MMAP_FLOOR, MMAP_CEILING,
          TopPage,        \* the page of the user stack, above the mmap region
          Workloads       \* what a behaviour does: the operations and processes in it,
                          \* bounds on the pages of a call and the number of calls

ASSUME MemoryAssumption ==
  /\ {NumFrames, MMAP_FLOOR, MMAP_CEILING, TopPage} \subseteq Nat
  /\ 2 <= MMAP_FLOOR /\ MMAP_FLOOR < MMAP_CEILING /\ MMAP_CEILING <= TopPage
  /\ IsFiniteSet(Objects) /\ "private" \notin Objects
  /\ \A w \in Workloads : {w.len, w.calls} \subseteq Nat

Frames == 1 .. NumFrames
BrkBase == 1              \* the first page after the ELF image
Pages == BrkBase .. TopPage

Prots == {"none", "r", "rw"}
NoPage == [frame |-> 0, prot |-> "none"]
Entries == [frame : Frames, prot : Prots] \cup {NoPage}

\* kind is "private", or the object of a MAP_SHARED mapping
Vmas == [start : Pages, len : 1 .. TopPage, prot : Prots, kind : Objects \cup {"private"}]

NoProcess == [state |-> "none", root |-> 0, shared |-> FALSE, brk |-> BrkBase,
              vmas |-> {}, fds |-> {}]

VARIABLES
  mem,    \* MemoryServices: free list, next, refcounts, page tables; and history:
          \* lost   frames that nobody can give back
          \* left   used entries <<pml4, page>> that a failed or incomplete call left behind
          \* stale  frames mapped through a ring descriptor after IoRing::drop gave
          \*        them up, until their last reference goes
  proc,   \* pml4, pml4_shared, brk_current, vma_map, descriptors of shared objects
  obj,    \* SharedMemInner: its frames; owned, or frames of an IoRing
  exposed,\* history: a stale frame was on the free list, a page table, or lost
  calls,  \* number of calls so far (bound)
  load    \* the workload of this behaviour

vars == <<mem, proc, obj, exposed, calls, load>>

EmptyTable == [v \in Pages |-> NoPage]

\* port: the IoRing that has the frames lives; ring: the descriptors made with this one
NoObject == [frames |-> <<>>, owned |-> TRUE, port |-> FALSE, alive |-> FALSE, ring |-> {}]

Init ==
  /\ mem = [free |-> {}, next |-> 1, refcounts |-> [f \in Frames |-> 0], roots |-> {},
            pt |-> [f \in Frames |-> EmptyTable], lost |-> {}, left |-> {}, stale |-> {}]
  /\ proc = [p \in Procs |-> NoProcess]
  /\ obj = [o \in Objects |-> NoObject]
  /\ exposed = FALSE /\ calls = 0 /\ load \in Workloads

Live(p) == proc[p].state = "live"

Call(op) == op \in load.ops /\ calls < load.calls /\ calls' = calls + 1 /\ UNCHANGED load

Lens == 1 .. load.len

\* The process runs: it is no vfork parent asleep while its child has the
\* address space, and no vfork child, which calls only execve or _exit.
Runs(p) == /\ Live(p) /\ ~proc[p].shared
           /\ \A q \in Procs \ {p} : Live(q) => proc[q].root # proc[p].root

-----------------------------------------------------------------------------
(***************************************************************************)
(* Frames.                                                                 *)
(***************************************************************************)

Ascending(S) == [i \in 1 .. Cardinality(S) |->
                   CHOOSE f \in S : Cardinality({g \in S : g < f}) = i - 1]

\* What allocate_frame hands out, in order: free list, then unused memory.
AvailSeq(m) == Ascending(m.free) \o [i \in 1 .. NumFrames - m.next + 1 |-> m.next + i - 1]

\* n calls of allocate_frame
Taken(m, n) ==
  LET fromList == Min({n, Cardinality(m.free)}) IN
  [m EXCEPT !.free = @ \ Range(SubSeq(AvailSeq(m), 1, n)),
            !.next = @ + (n - fromList)]

\* Mutant: a frame shared by two stays in the table when one lets go.
RefReleaseKeeps(count, n) == IF n = 0 THEN count ELSE IF count > n THEN count - n ELSE 0

\* n calls of ref_release: the table holds counts of two and more.
RefRelease(count, n) ==
  IF n = 0 THEN count ELSE IF count > n + 1 THEN count - n ELSE 0

\* and the last of them says that the frame is to be freed
LastRelease(count, n) == n > 0 /\ n >= Max({count, 1})

RefShare(count, n) == IF n = 0 THEN count ELSE Max({count, 1}) + n

\* deallocate_frame for every frame that has lost its last owner; n(f)
\* counts the references to f that are given up
Released(m, n) ==
  LET last == {f \in Frames : LastRelease(m.refcounts[f], n[f])} IN
  [m EXCEPT !.refcounts = [f \in Frames |-> RefRelease(m.refcounts[f], n[f])],
            !.free = @ \cup last, !.stale = @ \ last]

\* n frames are allocated and, as a later step fails, given back
Returned(m, n) ==
  LET taken == Range(SubSeq(AvailSeq(m), 1, n)) IN
  Released(Taken(m, n), [f \in Frames |-> IF f \in taken THEN 1 ELSE 0])

(***************************************************************************)
(* Page tables.  The library's unmap finds only present entries, and       *)
(* PROT_NONE pages are not present; its map refuses a used entry.          *)
(***************************************************************************)

Present(entry) == entry # NoPage /\ entry.prot # "none"

\* unmap_and_release_user_page for every page of a range
Unmapped(m, root, range) ==
  LET table == m.pt[root]
      hit   == {v \in range : Present(table[v])}
      miss  == {v \in range : table[v] # NoPage /\ v \notin hit}
  IN  Released([m EXCEPT !.pt[root] = [v \in Pages |-> IF v \in hit THEN NoPage ELSE @[v]],
                         !.left = @ \cup ({root} \X miss)],
               [f \in Frames |-> Cardinality({v \in hit : table[v].frame = f})])

\* unmap_and_free_user_page, for brk: the counts are not consulted.
Freed(m, root, range) ==
  LET hit == {v \in range : Present(m.pt[root][v])} IN
  [m EXCEPT !.pt[root] = [v \in Pages |-> IF v \in hit THEN NoPage ELSE @[v]],
            !.free = @ \cup {m.pt[root][v].frame : v \in hit}]

\* How many pages from start on are unused before the first used one.
FreeRun(m, root, start, n) ==
  Min({n} \cup {v - start : v \in {w \in start .. start + n - 1 : m.pt[root][w] # NoPage}})

WithPages(table, start, frames, prot) ==
  [v \in Pages |-> IF start <= v /\ v < start + Len(frames)
                   THEN [frame |-> frames[v - start + 1], prot |-> prot] ELSE table[v]]

\* alloc_and_map_user_pages, and the loop of mmap_alloc_pages: stops at the
\* first failure and undoes nothing; a frame that could not be mapped is lost.
NewPages(m, root, start, n, prot) ==
  LET run   == FreeRun(m, root, start, n)
      avail == Len(AvailSeq(m))
      got   == Min({run, avail})
      used  == IF got < n /\ got < avail THEN got + 1 ELSE got
  IN  [Taken(m, used) EXCEPT
         !.pt[root] = WithPages(@, start, SubSeq(AvailSeq(m), 1, got), prot),
         !.left = IF got < n THEN @ \cup ({root} \X (start .. start + got - 1)) ELSE @,
         !.lost = @ \cup Range(SubSeq(AvailSeq(m), got + 1, used))]

NewPagesOk(m, root, start, n) ==
  FreeRun(m, root, start, n) = n /\ n <= Len(AvailSeq(m))

\* mmap_shared_pages; gone: the frames are no longer those of their ring
SharedPages(m, root, start, frames, prot, gone) ==
  LET run    == FreeRun(m, root, start, Len(frames))
      mapped == SubSeq(frames, 1, run)
  IN
  [m EXCEPT !.pt[root] = WithPages(@, start, mapped, prot),
            !.left = IF run < Len(frames) THEN @ \cup ({root} \X (start .. start + run - 1))
                     ELSE @,
            !.stale = IF gone THEN @ \cup Range(mapped) ELSE @,
            !.refcounts = [f \in Frames |->
               RefShare(@[f], Cardinality({i \in DOMAIN mapped : mapped[i] = f}))]]

\* cleanup_user_address_space: every used entry, present or not, and the tables
CleanedUp(m, root) ==
  LET table == m.pt[root]
      done  == Released(m, [f \in Frames |-> Cardinality({v \in Pages : table[v].frame = f})])
  IN  [done EXCEPT !.pt[root] = EmptyTable, !.roots = @ \ {root}, !.free = @ \cup {root},
                   !.left = {x \in @ : x[1] # root}]

(* load_elf_address_space: the tables from allocate_frame, the stack from  *)
(* allocate_frame_sequential.  Without frames the kernel panics.           *)
CanLoad(m) == AvailSeq(m) # <<>> /\ Taken(m, 1).next <= NumFrames

Loaded(m) ==
  LET root == AvailSeq(m)[1]
      rest == Taken(m, 1)
  IN  [rest EXCEPT
         !.next = @ + 1, !.roots = @ \cup {root},
         !.pt[root] = [EmptyTable EXCEPT ![TopPage] = [frame |-> rest.next, prot |-> "rw"]]]

(***************************************************************************)
(* VMA maps: non-overlapping intervals, split where a call cuts them.      *)
(***************************************************************************)

End(v) == v.start + v.len
PagesOf(v) == v.start .. End(v) - 1
Overlaps(v, start, end) == v.start < end /\ End(v) > start
Cut(v, start, end) == [v EXCEPT !.start = start, !.len = end - start]

\* What is left of v outside [start, end).
Outside(v, start, end) ==
  (IF v.start < start THEN {Cut(v, v.start, start)} ELSE {})
    \cup (IF end < End(v) THEN {Cut(v, end, End(v))} ELSE {})

Inside(v, start, end) == Cut(v, Max({v.start, start}), Min({End(v), end}))

\* Mutant: a mapping that only begins before the range is not cut.
MunmapVmasWhole(vmas, start, len) ==
  vmas \ {v \in vmas : start <= v.start /\ v.start < start + len}

munmap_vmas(vmas, start, len) ==
  LET hit == {v \in vmas : Overlaps(v, start, start + len)} IN
  (vmas \ hit) \cup UNION {Outside(v, start, start + len) : v \in hit}

\* The pages that are to be unmapped: those of a VMA only.
Covered(vmas, start, len) ==
  UNION {PagesOf(Inside(v, start, start + len)) :
           v \in {w \in vmas : Overlaps(w, start, start + len)}}

mprotect_vmas(vmas, start, len, prot) ==
  munmap_vmas(vmas, start, len)
    \cup {[Inside(v, start, start + len) EXCEPT !.prot = prot] :
            v \in {w \in vmas : Overlaps(w, start, start + len)}}

(* find_gap_topdown walks down from the ceiling; gap_end is the start of   *)
(* the interval above.  0 stands for None.                                 *)
GapEnd(above) == Min({MMAP_CEILING} \cup {v.start : v \in above})

\* Mutant: a gap must be longer than what is asked for.
GapBelowStrict(vmas, v, len) ==
  LET gap_end == GapEnd({w \in vmas : w.start > v.start}) IN
  /\ End(v) <= gap_end
  /\ gap_end > End(v) + len /\ End(v) >= MMAP_FLOOR

GapBelow(vmas, v, len) ==
  LET gap_end == GapEnd({w \in vmas : w.start > v.start}) IN
  /\ End(v) <= gap_end
  /\ gap_end >= End(v) + len /\ End(v) >= MMAP_FLOOR

find_gap_topdown(vmas, len) ==
  LET fits == {v \in vmas : GapBelow(vmas, v, len)} IN
  IF len > MMAP_CEILING - MMAP_FLOOR THEN 0
  ELSE IF fits # {}
  THEN GapEnd({w \in vmas : \A v \in fits : w.start > v.start}) - len
  ELSE IF GapEnd(vmas) >= MMAP_FLOOR + len THEN GapEnd(vmas) - len ELSE 0

-----------------------------------------------------------------------------
(***************************************************************************)
(* System calls.                                                           *)
(***************************************************************************)

Vma(start, len, prot, kind) == [start |-> start, len |-> len, prot |-> prot, kind |-> kind]

\* sys_mmap, MAP_PRIVATE, at the highest gap; anonymous or a copy of a file
Mmap(p) ==
  /\ Call("mmap") /\ Runs(p)
  /\ \E len \in Lens :
       LET base == find_gap_topdown(proc[p].vmas, len)
           root == proc[p].root
       IN  /\ base # 0                                     \* else ENOMEM
           /\ mem' = NewPages(mem, root, base, len, "rw")
           /\ proc' = IF NewPagesOk(mem, root, base, len)
                      THEN [proc EXCEPT ![p].vmas = @ \cup {Vma(base, len, "rw", "private")}]
                      ELSE proc
  /\ UNCHANGED obj

\* MAP_FIXED first unmaps what is there, also if it then fails.
MmapFixed(p) ==
  /\ Call("fixed") /\ Runs(p)
  /\ \E len \in Lens, start \in BrkBase .. MMAP_CEILING - 1 :
       LET root == proc[p].root
           cut  == munmap_vmas(proc[p].vmas, start, len)
           m    == Unmapped(mem, root, Covered(proc[p].vmas, start, len))
       IN  /\ start + len <= MMAP_CEILING
           /\ mem' = NewPages(m, root, start, len, "rw")
           /\ proc' = [proc EXCEPT ![p].vmas =
                         IF NewPagesOk(m, root, start, len)
                         THEN cut \cup {Vma(start, len, "rw", "private")} ELSE cut]
  /\ UNCHANGED obj

(* MAP_SHARED of a descriptor (mmap_shared_inner), whatever became of the  *)
(* frames: a ring descriptor can be mapped after IoRing::drop.             *)
Mappable(p, o) == o \in proc[p].fds

RingGone(o) == ~obj[o].owned /\ ~obj[o].port

MmapShared(p) ==
  /\ Call("shared") /\ Runs(p)
  /\ \E o \in Objects, len \in Lens :
       /\ Mappable(p, o) /\ len <= Len(obj[o].frames)
       /\ LET base == find_gap_topdown(proc[p].vmas, len)
              root == proc[p].root
          IN  /\ base # 0
              /\ mem' = SharedPages(mem, root, base, SubSeq(obj[o].frames, 1, len), "rw",
                                    RingGone(o))
              /\ proc' = IF FreeRun(mem, root, base, len) = len
                         THEN [proc EXCEPT ![p].vmas = @ \cup {Vma(base, len, "rw", o)}]
                         ELSE proc
  /\ UNCHANGED obj

MmapSharedFixed(p) ==
  /\ Call("shared_fixed") /\ Runs(p)
  /\ \E o \in Objects, start \in MMAP_FLOOR .. MMAP_CEILING - 1 :
       /\ Mappable(p, o) /\ obj[o].frames # <<>>
       /\ LET root == proc[p].root
              cut  == munmap_vmas(proc[p].vmas, start, 1)
              m    == Unmapped(mem, root, Covered(proc[p].vmas, start, 1))
          IN  /\ mem' = SharedPages(m, root, start, SubSeq(obj[o].frames, 1, 1), "rw",
                                    RingGone(o))
              /\ proc' = [proc EXCEPT ![p].vmas =
                            IF FreeRun(m, root, start, 1) = 1
                            THEN cut \cup {Vma(start, 1, "rw", o)} ELSE cut]
  /\ UNCHANGED obj

Munmap(p) ==
  /\ Call("munmap") /\ Runs(p)
  /\ \E start \in MMAP_FLOOR .. MMAP_CEILING - 1, len \in Lens :
       /\ Covered(proc[p].vmas, start, len) # {}
       /\ mem' = Unmapped(mem, proc[p].root, Covered(proc[p].vmas, start, len))
       /\ proc' = [proc EXCEPT ![p].vmas = munmap_vmas(@, start, len)]
  /\ UNCHANGED obj

\* update_user_page_flags, which works on entries that are not present too
Protected(table, range, prot) ==
  [v \in Pages |-> IF v \in range /\ table[v] # NoPage
                   THEN [table[v] EXCEPT !.prot = prot] ELSE table[v]]

Mprotect(p) ==
  /\ Call("mprotect") /\ Runs(p)
  /\ \E start \in MMAP_FLOOR .. MMAP_CEILING - 1, len \in Lens, prot \in Prots :
       LET range == Covered(proc[p].vmas, start, len) IN
       /\ range # {}
       /\ proc' = [proc EXCEPT ![p].vmas = mprotect_vmas(@, start, len, prot)]
       /\ mem' = [mem EXCEPT !.pt[proc[p].root] = Protected(@, range, prot)]
  /\ UNCHANGED obj

(* sys_brk: growing maps new pages up to the new break, whatever else is   *)
(* mapped there; shrinking frees pages without looking at their counts.    *)
Brk(p) ==
  /\ Call("brk") /\ Runs(p)
  /\ \E brk \in BrkBase .. MMAP_FLOOR :
       LET old  == proc[p].brk
           root == proc[p].root
       IN  \/ /\ brk < old
              /\ mem' = Freed(mem, root, brk .. old - 1)
              /\ proc' = [proc EXCEPT ![p].brk = brk]
           \/ /\ brk > old
              /\ mem' = NewPages(mem, root, old, brk - old, "rw")
              /\ proc' = IF NewPagesOk(mem, root, old, brk - old)
                         THEN [proc EXCEPT ![p].brk = brk] ELSE proc
  /\ UNCHANGED obj

\* SharedMemInner::new with n frames, allocated one by one
NewObject(n) == [frames |-> SubSeq(AvailSeq(mem), 1, n), owned |-> TRUE, port |-> FALSE,
                 alive |-> TRUE, ring |-> {}]

\* from_existing: a descriptor for a page of an IoRing
RingPage(f, ring) == [frames |-> <<f>>, owned |-> FALSE, port |-> TRUE, alive |-> TRUE,
                      ring |-> ring]

(* shmem_create.  What was allocated before the memory ran out is lost;    *)
(* without a descriptor the object is dropped.                             *)
ShmemCreate(p) ==
  /\ Call("shared") /\ Runs(p)
  /\ \E o \in Objects, n \in Lens :
       LET avail == AvailSeq(mem)
           got   == Min({n, Len(avail)})
       IN  /\ obj[o] = NoObject
           /\ \/ /\ got = n /\ mem' = Taken(mem, n)
                 /\ obj' = [obj EXCEPT ![o] = NewObject(n)]
                 /\ proc' = [proc EXCEPT ![p].fds = @ \cup {o}]
              \/ /\ got < n
                 /\ mem' = [Taken(mem, got) EXCEPT !.lost = @ \cup Range(SubSeq(avail, 1, got))]
                 /\ UNCHANGED <<obj, proc>>
              \/ /\ got = n /\ mem' = Returned(mem, n)               \* EMFILE
                 /\ UNCHANGED <<obj, proc>>

(* io_setup_rings: a page and a descriptor for each of the two rings; the  *)
(* frames belong to the IoRing of the port.                                *)
SetupRings(p) ==
  /\ Call("rings") /\ Runs(p) /\ Len(AvailSeq(mem)) >= 2
  /\ mem' = Taken(mem, 2)
  /\ \E sq, cq \in Objects :
       /\ sq # cq /\ obj[sq] = NoObject /\ obj[cq] = NoObject
       /\ obj' = [obj EXCEPT ![sq] = RingPage(AvailSeq(mem)[1], {sq, cq}),
                             ![cq] = RingPage(AvailSeq(mem)[2], {sq, cq})]
       /\ proc' = [proc EXCEPT ![p].fds = @ \cup {sq, cq}]

(* It fails: IoRing::new has no frame for the completion ring and forgets  *)
(* the one it has, or there is no descriptor for one of the rings and the  *)
(* IoRing is dropped.                                                      *)
SetupRingsFails(p) ==
  /\ Call("rings") /\ Runs(p)
  /\ \/ /\ Len(AvailSeq(mem)) = 1
        /\ mem' = [Taken(mem, 1) EXCEPT !.lost = @ \cup {AvailSeq(mem)[1]}]
     \/ /\ Len(AvailSeq(mem)) >= 2
        /\ mem' = Returned(mem, 2)
  /\ UNCHANGED <<proc, obj>>

\* How many of the objects in S hold each frame.  An object holds it once: its
\* frames were allocated one by one.
HeldBy(S) == [f \in Frames |-> Cardinality({o \in S : f \in Range(obj[o].frames)})]

(* The port's last descriptor is closed: IoRing::drop releases the frames  *)
(* of both rings.                                                          *)
ClosePort ==
  /\ Call("rings")
  /\ \E o \in Objects :
       LET ring == obj[o].ring IN
       /\ obj[o].port
       /\ mem' = Released(mem, HeldBy(ring))
       /\ obj' = [x \in Objects |-> IF x \in ring THEN [obj[x] EXCEPT !.port = FALSE]
                                    ELSE obj[x]]
  /\ UNCHANGED proc

\* A descriptor is passed to another process over a channel.
PassFd(p, q) ==
  /\ Call("pass") /\ Runs(p) /\ Runs(q) /\ p # q
  /\ \E o \in proc[p].fds \ proc[q].fds : proc' = [proc EXCEPT ![q].fds = @ \cup {o}]
  /\ UNCHANGED <<mem, obj>>

\* The objects whose last descriptor is gone when the processes are pr, and
\* which own their frames: SharedMemInner::drop releases them.
Dropped(pr) ==
  {o \in Objects : obj[o].alive /\ obj[o].owned /\ \A q \in Procs : o \notin pr[q].fds}

WithoutDropped(m, pr) == Released(m, HeldBy(Dropped(pr)))

ObjectsLeft(pr) ==
  [o \in Objects |-> IF o \in Dropped(pr) THEN [obj[o] EXCEPT !.alive = FALSE] ELSE obj[o]]

\* The descriptors change to those of pr, the memory from m on.
FdsBecome(m, pr) ==
  /\ proc' = pr
  /\ mem' = WithoutDropped(m, pr)
  /\ obj' = ObjectsLeft(pr)

CloseFd(p) ==
  /\ Call("close") /\ Runs(p)
  /\ \E o \in proc[p].fds : FdsBecome(mem, [proc EXCEPT ![p].fds = @ \ {o}])

(***************************************************************************)
(* Address spaces.                                                         *)
(***************************************************************************)

Spawn(p) ==
  /\ Call("spawn") /\ p \in load.procs /\ proc[p].state = "none" /\ CanLoad(mem)
  /\ mem' = Loaded(mem)
  /\ proc' = [proc EXCEPT ![p] = [NoProcess EXCEPT !.state = "live", !.root = AvailSeq(mem)[1]]]
  /\ UNCHANGED obj

Clone(p, c) ==
  /\ Call("clone") /\ Runs(p) /\ proc[c].state = "none"
  /\ proc' = [proc EXCEPT ![c] = [proc[p] EXCEPT !.shared = TRUE]]
  /\ UNCHANGED <<mem, obj>>

\* Mutant: the address space is freed whoever else uses it.
OldSpaceFreed(p, m) == CleanedUp(m, proc[p].root)

\* pml4_shared: the space is the parent's
OldSpace(p, m) == IF proc[p].shared THEN m ELSE CleanedUp(m, proc[p].root)

Execve(p) ==
  /\ Call("execve") /\ (Runs(p) \/ proc[p].shared)
  /\ CanLoad(mem)
  /\ mem' = OldSpace(p, Loaded(mem))
  /\ proc' = [proc EXCEPT ![p] = [@ EXCEPT !.root = AvailSeq(mem)[1], !.shared = FALSE,
                                          !.brk = BrkBase, !.vmas = {}]]
  /\ UNCHANGED obj

\* terminate_process: descriptors first, then the address space.
Exit(p) ==
  /\ Call("exit") /\ (Runs(p) \/ proc[p].shared)
  /\ FdsBecome(OldSpace(p, mem), [proc EXCEPT ![p] = NoProcess])

(* kill_user_process does not free the address space; the descriptors go   *)
(* when the table entry is dropped.                                        *)
Crash(p) ==
  /\ Call("crash") /\ Runs(p)
  /\ FdsBecome([mem EXCEPT !.lost = @ \cup {proc[p].root}], [proc EXCEPT ![p] = NoProcess])

Step ==
  \/ \E p \in Procs :
       \/ Mmap(p) \/ MmapFixed(p) \/ MmapShared(p) \/ MmapSharedFixed(p)
       \/ Munmap(p) \/ Mprotect(p) \/ Brk(p) \/ ShmemCreate(p) \/ SetupRings(p)
       \/ SetupRingsFails(p)
       \/ CloseFd(p) \/ Spawn(p) \/ Execve(p) \/ Exit(p) \/ Crash(p)
  \/ \E p, q \in Procs : PassFd(p, q) \/ Clone(p, q)
  \/ ClosePort

\* Frames that no page table and no object should show: free, never used, a page
\* table, or lost.
Idle(m) == m.free \cup {f \in Frames : f >= m.next} \cup m.roots \cup m.lost

(* A process that has mapped such a frame through the descriptor of a ring *)
(* that is gone can write the links of the free list, or a page table.     *)
Watch == exposed' = (exposed \/ mem'.stale \cap Idle(mem') # {})

Next == Step /\ Watch

Spec == Init /\ [][Next]_vars

-----------------------------------------------------------------------------

\* Every part of the state has its type.
TypeOK ==
  /\ mem \in [free : SUBSET Frames, next : 1 .. NumFrames + 1,
              refcounts : [Frames -> Nat], roots : SUBSET Frames,
              pt : [Frames -> [Pages -> Entries]], lost : SUBSET Frames,
              left : SUBSET (Frames \X Pages), stale : SUBSET Frames]
  /\ exposed \in BOOLEAN
  /\ \A p \in Procs :
       /\ proc[p].state \in {"none", "live"} /\ proc[p].root \in Frames \cup {0}
       /\ proc[p].brk \in BrkBase .. MMAP_FLOOR /\ proc[p].vmas \subseteq Vmas
       /\ proc[p].fds \subseteq Objects /\ proc[p].shared \in BOOLEAN
  /\ \A o \in Objects : obj[o].frames \in Seq(Frames) /\ obj[o].ring \subseteq Objects

\* Where a frame is mapped.
Mappings(f) == {x \in mem.roots \X Pages : mem.pt[x[1]][x[2]].frame = f}

\* The objects that own a frame: a shared memory object, or the ring of an open port.
Owners(f) == {o \in Objects : f \in Range(obj[o].frames)
                               /\ (obj[o].port \/ (obj[o].alive /\ obj[o].owned))}

References(f) == Cardinality(Mappings(f)) + Cardinality(Owners(f))

\* A page that a process with this address space knows of: image and stack, heap, VMAs.
KnownPage(r, i) ==
  \E p \in Procs :
    /\ Live(p) /\ proc[p].root = r
    /\ \/ i = TopPage \/ i \in (BrkBase .. proc[p].brk - 1)
       \/ \E v \in proc[p].vmas : i \in PagesOf(v)

(* Every frame is accounted for: what is on the free list or not yet       *)
(* handed out is referred to by no page table, object or ring ("no longer  *)
(* mapped in any page table"), every other frame is an address space or    *)
(* has an owner, and its count is the number of owners.  Frames are lost   *)
(* only where an allocation failed half-way or a process crashed; a page   *)
(* that no process knows of is used only if a call that failed half-way,   *)
(* or munmap of a PROT_NONE page, left it behind.  All this until a frame  *)
(* that was mapped through the descriptor of a dropped ring is idle.       *)
FramesAccounted ==
  ~exposed =>
    /\ \A f \in Frames :
         \/ /\ f \in mem.free \/ f >= mem.next
            /\ References(f) = 0 /\ mem.refcounts[f] = 0 /\ f \notin mem.roots
         \/ /\ f \notin mem.free /\ f < mem.next
            /\ \/ f \in mem.roots /\ References(f) = 0
               \/ f \in mem.lost /\ References(f) = 0
               \/ /\ References(f) > 0 /\ f \notin mem.roots
                  /\ mem.refcounts[f] = IF References(f) >= 2 THEN References(f) ELSE 0
    /\ \A r \in mem.roots \ mem.lost : \A i \in Pages :
         mem.pt[r][i] # NoPage => KnownPage(r, i) \/ <<r, i>> \in mem.left

(* docs/syscalls/munmap.md: "each page in the unmapped range is removed    *)
(* from the page table".  Not so for PROT_NONE pages, nor where a call     *)
(* fails half-way.                                                         *)
NothingLeft ==
  \A r \in mem.roots \ mem.lost : \A i \in Pages : mem.pt[r][i] # NoPage => KnownPage(r, i)

(* deallocate_frame's contract, "frame is no longer mapped in any page     *)
(* table", whatever a process does with ring descriptors.                  *)
FreeUnmapped == \A f \in mem.free : Mappings(f) = {}

(* What the VMA map promises is there, with the exception above: intervals *)
(* do not overlap, and every page of one is mapped with its protection, to *)
(* the object's frame if it is shared.                                     *)
VmaBacked ==
  ~exposed => \A p \in Procs : Runs(p) =>
    /\ \A v \in proc[p].vmas : \A i \in PagesOf(v) :
         LET entry == mem.pt[proc[p].root][i] IN
         /\ entry # NoPage /\ entry.prot = v.prot
         /\ v.kind # "private" => entry.frame \in Range(obj[v.kind].frames)
    /\ \A v, w \in proc[p].vmas : v # w => PagesOf(v) \cap PagesOf(w) = {}

\* Image, stack, heap or a MAP_PRIVATE mapping of a process with this space.
PrivatePage(r, i) ==
  \E p \in Procs :
    /\ proc[p].root = r
    /\ \/ i = TopPage \/ i \in (BrkBase .. proc[p].brk - 1)
       \/ \E v \in proc[p].vmas : v.kind = "private" /\ i \in PagesOf(v)

(* No private page is visible at a second place, in any address space,     *)
(* whatever was shared, unmapped or reused before; except through the      *)
(* descriptor of a dropped ring, which shows who has its old frame now.    *)
Isolation ==
  ~exposed =>
    \A r \in mem.roots : \A i \in Pages :
      PrivatePage(r, i) /\ mem.pt[r][i].frame \notin mem.stale =>
        Mappings(mem.pt[r][i].frame) = {<<r, i>>}

\* Without the exception.
AlwaysIsolated ==
  \A r \in mem.roots : \A i \in Pages : PrivatePage(r, i) =>
    Mappings(mem.pt[r][i].frame) = {<<r, i>>}

\* The reference definition of the gap finder.
HighestGap(vmas, len) ==
  LET gaps == {b \in MMAP_FLOOR .. MMAP_CEILING - len :
                 \A v \in vmas : PagesOf(v) \cap (b .. b + len - 1) = {}}
  IN  IF len > MMAP_CEILING - MMAP_FLOOR \/ gaps = {} THEN 0 ELSE Max(gaps)

(* find_gap_topdown finds "the highest gap of at least len bytes", after   *)
(* any sequence of calls, as long as no mapping ends below the floor.      *)
GapIsHighest ==
  \A p \in Procs, len \in Lens :
    (\A v \in proc[p].vmas : End(v) >= MMAP_FLOOR) =>
       find_gap_topdown(proc[p].vmas, len) = HighestGap(proc[p].vmas, len)

(* The same with mappings anywhere: a MAP_FIXED mapping that ends below    *)
(* the floor hides the whole region above it.                              *)
GapAlwaysHighest ==
  \A p \in Procs, len \in Lens :
    find_gap_topdown(proc[p].vmas, len) = HighestGap(proc[p].vmas, len)

=============================================================================
