------------------------------ MODULE FdTable ------------------------------
(***************************************************************************)
(* The descriptor table of a process (libkernel/src/process.rs, Process:   *)
(* alloc_fd to get_fd_entry), as operators on sequences.  Slot fd of the   *)
(* code is position fd + 1 here.  An entry is the object and the           *)
(* close-on-exec flag; the objects told apart are the console and the two  *)
(* ends of one pipe.                                                       *)
(***************************************************************************)
EXTENDS Naturals, Sequences, FiniteSets

CONSTANT MAX_FDS        \* file.rs: 64; small here, so that tables fill up

ASSUME MaxFdsAssumption == MAX_FDS \in Nat /\ MAX_FDS >= 3

Objects == {"console", "pipe_r", "pipe_w"}

FdEntry == [object : Objects, cloexec : BOOLEAN]

NoEntry == [object |-> "none", cloexec |-> FALSE]     \* None in a slot

FdTables == UNION {[1 .. n -> FdEntry \cup {NoEntry}] : n \in 0 .. MAX_FDS}

Entry(object, cloexec) == [object |-> object, cloexec |-> cloexec]

\* stdin, stdout and stderr
default_fd_table == [i \in 1 .. 3 |-> Entry("console", FALSE)]

IsOpen(table, i) == i \in DOMAIN table /\ table[i] # NoEntry

Opened(table, object) == {i \in DOMAIN table : table[i].object = object}

FreeSlots(table) == {i \in DOMAIN table : table[i] = NoEntry}

\* alloc_fd_with_flags succeeds: a slot is free or the table may grow
CanAlloc(table) == FreeSlots(table) # {} \/ Len(table) < MAX_FDS

\* The lowest free slot, or a new one at the end.
AllocFd(table, object, cloexec) ==
  IF FreeSlots(table) # {}
  THEN [table EXCEPT ![CHOOSE i \in FreeSlots(table) :
                          \A j \in FreeSlots(table) : i <= j] = Entry(object, cloexec)]
  ELSE Append(table, Entry(object, cloexec))

CloseFd(table, i) == [table EXCEPT ![i] = NoEntry]

\* set_fd puts an entry into slot i whatever was there, growing the table
\* with empty slots; MAX_FDS is not consulted.
SetFd(table, i, entry) ==
  [j \in 1 .. IF i > Len(table) THEN i ELSE Len(table) |->
     IF j = i THEN entry ELSE IF j \in DOMAIN table THEN table[j] ELSE NoEntry]

CloseAllFds(table) == [i \in DOMAIN table |-> NoEntry]

CloseCloexecFds(table) ==
  [i \in DOMAIN table |-> IF table[i].cloexec THEN NoEntry ELSE table[i]]

=============================================================================
