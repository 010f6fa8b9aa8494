------------------------------ MODULE Signals ------------------------------
(***************************************************************************)
(* The signal state of a process (libkernel/src/signal.rs) and what        *)
(* delivery does to it (libkernel/src/syscall.rs).  Bit masks are sets of  *)
(* signal numbers.  Of a SigAction only the kind of handler is kept: the   *)
(* runs' handlers have an empty sa_mask.                                   *)
(***************************************************************************)
EXTENDS Naturals

SIGINT  == 2
SIGKILL == 9
SIGSEGV == 11
SIGCHLD == 17
SIGSTOP == 19

Signals == {SIGINT, SIGKILL, SIGSEGV, SIGCHLD, SIGSTOP}

Unblockable == {SIGKILL, SIGSTOP}

Dispositions == {"SIG_DFL", "SIG_IGN", "handler"}

SignalState ==
  [pending : SUBSET Signals, blocked : SUBSET Signals,
   actions : [Signals -> Dispositions]]

NewSignalState ==
  [pending |-> {}, blocked |-> {}, actions |-> [s \in Signals |-> "SIG_DFL"]]

Queue(st, s) == [st EXCEPT !.pending = @ \cup {s}]

Deliverable(st) == st.pending \ st.blocked

\* The lowest-numbered deliverable signal (trailing_zeros of the mask).
NextSignal(st) ==
  CHOOSE s \in Deliverable(st) : \A t \in Deliverable(st) : s <= t

Dequeue(st) == [st EXCEPT !.pending = @ \ {NextSignal(st)}]

IsDefaultTerminate(s) == s \in {SIGINT, SIGKILL, SIGSEGV}

\* What the return path does with a dequeued signal: default-ignored ones
\* and those without a default action (SIGSTOP) are dropped.
Outcome(st, s) ==
  CASE st.actions[s] = "handler"                              -> "deliver"
    [] st.actions[s] = "SIG_DFL" /\ IsDefaultTerminate(s)     -> "terminate"
    [] OTHER                                                  -> "drop"

\* The mask while a handler runs.
BlockForHandler(st, s) == [st EXCEPT !.blocked = (@ \cup {s}) \ Unblockable]

\* rt_sigreturn puts the mask of the frame back.
RestoreMask(st, mask) == [st EXCEPT !.blocked = mask \ Unblockable]

\* rt_sigprocmask
SetMask(st, how, set) ==
  [st EXCEPT !.blocked =
     CASE how = "SIG_BLOCK"   -> @ \cup (set \ Unblockable)
       [] how = "SIG_UNBLOCK" -> @ \ set
       [] how = "SIG_SETMASK" -> set \ Unblockable]

\* rt_sigaction refuses SIGKILL and SIGSTOP.
MayHandle(s) == s \notin Unblockable

SetAction(st, s, disposition) == [st EXCEPT !.actions[s] = disposition]

=============================================================================
