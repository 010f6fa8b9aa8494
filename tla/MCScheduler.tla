---------------------------- MODULE MCScheduler ----------------------------
(***************************************************************************)
(* Instances of Scheduler for TLC.  Thread 0 is the boot thread and first  *)
(* worker, 1 the idle thread, 2 the second worker; the rest are user       *)
(* threads.                                                                *)
(***************************************************************************)
EXTENDS Scheduler

NoDonation == {}

\* Stale waiter slots name any thread: a worker, or a user thread (itself too).
DonateWorkerOrUser == Slots \X {0, 3}

\* Two user threads that exchange messages.
PingPong == {<<3, 4>>, <<4, 3>>}
=============================================================================
