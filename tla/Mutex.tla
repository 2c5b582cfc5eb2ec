------------------------------- MODULE Mutex -------------------------------
(***************************************************************************)
(* What lock.c promises its two callers (include/lock.h): of the processes *)
(* of one binary at most one holds the lock, and whoever stops holding it, *)
(* by releasing it or by dying, leaves it free for the next one.           *)
(***************************************************************************)
CONSTANTS Proc,      \* the processes of one binary
          None       \* "nobody", not a process

VARIABLE holder      \* the process that holds the lock, or None

MutexInit == holder = None

(* lock_acquire() returns 1. *)
Acquire(p) == holder = None /\ holder' = p

(* lock_release(), or the kernel closing the descriptors of a dead process. *)
Release(p) == holder = p /\ holder' = None

MutexNext == \E p \in Proc : Acquire(p) \/ Release(p)

MutexSpec == MutexInit /\ [][MutexNext]_holder
=============================================================================
