------------------------------ MODULE LockFile ------------------------------
(***************************************************************************)
(* lock.c, call by call: the name LOCK_PATH, the inodes it may lead to, the *)
(* open descriptions on them and the flock() each inode carries.  A "Proc" *)
(* is the owner of one lockfile_t.  Processes interleave between any two   *)
(* system calls and may die at any of them.                                *)
(***************************************************************************)
EXTENDS Integers

CONSTANTS Proc, Inode,
          None      \* no inode, no holder, no pid

ASSUME NoneAssumption == None \notin Proc \cup Inode

VARIABLES path,     \* the inode the name LOCK_PATH leads to, or None
          flocked,  \* inode -> the process whose description holds its flock
          pid,      \* inode -> the process whose pid the file contains
          fd,       \* process -> the inode its descriptor is open on
          lr,       \* process -> what its last lock_acquire() returned
          pc        \* process -> the next system call it makes

vars == <<path, flocked, pid, fd, lr, pc>>

LockTypeOK ==
    /\ path \in Inode \cup {None}
    /\ flocked \in [Inode -> Proc \cup {None}]
    /\ pid \in [Inode -> Proc \cup {None}]
    /\ fd \in [Proc -> Inode \cup {None}]
    /\ lr \in [Proc -> {1, 0, -1}]
    /\ pc \in [Proc -> {"idle", "flock", "truncate", "write_pid", "held", "close"}]

Init ==
    /\ path = None
    /\ flocked = [i \in Inode |-> None]
    /\ pid = [i \in Inode |-> None]
    /\ fd = [p \in Proc |-> None]
    /\ lr = [p \in Proc |-> -1]
    /\ pc = [p \in Proc |-> "idle"]
-----------------------------------------------------------------------------
(* lock_acquire() *)

(* An inode nothing refers to yet, for open() to create. *)
Fresh(i) == i # path /\ \A p \in Proc : fd[p] # i

(* open(path, O_CREAT | O_RDWR | O_NOFOLLOW) *)
Open(p) ==
    /\ pc[p] = "idle"
    /\ \E i \in Inode :
        /\ i = path \/ (path = None /\ Fresh(i))
        /\ path' = i
        /\ fd' = [fd EXCEPT ![p] = i]
    /\ pc' = [pc EXCEPT ![p] = "flock"]
    /\ UNCHANGED <<flocked, pid, lr>>

(* open() fails: permissions, or a symbolic link at the path. *)
OpenFails(p) ==
    /\ pc[p] = "idle"
    /\ lr' = [lr EXCEPT ![p] = -1]
    /\ UNCHANGED <<path, flocked, pid, fd, pc>>

(* close() without a lock, and lock_acquire() returns `result`. *)
GiveUp(p, result) ==
    /\ fd' = [fd EXCEPT ![p] = None]
    /\ lr' = [lr EXCEPT ![p] = result]
    /\ pc' = [pc EXCEPT ![p] = "idle"]

FlockUnchecked(p) ==                              \* result ignored
    /\ pc[p] = "flock"
    /\ flocked' = [flocked EXCEPT ![fd[p]] = p]
    /\ pc' = [pc EXCEPT ![p] = "truncate"]
    /\ UNCHANGED <<path, pid, fd, lr>>

(* flock(fd, LOCK_EX | LOCK_NB) succeeds. *)
Flock(p) ==
    /\ pc[p] = "flock"
    /\ flocked[fd[p]] = None
    /\ flocked' = [flocked EXCEPT ![fd[p]] = p]
    /\ pc' = [pc EXCEPT ![p] = "truncate"]
    /\ UNCHANGED <<path, pid, fd, lr>>

FlockWaits(p) ==                                  \* without LOCK_NB
    /\ pc[p] = "flock"
    /\ flocked[fd[p]] = None
    /\ GiveUp(p, -1)
    /\ UNCHANGED <<path, flocked, pid>>

FlockFailsErrno(p) ==                             \* returns errno
    /\ pc[p] = "flock"
    /\ flocked[fd[p]] # None
    /\ GiveUp(p, 11)
    /\ UNCHANGED <<path, flocked, pid>>

(* ... or fails: EWOULDBLOCK because another description holds the lock,    *)
(* or any other errno.                                                     *)
FlockFails(p) ==
    /\ pc[p] = "flock"
    /\ \/ flocked[fd[p]] # None /\ GiveUp(p, 0)
       \/ GiveUp(p, -1)
    /\ UNCHANGED <<path, flocked, pid>>

TruncateForgotten(p) ==                           \* no ftruncate()
    /\ pc[p] = "truncate"
    /\ pc' = [pc EXCEPT ![p] = "write_pid"]
    /\ UNCHANGED <<path, flocked, pid, fd, lr>>

(* ftruncate(fd, 0) *)
Truncate(p) ==
    /\ pc[p] = "truncate"
    /\ pid' = [pid EXCEPT ![fd[p]] = None]
    /\ pc' = [pc EXCEPT ![p] = "write_pid"]
    /\ UNCHANGED <<path, flocked, fd, lr>>

TruncateFailsLocked(p) ==                         \* returns with the lock
    /\ pc[p] = "truncate"
    /\ lr' = [lr EXCEPT ![p] = -1]
    /\ pc' = [pc EXCEPT ![p] = "idle"]
    /\ UNCHANGED <<path, flocked, pid, fd>>

(* ftruncate() fails: flock(fd, LOCK_UN), close(fd), return -1. *)
TruncateFails(p) ==
    /\ pc[p] = "truncate"
    /\ flocked' = [flocked EXCEPT ![fd[p]] = None]
    /\ GiveUp(p, -1)
    /\ UNCHANGED <<path, pid>>

(* write() of the pid, best effort; the caller now holds the lock. *)
WritePid(p) ==
    /\ pc[p] = "write_pid"
    /\ \/ pid' = [pid EXCEPT ![fd[p]] = p]
       \/ UNCHANGED pid
    /\ lr' = [lr EXCEPT ![p] = 1]
    /\ pc' = [pc EXCEPT ![p] = "held"]
    /\ UNCHANGED <<path, flocked, fd>>
-----------------------------------------------------------------------------
UnlockAndUnlink(p) ==                             \* unlink(path) as well
    /\ pc[p] = "held"
    /\ path' = None
    /\ flocked' = [flocked EXCEPT ![fd[p]] = None]
    /\ pc' = [pc EXCEPT ![p] = "close"]
    /\ UNCHANGED <<pid, fd, lr>>

(* lock_release(): flock(fd, LOCK_UN), then close(fd); the name stays. *)
Unlock(p) ==
    /\ pc[p] = "held"
    /\ flocked' = [flocked EXCEPT ![fd[p]] = None]
    /\ pc' = [pc EXCEPT ![p] = "close"]
    /\ UNCHANGED <<path, pid, fd, lr>>

Close(p) ==
    /\ pc[p] = "close"
    /\ fd' = [fd EXCEPT ![p] = None]
    /\ pc' = [pc EXCEPT ![p] = "idle"]
    /\ UNCHANGED <<path, flocked, pid, lr>>

(* The process dies: the kernel closes its descriptor, which drops its lock. *)
Die(p) ==
    /\ pc[p] # "idle"
    /\ flocked' = [i \in Inode |-> IF flocked[i] = p THEN None ELSE flocked[i]]
    /\ fd' = [fd EXCEPT ![p] = None]
    /\ pc' = [pc EXCEPT ![p] = "idle"]
    /\ UNCHANGED <<path, pid, lr>>

AcquireStep(p) ==
    \/ Flock(p) \/ FlockFails(p)
    \/ Truncate(p) \/ TruncateFails(p)
    \/ WritePid(p)

Next ==
    \E p \in Proc :
        \/ Open(p) \/ OpenFails(p)
        \/ AcquireStep(p)
        \/ Unlock(p) \/ Close(p)
        \/ Die(p)

Spec == Init /\ [][Next]_vars

(* A process inside lock_acquire() keeps running: nothing in it waits.  No  *)
(* fairness for Unlock: the holder may keep the lock for ever.              *)
LiveSpec == Spec /\ \A p \in Proc : WF_vars(AcquireStep(p))
-----------------------------------------------------------------------------
Holders == {p \in Proc : pc[p] = "held"}

(* Two callers never hold the lock at once, whatever each did before and    *)
(* however the system calls of lock_acquire() and lock_release() interleave. *)
MutualExclusion == \A p, q \in Holders : p = q

(* The file a holder has locked is the one the name leads to, so the next   *)
(* lock_acquire() meets its lock (the comment in lock_release() on unlink). *)
HolderOwnsTheName ==
    \A p \in Holders : fd[p] = path /\ flocked[path] = p

(* The pid in the file is never that of anyone but the holder: a contender  *)
(* that is refused does not touch the file.                                 *)
PidNamesHolder == \A p \in Holders : pid[path] \in {p, None}

(* A lock_acquire() that fails half way and a process that dies leave no    *)
(* lock behind (lock.h: "no stale-lock cleanup is ever needed").            *)
NoStaleLock ==
    \A i \in Inode : flocked[i] # None =>
        /\ fd[flocked[i]] = i
        /\ pc[flocked[i]] \in {"truncate", "write_pid", "held"}

(* lock_acquire() always returns, even while the lock is never released.    *)
AcquireReturns ==
    \A p \in Proc : pc[p] = "flock" ~> pc[p] \in {"idle", "held"}

(* What the callers rely on: the lock file behaves as the abstract lock,    *)
(* held from the return of lock_acquire() to LOCK_UN or death.              *)
holder == IF Holders = {} THEN None ELSE CHOOSE p \in Holders : TRUE
Lock == INSTANCE Mutex
ImplementsMutex == Lock!MutexSpec
=============================================================================
