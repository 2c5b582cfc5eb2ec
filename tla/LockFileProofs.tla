--------------------------- MODULE LockFileProofs ---------------------------
(***************************************************************************)
(* What lock.c gives its callers, for any number of processes and inodes.  *)
(***************************************************************************)
EXTENDS LockFile, TLAPS

Locking == {"truncate", "write_pid", "held"}

(* Every open descriptor is on the one inode the name leads to: the name is *)
(* never unlinked, so the first open() decides for all.  A process between  *)
(* flock() and LOCK_UN owns the flock of that inode, and nobody else does.  *)
DescriptorsShareTheName ==
    \A p \in Proc : /\ fd[p] \in {None, path}
                    /\ pc[p] # "idle" => fd[p] = path /\ path # None
                    /\ pc[p] = "idle" => fd[p] = None

LockersOwnTheFlock ==
    \A p \in Proc : pc[p] \in Locking => flocked[fd[p]] = p

FlocksHaveOwners ==
    \A i \in Inode : flocked[i] # None =>
        fd[flocked[i]] = i /\ pc[flocked[i]] \in Locking

PidsAreWritten ==
    \A p \in Proc : /\ pc[p] = "write_pid" => pid[fd[p]] = None
                    /\ pc[p] = "held" => pid[fd[p]] \in {p, None}

IInv == /\ LockTypeOK
        /\ DescriptorsShareTheName
        /\ LockersOwnTheFlock
        /\ FlocksHaveOwners
        /\ PidsAreWritten

(* The initial states satisfy the inductive invariant. *)
LEMMA InitIInv == Init => IInv
  BY NoneAssumption
  DEF Init, IInv, LockTypeOK, DescriptorsShareTheName, LockersOwnTheFlock,
      FlocksHaveOwners, PidsAreWritten, Locking

(* No system call, of any process at any moment, breaks it.  One lemma per  *)
(* group of calls: those that take no lock, and those that hold one.        *)
LEMMA OpenKeepsIInv ==
  ASSUME IInv, NEW p \in Proc, Open(p) \/ OpenFails(p) PROVE IInv'
  <1>1. CASE Open(p)
    BY <1>1, NoneAssumption
    DEF Open, Fresh, IInv, LockTypeOK, DescriptorsShareTheName,
        LockersOwnTheFlock, FlocksHaveOwners, PidsAreWritten, Locking
  <1>2. CASE OpenFails(p)
    BY <1>2 DEF OpenFails, IInv, LockTypeOK, DescriptorsShareTheName,
        LockersOwnTheFlock, FlocksHaveOwners, PidsAreWritten, Locking
  <1>3. QED BY <1>1, <1>2

LEMMA AcquireKeepsIInv ==
  ASSUME IInv, NEW p \in Proc, AcquireStep(p) PROVE IInv'
  <1> USE NoneAssumption
      DEF IInv, LockTypeOK, DescriptorsShareTheName, LockersOwnTheFlock,
          FlocksHaveOwners, PidsAreWritten, Locking
  <1>1. CASE Flock(p) BY <1>1 DEF Flock
  <1>2. CASE FlockFails(p) BY <1>2 DEF FlockFails, GiveUp
  <1>3. CASE Truncate(p) BY <1>3 DEF Truncate
  <1>4. CASE TruncateFails(p) BY <1>4 DEF TruncateFails, GiveUp
  <1>5. CASE WritePid(p) BY <1>5 DEF WritePid
  <1>6. QED BY <1>1, <1>2, <1>3, <1>4, <1>5 DEF AcquireStep

LEMMA ReleaseKeepsIInv ==
  ASSUME IInv, NEW p \in Proc, Unlock(p) \/ Close(p) \/ Die(p) PROVE IInv'
  <1> USE NoneAssumption
      DEF IInv, LockTypeOK, DescriptorsShareTheName, LockersOwnTheFlock,
          FlocksHaveOwners, PidsAreWritten, Locking
  <1>1. CASE Unlock(p) BY <1>1 DEF Unlock
  <1>2. CASE Close(p) BY <1>2 DEF Close
  <1>3. CASE Die(p) BY <1>3 DEF Die
  <1>4. QED BY <1>1, <1>2, <1>3

LEMMA StepKeepsIInv == IInv /\ [Next]_vars => IInv'
  <1> SUFFICES ASSUME IInv, [Next]_vars PROVE IInv'
    OBVIOUS
  <1>1. CASE Next
    BY <1>1, OpenKeepsIInv, AcquireKeepsIInv, ReleaseKeepsIInv DEF Next
  <1>2. CASE UNCHANGED vars
    BY <1>2 DEF vars, IInv, LockTypeOK, DescriptorsShareTheName,
        LockersOwnTheFlock, FlocksHaveOwners, PidsAreWritten, Locking
  <1>3. QED BY <1>1, <1>2

LEMMA Inductive == Spec => []IInv
  BY InitIInv, StepKeepsIInv, PTL DEF Spec
-----------------------------------------------------------------------------
(* The variables keep their types. *)
THEOREM LockTypeCorrect == Spec => []LockTypeOK
  BY Inductive, PTL DEF IInv

(* At most one process is between the return of lock_acquire() and the      *)
(* LOCK_UN of lock_release().                                               *)
THEOREM LockMutualExclusion == Spec => []MutualExclusion
  <1>1. IInv => MutualExclusion
    BY DEF IInv, MutualExclusion, Holders, DescriptorsShareTheName,
           LockersOwnTheFlock, Locking
  <1>2. QED BY <1>1, Inductive, PTL

(* The holder has locked the very file the next process will open. *)
THEOREM HolderOwnership == Spec => []HolderOwnsTheName
  <1>1. IInv => HolderOwnsTheName
    BY DEF IInv, HolderOwnsTheName, Holders, DescriptorsShareTheName,
           LockersOwnTheFlock, Locking
  <1>2. QED BY <1>1, Inductive, PTL

(* While the lock is held the file holds no other process's pid. *)
THEOREM PidNaming == Spec => []PidNamesHolder
  <1>1. IInv => PidNamesHolder
    BY DEF IInv, PidNamesHolder, Holders, DescriptorsShareTheName,
           PidsAreWritten
  <1>2. QED BY <1>1, Inductive, PTL

(* No lock outlives the use its owner makes of it. *)
THEOREM StaleLockFreedom == Spec => []NoStaleLock
  <1>1. IInv => NoStaleLock
    BY DEF IInv, NoStaleLock, FlocksHaveOwners, Locking
  <1>2. QED BY <1>1, Inductive, PTL
-----------------------------------------------------------------------------
(* The abstract holder is the one process in "held", if there is one. *)
LEMMA HolderIsTheHolder ==
  ASSUME IInv
  PROVE  /\ \A p \in Holders : holder = p
         /\ Holders = {} => holder = None
  BY DEF IInv, holder, Holders, DescriptorsShareTheName, LockersOwnTheFlock,
         Locking

(* A set that grows or shrinks by one holder is an abstract step.           *)
LEMMA HoldersGrow ==
  ASSUME IInv, IInv', NEW p \in Proc, p \notin Holders,
         Holders' = Holders \cup {p}
  PROVE  Lock!MutexNext
  <1>1. holder' = p /\ Holders = {}
    BY DEF IInv, holder, Holders, DescriptorsShareTheName,
           LockersOwnTheFlock, Locking
  <1>2. holder = None
    BY <1>1, HolderIsTheHolder
  <1>3. QED BY <1>1, <1>2 DEF Lock!MutexNext, Lock!Acquire

LEMMA HoldersShrink ==
  ASSUME IInv, IInv', NEW p \in Proc, p \in Holders,
         Holders' = Holders \ {p}
  PROVE  Lock!MutexNext
  <1>1. holder = p /\ Holders = {p}
    BY HolderIsTheHolder
    DEF IInv, Holders, DescriptorsShareTheName, LockersOwnTheFlock, Locking
  <1>2. holder' = None
    BY <1>1 DEF holder
  <1>3. QED BY <1>1, <1>2 DEF Lock!MutexNext, Lock!Release

(* Every step of the system calls is a step of the abstract lock, or none.  *)
LEMMA StepIsMutexStep ==
  IInv /\ IInv' /\ [Next]_vars => [Lock!MutexNext]_holder
  <1> SUFFICES ASSUME IInv, IInv', [Next]_vars PROVE [Lock!MutexNext]_holder
    OBVIOUS
  <1>1. CASE Holders' = Holders
    BY <1>1 DEF holder
  <1>2. ASSUME NEW p \in Proc, WritePid(p)
        PROVE  Lock!MutexNext
    <2>1. p \notin Holders /\ Holders' = Holders \cup {p}
      BY <1>2 DEF WritePid, Holders, IInv, LockTypeOK
    <2>2. QED BY <2>1, HoldersGrow
  <1>3. ASSUME NEW p \in Proc, Unlock(p) \/ Die(p), p \in Holders
        PROVE  Lock!MutexNext
    <2>1. Holders' = Holders \ {p}
      BY <1>3 DEF Unlock, Die, Holders, IInv, LockTypeOK
    <2>2. QED BY <1>3, <2>1, HoldersShrink
  <1>4. ASSUME NEW p \in Proc, Die(p), p \notin Holders
        PROVE  Holders' = Holders
    BY <1>4 DEF Die, Holders, IInv, LockTypeOK
  <1>5. ASSUME NEW p \in Proc,
               \/ Open(p) \/ OpenFails(p) \/ Close(p) \/ Flock(p)
               \/ FlockFails(p) \/ Truncate(p) \/ TruncateFails(p)
        PROVE  Holders' = Holders
    BY <1>5 DEF Open, OpenFails, Close, Flock, FlockFails, Truncate,
                TruncateFails, GiveUp, Holders, IInv, LockTypeOK
  <1>6. CASE UNCHANGED vars
    BY <1>6, <1>1 DEF vars, Holders
  <1>7. \A p \in Proc : Unlock(p) => p \in Holders
    BY DEF Unlock, Holders
  <1>8. QED
    BY <1>1, <1>2, <1>3, <1>4, <1>5, <1>6, <1>7 DEF Next, AcquireStep

(* The lock file implements the abstract lock the two binaries rely on.     *)
THEOREM LockFileImplementsMutex == Spec => ImplementsMutex
  <1>1. Init => Lock!MutexInit
    BY DEF Init, Lock!MutexInit, holder, Holders
  <1>2. QED
    BY <1>1, StepIsMutexStep, Inductive, PTL
    DEF Spec, ImplementsMutex, Lock!MutexSpec
=============================================================================
