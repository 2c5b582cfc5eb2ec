------------------------------- MODULE LogFile -------------------------------
(***************************************************************************)
(* log.c, call by call: several writers append lines to one log file and   *)
(* rotate it when it has grown.  The flock() serializes the writes to one  *)
(* inode; the stat() and the rename() of the rotation come before it.  A   *)
(* file's content is kept as its size, in units of which a line has        *)
(* LineUnits, and as the writer whose unfinished line it ends with.        *)
(***************************************************************************)
EXTENDS Integers, FiniteSets

CONSTANTS Proc, Inode,
          None,        \* no inode, no process
          Limit,       \* ROTATE_SIZE
          LineUnits,   \* a line is written in 1..LineUnits pieces
          MaxFaults    \* bound: failed calls and deaths in a behaviour

ASSUME LogAssumption ==
    /\ IsFiniteSet(Proc)
    /\ None \notin Proc \cup Inode
    /\ Limit \in Nat /\ LineUnits \in Nat \ {0} /\ MaxFaults \in Nat

VARIABLES path,        \* the inode the name log_file leads to
          old,         \* the inode the name log_file.old leads to
          size,        \* inode -> its size
          tail,        \* inode -> the writer whose unfinished line ends it
          flocked,     \* inode -> the process that holds its flock
          fd,          \* process -> the inode its descriptor is open on
          written,     \* process -> units of its line written so far
          pc,          \* process -> the next system call it makes
          unrotated,   \* history: rename() calls that failed
          faults       \* history: faults so far

vars == <<path, old, size, tail, flocked, fd, written, pc, unrotated, faults>>

LogTypeOK ==
    /\ path \in Inode \cup {None} /\ old \in Inode \cup {None}
    /\ size \in [Inode -> Nat]
    /\ tail \in [Inode -> Proc \cup {None}]
    /\ flocked \in [Inode -> Proc \cup {None}]
    /\ fd \in [Proc -> Inode \cup {None}]
    /\ written \in [Proc -> 0..LineUnits]
    /\ pc \in [Proc -> {"idle", "rename", "open", "flock", "write", "unlock",
                        "close"}]
    /\ unrotated \in 0..MaxFaults /\ faults \in 0..MaxFaults

Init ==
    /\ path = None /\ old = None
    /\ size = [i \in Inode |-> 0]
    /\ tail = [i \in Inode |-> None]
    /\ flocked = [i \in Inode |-> None]
    /\ fd = [p \in Proc |-> None]
    /\ written = [p \in Proc |-> 0]
    /\ pc = [p \in Proc |-> "idle"]
    /\ unrotated = 0 /\ faults = 0
-----------------------------------------------------------------------------
Goto(p, from, to) == pc[p] = from /\ pc' = [pc EXCEPT ![p] = to]

Fault == faults < MaxFaults /\ faults' = faults + 1

(* An inode nothing refers to, as open() takes to create a file. *)
Free(i) == i \notin {path, old} /\ \A p \in Proc : fd[p] # i

(* rotate_if_needed(): stat(), which fails when there is no file. *)
Stat(p) ==
    /\ Goto(p, "idle", IF path # None /\ size[path] > Limit THEN "rename"
                                                            ELSE "open")
    /\ UNCHANGED <<path, old, size, tail, flocked, fd, written, unrotated, faults>>

RenameSwapped(p) ==                               \* rename(old_path, log_file)
    /\ Goto(p, "rename", "open")
    /\ IF old = None
       THEN unrotated' = unrotated /\ UNCHANGED <<path, old>>
       ELSE path' = old /\ old' = None /\ UNCHANGED unrotated
    /\ UNCHANGED <<size, tail, flocked, fd, written, faults>>

RenameRetried(p) ==                               \* until it succeeds
    /\ path # None /\ old' = path /\ path' = None
    /\ Goto(p, "rename", "open")
    /\ UNCHANGED <<size, tail, flocked, fd, written, unrotated, faults>>

(* rename(log_file, old_path) replaces the file that had that name; there   *)
(* may be no log_file any more, or the call fails.  Its result is ignored.  *)
Rename(p) ==
    /\ Goto(p, "rename", "open")
    /\ \/ path # None /\ old' = path /\ path' = None /\ UNCHANGED <<unrotated, faults>>
       \/ path = None /\ UNCHANGED <<path, old, unrotated, faults>>
       \/ Fault /\ unrotated' = unrotated + 1 /\ UNCHANGED <<path, old>>
    /\ UNCHANGED <<size, tail, flocked, fd, written>>

(* open(log_file, O_CREAT | O_WRONLY | O_APPEND) *)
Open(p) ==
    /\ Goto(p, "open", "flock")
    /\ \E i \in Inode :
        /\ fd' = [fd EXCEPT ![p] = i]
        /\ \/ i = path /\ UNCHANGED <<path, size, tail>>
           \/ /\ path = None /\ Free(i)
              /\ path' = i
              /\ size' = [size EXCEPT ![i] = 0]
              /\ tail' = [tail EXCEPT ![i] = None]
    /\ written' = [written EXCEPT ![p] = 0]
    /\ UNCHANGED <<old, flocked, unrotated, faults>>

(* It fails and the line is dropped. *)
OpenFails(p) ==
    /\ Goto(p, "open", "idle") /\ Fault
    /\ UNCHANGED <<path, old, size, tail, flocked, fd, written, unrotated>>

(* flock(fd, LOCK_EX) waits for the lock of the inode that was opened. *)
Flock(p) ==
    /\ Goto(p, "flock", "write")
    /\ flocked[fd[p]] = None
    /\ flocked' = [flocked EXCEPT ![fd[p]] = p]
    /\ UNCHANGED <<path, old, size, tail, fd, written, unrotated, faults>>

FlockIgnored(p) ==                                \* its result ignored
    /\ Goto(p, "flock", "write") /\ Fault
    /\ UNCHANGED <<path, old, size, tail, flocked, fd, written, unrotated>>

(* It fails (EINTR, ENOLCK) and the line is dropped. *)
FlockFails(p) ==
    /\ Goto(p, "flock", "close") /\ Fault
    /\ UNCHANGED <<path, old, size, tail, flocked, fd, written, unrotated>>

(* `units` more of the line reach the end of the file. *)
Append(p, units) ==
    /\ written' = [written EXCEPT ![p] = @ + units]
    /\ size' = [size EXCEPT ![fd[p]] = @ + units]
    /\ tail' = [tail EXCEPT ![fd[p]] =
                    IF written[p] + units < LineUnits THEN p ELSE None]

WriteUnclamped(p) ==                              \* total = n, not its minimum
    \E units \in 1..(LineUnits + 1 - written[p]) :
        /\ Goto(p, "write", IF written[p] + units < LineUnits THEN "write" ELSE "unlock")
        /\ Append(p, units)
        /\ UNCHANGED <<path, old, flocked, fd, unrotated, faults>>

(* The loop around write(), which may be short ... *)
Write(p) ==
    \E units \in 1..(LineUnits - written[p]) :
        /\ Goto(p, "write", IF written[p] + units < LineUnits THEN "write" ELSE "unlock")
        /\ Append(p, units)
        /\ UNCHANGED <<path, old, flocked, fd, unrotated, faults>>

(* ... or fail: the rest of the line is given up. *)
WriteFails(p) ==
    /\ Goto(p, "write", "unlock") /\ Fault
    /\ UNCHANGED <<path, old, size, tail, flocked, fd, written, unrotated>>

(* flock(fd, LOCK_UN) *)
Unlock(p) ==
    /\ Goto(p, "unlock", "close")
    /\ flocked' = [flocked EXCEPT ![fd[p]] = None]
    /\ UNCHANGED <<path, old, size, tail, fd, written, unrotated, faults>>

Close(p) ==
    /\ Goto(p, "close", "idle")
    /\ fd' = [fd EXCEPT ![p] = None]
    /\ written' = [written EXCEPT ![p] = 0]
    /\ UNCHANGED <<path, old, size, tail, flocked, unrotated, faults>>

(* The process dies; the kernel closes its descriptor and drops its lock. *)
Die(p) ==
    /\ pc[p] # "idle" /\ Fault
    /\ pc' = [pc EXCEPT ![p] = "idle"]
    /\ fd' = [fd EXCEPT ![p] = None]
    /\ written' = [written EXCEPT ![p] = 0]
    /\ flocked' = [i \in Inode |-> IF flocked[i] = p THEN None ELSE flocked[i]]
    /\ UNCHANGED <<path, old, size, tail, unrotated>>

CallStep(p) ==
    \/ Rename(p) \/ Open(p) \/ OpenFails(p) \/ Flock(p) \/ FlockFails(p)
    \/ Write(p) \/ WriteFails(p) \/ Unlock(p) \/ Close(p)

Next == \E p \in Proc : Stat(p) \/ CallStep(p) \/ Die(p)

Spec == Init /\ [][Next]_vars

(* A writer keeps running, and the kernel serves those that wait in flock() *)
(* for a lock in turn.                                                     *)
LiveSpec == Spec /\ \A p \in Proc : WF_vars(CallStep(p)) /\ SF_vars(Flock(p))
-----------------------------------------------------------------------------
(* "concurrent writers ... never interleave partial lines" (log.h): while a *)
(* writer is in the middle of its line, nothing else comes behind it in the *)
(* file it has open, whatever rotations happen to the names meanwhile.      *)
LinesStayWhole ==
    \A p \in Proc :
        pc[p] = "write" /\ written[p] > 0 => tail[fd[p]] = p

(* Rotation bounds the log: a file exceeds ROTATE_SIZE by what was under    *)
(* way when it did, one line per writer, and by a line for every rename()   *)
(* that failed unnoticed.                                                  *)
GrowthBounded ==
    \A i \in Inode :
        size[i] <= Limit + LineUnits * (Cardinality(Proc) + unrotated)

(* log_msg() returns, although flock() waits here for other writers.        *)
LogReturns == \A p \in Proc : pc[p] # "idle" ~> pc[p] = "idle"

(* "Rotates the file to <log_file>.old first if it has grown past 5 MB"     *)
(* (log.h): only such a file is moved, so .old never loses a full log to a  *)
(* short one.                                                              *)
RotatesFullFilesOnly ==
    [][path # None /\ path' # path => size[path] > Limit]_vars
=============================================================================
