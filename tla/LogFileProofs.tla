---------------------------- MODULE LogFileProofs ----------------------------
(***************************************************************************)
(* What log.c keeps true of its files, for any number of writers and of    *)
(* files, any limit and any length of a line.                              *)
(***************************************************************************)
EXTENDS LogFile, FiniteSetTheorems, TLAPS

Opened == {"flock", "write", "unlock", "close"}
Locking == {"write", "unlock"}

(* A descriptor is open from open() to close(). *)
DescriptorsOpen ==
    \A p \in Proc : /\ pc[p] \in Opened => fd[p] \in Inode
                    /\ pc[p] \notin Opened => fd[p] = None

(* A line is begun under the flock and has pieces left while it is written. *)
LinesBegun ==
    \A p \in Proc : /\ pc[p] = "flock" => written[p] = 0
                    /\ pc[p] = "write" => written[p] < LineUnits

(* A process in the loop around write() has the flock of its file. *)
FlocksHeld ==
    /\ \A p \in Proc : pc[p] \in Locking => flocked[fd[p]] = p
    /\ \A i \in Inode : flocked[i] # None =>
            fd[flocked[i]] = i /\ pc[flocked[i]] \in Locking

(* A rename() that failed is one of the faults. *)
FaultsCounted == unrotated <= faults

TypeInv ==
    LogTypeOK /\ DescriptorsOpen /\ LinesBegun /\ FlocksHeld /\ FaultsCounted

LEMMA InitTypeInv == Init => TypeInv
  BY LogAssumption
  DEF Init, TypeInv, LogTypeOK, DescriptorsOpen, LinesBegun, FlocksHeld,
      FaultsCounted, Opened, Locking

LEMMA NamesKeepTypeInv ==
  ASSUME TypeInv, NEW p \in Proc,
         Stat(p) \/ Rename(p) \/ Open(p) \/ OpenFails(p)
  PROVE  TypeInv'
  <1> USE LogAssumption
      DEF TypeInv, LogTypeOK, DescriptorsOpen, LinesBegun, FlocksHeld,
          FaultsCounted, Opened, Locking, Goto, Fault
  <1>1. CASE Stat(p) BY <1>1 DEF Stat
  <1>2. CASE Rename(p) BY <1>2 DEF Rename
  <1>3. CASE Open(p) BY <1>3 DEF Open, Free
  <1>4. CASE OpenFails(p) BY <1>4 DEF OpenFails
  <1>5. QED BY <1>1, <1>2, <1>3, <1>4

LEMMA LineKeepsTypeInv ==
  ASSUME TypeInv, NEW p \in Proc,
         \/ Flock(p) \/ FlockFails(p) \/ Write(p) \/ WriteFails(p)
         \/ Unlock(p) \/ Close(p) \/ Die(p)
  PROVE  TypeInv'
  <1> USE LogAssumption
      DEF TypeInv, LogTypeOK, DescriptorsOpen, LinesBegun, FlocksHeld,
          FaultsCounted, Opened, Locking, Goto, Fault
  <1>1. CASE Flock(p) BY <1>1 DEF Flock
  <1>2. CASE FlockFails(p) BY <1>2 DEF FlockFails
  <1>3. CASE Write(p) BY <1>3 DEF Write, Append
  <1>4. CASE WriteFails(p) BY <1>4 DEF WriteFails
  <1>5. CASE Unlock(p) BY <1>5 DEF Unlock
  <1>6. CASE Close(p) BY <1>6 DEF Close
  <1>7. CASE Die(p) BY <1>7 DEF Die
  <1>8. QED BY <1>1, <1>2, <1>3, <1>4, <1>5, <1>6, <1>7

LEMMA StepKeepsTypeInv == TypeInv /\ [Next]_vars => TypeInv'
  <1>1. TypeInv /\ Next => TypeInv'
    BY NamesKeepTypeInv, LineKeepsTypeInv DEF Next, CallStep
  <1>2. TypeInv /\ UNCHANGED vars => TypeInv'
    BY DEF vars, TypeInv, LogTypeOK, DescriptorsOpen, LinesBegun, FlocksHeld,
           FaultsCounted
  <1>3. QED BY <1>1, <1>2

(* The names, the files and every process's descriptor keep their types.    *)
THEOREM LogTypeCorrect == Spec => []LogTypeOK
  <1>1. Spec => []TypeInv
    BY InitTypeInv, StepKeepsTypeInv, PTL DEF Spec
  <1>2. QED BY <1>1, PTL DEF TypeInv
-----------------------------------------------------------------------------
(* A process that writes is the only one that does so in its file. *)
LEMMA OneWriter ==
  ASSUME TypeInv, NEW p \in Proc, NEW q \in Proc \ {p},
         pc[p] = "write", pc[q] = "write"
  PROVE  fd[p] # fd[q]
  BY DEF TypeInv, FlocksHeld, Locking

LEMMA StepKeepsLines ==
  ASSUME TypeInv, LinesStayWhole, [Next]_vars
  PROVE  LinesStayWhole'
  <1> USE LogAssumption DEF LinesStayWhole, TypeInv, LogTypeOK, Goto
  <1>1. ASSUME NEW p \in Proc, Open(p) PROVE LinesStayWhole'
    <2>1. PICK i \in Inode :
            /\ fd' = [fd EXCEPT ![p] = i]
            /\ tail' = tail \/ (Free(i) /\ tail' = [tail EXCEPT ![i] = None])
      BY <1>1 DEF Open
    <2>2. ASSUME NEW q \in Proc, pc'[q] = "write", written'[q] > 0
          PROVE  tail'[fd'[q]] = q
      <3>1. q # p /\ pc[q] = "write" /\ written[q] > 0
        BY <1>1, <2>2 DEF Open
      <3>2. fd[q] \in Inode /\ fd'[q] = fd[q] /\ tail[fd[q]] = q
        BY <2>1, <3>1 DEF DescriptorsOpen, Opened
      <3>3. QED BY <2>1, <3>2 DEF Free
    <2>3. QED BY <2>2
  <1>2. ASSUME NEW p \in Proc, Write(p) PROVE LinesStayWhole'
    <2>1. PICK units \in 1..(LineUnits - written[p]) :
            /\ Goto(p, "write", IF written[p] + units < LineUnits THEN "write"
                                                                  ELSE "unlock")
            /\ Append(p, units)
            /\ UNCHANGED fd
      BY <1>2 DEF Write
    <2>2. fd[p] \in Inode
      BY <2>1 DEF DescriptorsOpen, Opened
    <2>3. ASSUME NEW q \in Proc, pc'[q] = "write", written'[q] > 0
          PROVE  tail'[fd'[q]] = q
      <3>1. CASE q = p
        BY <2>1, <2>2, <2>3, <3>1 DEF Append
      <3>2. CASE q # p
        <4>1. pc[q] = "write" /\ written[q] > 0 /\ fd[q] # fd[p]
          BY <2>1, <2>3, <3>2, OneWriter DEF Append
        <4>2. QED BY <2>1, <2>2, <4>1 DEF Append
      <3>3. QED BY <3>1, <3>2
    <2>4. QED BY <2>3
  <1>3. ASSUME NEW p \in Proc,
               \/ Stat(p) \/ Rename(p) \/ OpenFails(p) \/ Flock(p)
               \/ FlockFails(p) \/ WriteFails(p) \/ Unlock(p) \/ Close(p)
               \/ Die(p)
        PROVE  LinesStayWhole'
    BY <1>3 DEF Stat, Rename, OpenFails, Flock, FlockFails, WriteFails, Unlock,
                Close, Die, LinesBegun
  <1>4. CASE UNCHANGED vars
    BY <1>4 DEF vars
  <1>5. QED BY <1>1, <1>2, <1>3, <1>4 DEF Next, CallStep

(* Lines of several writers never interleave in a file: rotation moves      *)
(* names, and the flock is one of the file.                                *)
THEOREM LinesAreWhole == Spec => []LinesStayWhole
  <1>1. Init => TypeInv /\ LinesStayWhole
    BY InitTypeInv DEF Init, LinesStayWhole
  <1>2. TypeInv /\ LinesStayWhole /\ [Next]_vars => (TypeInv /\ LinesStayWhole)'
    BY StepKeepsTypeInv, StepKeepsLines
  <1>3. QED BY <1>1, <1>2, PTL DEF Spec
-----------------------------------------------------------------------------
(* Lines under way are counted, not summed up: the flock lets one line at a *)
(* time be written in part.                                                *)
Units(S) == LineUnits * Cardinality(S)

LEMMA UnitsFacts ==
  ASSUME NEW S \in SUBSET Proc
  PROVE  /\ Units(S) \in Nat
         /\ \A T \in SUBSET S : Units(T) <= Units(S)
         /\ \A p \in S : Units(S \ {p}) = Units(S) - LineUnits
         /\ \A p \in S : Units(S) >= LineUnits
  <1>1. IsFiniteSet(S)
    BY LogAssumption, FS_Subset
  <1>2. LineUnits \in Nat \ {0} /\ Cardinality(S) \in Nat
    BY <1>1, LogAssumption, FS_CardinalityType
  <1>3. ASSUME NEW T \in SUBSET S PROVE Units(T) <= Units(S)
    <2>1. Cardinality(T) \in Nat /\ Cardinality(T) <= Cardinality(S)
      BY <1>1, FS_Subset, FS_CardinalityType
    <2>2. \A a, b \in Nat : a <= b => LineUnits * a <= LineUnits * b
      BY <1>2
    <2>3. QED BY <1>2, <2>1, <2>2 DEF Units
  <1>4. ASSUME NEW p \in S
        PROVE  Units(S \ {p}) = Units(S) - LineUnits /\ Units(S) >= LineUnits
    <2>1. Cardinality(S \ {p}) = Cardinality(S) - 1
      BY <1>1, FS_RemoveElement
    <2>2. Cardinality(S \ {p}) \in Nat
      BY <1>1, FS_RemoveElement, FS_CardinalityType
    <2>3. \A a \in Nat : LineUnits * a = LineUnits * (a + 1) - LineUnits
                         /\ LineUnits * (a + 1) >= LineUnits
      BY <1>2
    <2>4. Cardinality(S) = Cardinality(S \ {p}) + 1
      BY <1>2, <2>1, <2>2
    <2>5. QED BY <2>2, <2>3, <2>4 DEF Units
  <1>5. Units(S) \in Nat
    BY <1>2 DEF Units
  <1>6. QED BY <1>3, <1>4, <1>5

(* The writers whose next write() goes to file i, whatever the others do: a *)
(* rotation only takes some of them away.                                  *)
Committed(i) ==
    {p \in Proc : \/ pc[p] = "open" /\ path = i
                  \/ pc[p] \in {"flock", "write"} /\ fd[p] = i}

(* What the one that holds the flock has written of its line already. *)
Begun(i) ==
    IF flocked[i] # None /\ pc[flocked[i]] = "write"
    THEN written[flocked[i]] ELSE 0

Allowed == Limit + Units(Proc) + LineUnits * unrotated

(* A file has room for all the lines that may still come to it: those of    *)
(* the writers that saw it before it was full, or whose rename() failed.    *)
HasRoom(i) == size[i] + Units(Committed(i)) <= Allowed + Begun(i)
RoomLeft == \A i \in Inode : HasRoom(i)

GrowthInv == TypeInv /\ RoomLeft

LEMMA RoomTypes ==
  ASSUME TypeInv, NEW i \in Inode
  PROVE  /\ size[i] \in Nat /\ Begun(i) \in Nat /\ Allowed \in Nat
         /\ Units(Committed(i)) \in Nat /\ Units(Proc) \in Nat
         /\ Units(Committed(i)) <= Units(Proc)
         /\ Limit + Units(Proc) <= Allowed
         /\ Committed(i) \in SUBSET Proc
  <1>1. Committed(i) \in SUBSET Proc
    BY DEF Committed
  <1>2. /\ Units(Committed(i)) \in Nat /\ Units(Proc) \in Nat
        /\ Units(Committed(i)) <= Units(Proc)
    BY <1>1, UnitsFacts
  <1>3. LineUnits * unrotated \in Nat
    BY LogAssumption DEF TypeInv, LogTypeOK
  <1>4. Begun(i) \in Nat
    BY DEF Begun, TypeInv, LogTypeOK
  <1>5. QED
    BY <1>1, <1>2, <1>3, <1>4, LogAssumption DEF TypeInv, LogTypeOK, Allowed

(* A file to which nothing is added keeps its room when no writer joins. *)
LEMMA NobodyJoins ==
  ASSUME TypeInv, TypeInv', NEW i \in Inode, HasRoom(i),
         size'[i] = size[i], unrotated' = unrotated,
         Committed(i)' \subseteq Committed(i), Begun(i)' = Begun(i)
  PROVE  HasRoom(i)'
  <1>1. /\ size[i] \in Nat /\ Begun(i) \in Nat /\ Allowed \in Nat
        /\ Units(Committed(i)) \in Nat
        /\ Committed(i) \in SUBSET Proc
    BY RoomTypes
  <1>2. Units(Committed(i)') \in Nat /\ Units(Committed(i)') <= Units(Committed(i))
    BY <1>1, UnitsFacts
  <1>3. Allowed' = Allowed /\ Units(Committed(i))' = Units(Committed(i)')
    BY DEF Allowed, Units
  <1>4. QED BY <1>1, <1>2, <1>3 DEF HasRoom

(* Whoever may join a file that is below the limit. *)
LEMMA BelowTheLimit ==
  ASSUME TypeInv, TypeInv', NEW i \in Inode, size'[i] <= Limit
  PROVE  HasRoom(i)'
  <1>1. Committed(i)' \in SUBSET Proc
    BY DEF Committed
  <1>2. Units(Committed(i))' = Units(Committed(i)') /\ Units(Proc)' = Units(Proc)
    BY DEF Units
  <1>3. /\ Units(Committed(i))' \in Nat /\ Units(Proc) \in Nat
        /\ Units(Committed(i))' <= Units(Proc)
    BY <1>1, <1>2, UnitsFacts
  <1>4. Begun(i)' \in Nat /\ size'[i] \in Nat
    BY DEF Begun, TypeInv, LogTypeOK
  <1>5. LineUnits * unrotated' \in Nat
    <2>1. unrotated' \in Nat /\ LineUnits \in Nat
      BY LogAssumption DEF TypeInv, LogTypeOK
    <2>2. \A a, b \in Nat : a * b \in Nat
      OBVIOUS
    <2>3. QED BY <2>1, <2>2
  <1>6. Allowed' = Limit + Units(Proc) + LineUnits * unrotated'
    BY <1>2 DEF Allowed
  <1>7. HasRoom(i)' <=> size'[i] + Units(Committed(i))' <= Allowed' + Begun(i)'
    BY DEF HasRoom
  <1>8. QED BY <1>3, <1>4, <1>5, <1>6, <1>7, LogAssumption

(* The last piece of a line, or its end after an error: one writer less,    *)
(* and of its line no more than a line came into the file.                  *)
LEMMA LineEnds ==
  ASSUME TypeInv, TypeInv', NEW p \in Proc, pc[p] = "write",
         NEW i \in Inode, i = fd[p], HasRoom(i),
         Committed(i)' = Committed(i) \ {p},
         Begun(i)' = 0, unrotated' = unrotated,
         NEW units \in 0..(LineUnits - written[p]),
         size'[i] = size[i] + units
  PROVE  HasRoom(i)'
  <1>1. p \in Committed(i) /\ Begun(i) = written[p]
    BY LogAssumption
    DEF TypeInv, DescriptorsOpen, Opened, FlocksHeld, Locking, Committed, Begun
  <1>2. /\ size[i] \in Nat /\ Allowed \in Nat /\ written[p] \in 0..LineUnits
        /\ Units(Committed(i)) \in Nat /\ Committed(i) \in SUBSET Proc
    BY <1>1, RoomTypes DEF TypeInv, LogTypeOK
  <1>3. Units(Committed(i)') = Units(Committed(i)) - LineUnits
    BY <1>1, <1>2, UnitsFacts
  <1>4. Allowed' = Allowed /\ Units(Committed(i))' = Units(Committed(i)')
    BY DEF Allowed, Units
  <1>5. size[i] + Units(Committed(i)) <= Allowed + Begun(i)
    BY DEF HasRoom
  <1>6. HasRoom(i)' <=> size'[i] + Units(Committed(i))' <= Allowed' + Begun(i)'
    BY DEF HasRoom
  <1>7. QED BY <1>1, <1>2, <1>3, <1>4, <1>5, <1>6, LogAssumption

(* stat() and rename(): a writer that saw a file below the limit, or whose  *)
(* rename() failed, is committed to it; after a rename() nobody is more.    *)
LEMMA StatKeepsRoom ==
  ASSUME GrowthInv, TypeInv', NEW p \in Proc, Stat(p)
  PROVE  RoomLeft'
  <1>t. TypeInv /\ RoomLeft
    BY DEF GrowthInv
  <1>1. ASSUME NEW i \in Inode PROVE HasRoom(i)'
    <2>1. /\ size' = size /\ unrotated' = unrotated /\ path' = path
          /\ pc[p] = "idle"
          /\ \A q \in Proc \ {p} : pc'[q] = pc[q]
          /\ pc'[p] = IF path # None /\ size[path] > Limit THEN "rename" ELSE "open"
      BY <1>t DEF Stat, Goto, TypeInv, LogTypeOK
    <2>2. Begun(i)' = Begun(i)
      BY <1>t, <2>1 DEF Stat, Begun, TypeInv, LogTypeOK, FlocksHeld, Locking
    <2>3. CASE path = i /\ size[path] <= Limit
      BY <1>t, <2>1, <2>3, BelowTheLimit
    <2>4. CASE ~(path = i /\ size[path] <= Limit)
      <3>1. ~(pc'[p] = "open" /\ path' = i)
        BY <1>t, <2>1, <2>4, LogAssumption DEF TypeInv, LogTypeOK
      <3>2. Committed(i)' \subseteq Committed(i)
        BY <2>1, <3>1 DEF Stat, Committed
      <3>3. QED BY <1>t, <2>1, <2>2, <3>2, NobodyJoins DEF RoomLeft
    <2>5. QED BY <2>3, <2>4
  <1>2. QED BY <1>1 DEF RoomLeft

LEMMA RenameKeepsRoom ==
  ASSUME GrowthInv, TypeInv', NEW p \in Proc, Rename(p)
  PROVE  RoomLeft'
  <1>t. TypeInv /\ RoomLeft
    BY DEF GrowthInv
  <1>1. ASSUME NEW i \in Inode PROVE HasRoom(i)'
    <2>1. /\ UNCHANGED <<size, flocked, fd, written>>
          /\ pc[p] = "rename" /\ pc'[p] = "open"
          /\ \A q \in Proc \ {p} : pc'[q] = pc[q]
      BY <1>t DEF Rename, Goto, TypeInv, LogTypeOK
    <2>2. Begun(i)' = Begun(i)
      BY <1>t, <2>1 DEF Begun, TypeInv, LogTypeOK, FlocksHeld, Locking
    <2>3. CASE path' = None /\ unrotated' = unrotated
      <3>1. Committed(i)' \subseteq Committed(i)
        BY <2>1, <2>3, LogAssumption DEF Committed
      <3>2. QED BY <1>t, <2>1, <2>2, <2>3, <3>1, NobodyJoins DEF RoomLeft
    <2>4. CASE path' = path /\ unrotated' = unrotated + 1
      <3>1. Committed(i)' \in SUBSET Proc /\ Committed(i) \in SUBSET Proc
        BY DEF Committed
      <3>2. Committed(i)' \ {p} \subseteq Committed(i)
        BY <2>1, <2>4 DEF Committed
      <3>3. /\ Units(Committed(i)') <= Units(Committed(i)' \ {p}) + LineUnits
            /\ Units(Committed(i)' \ {p}) <= Units(Committed(i))
            /\ Units(Committed(i)') \in Nat /\ Units(Committed(i)' \ {p}) \in Nat
        <4>1. Committed(i)' \ {p} \in SUBSET Proc
          BY <3>1
        <4>2. CASE p \in Committed(i)'
          BY <3>1, <3>2, <4>1, <4>2, UnitsFacts, LogAssumption
        <4>3. CASE p \notin Committed(i)'
          <5>1. Committed(i)' \ {p} = Committed(i)'
            BY <4>3
          <5>2. QED BY <3>1, <3>2, <5>1, UnitsFacts, LogAssumption
        <4>4. QED BY <4>2, <4>3
      <3>4. Allowed' = Allowed + LineUnits
        <4>1. unrotated \in Nat /\ LineUnits \in Nat /\ Limit \in Nat
          BY <1>t, LogAssumption DEF TypeInv, LogTypeOK
        <4>2. LineUnits * (unrotated + 1) = LineUnits * unrotated + LineUnits
          BY <4>1
        <4>3. Units(Proc)' = Units(Proc) /\ Units(Proc) \in Nat
              /\ LineUnits * unrotated \in Nat
          BY <4>1, UnitsFacts DEF Units
        <4>4. QED BY <2>4, <4>1, <4>2, <4>3 DEF Allowed
      <3>5. Units(Committed(i))' = Units(Committed(i)')
        BY DEF Units
      <3>6. /\ size[i] \in Nat /\ Begun(i) \in Nat /\ Allowed \in Nat
            /\ Units(Committed(i)) \in Nat
        BY <1>t, RoomTypes
      <3>7. size[i] + Units(Committed(i)) <= Allowed + Begun(i)
        BY <1>t DEF RoomLeft, HasRoom
      <3>8. HasRoom(i)' <=> size'[i] + Units(Committed(i))' <= Allowed' + Begun(i)'
        BY DEF HasRoom
      <3>9. QED BY <2>1, <2>2, <3>3, <3>4, <3>5, <3>6, <3>7, <3>8, LogAssumption
    <2>5. QED BY <2>3, <2>4 DEF Rename
  <1>2. QED BY <1>1 DEF RoomLeft

LEMMA OpenKeepsRoom ==
  ASSUME GrowthInv, TypeInv', NEW p \in Proc, Open(p)
  PROVE  RoomLeft'
  <1>t. TypeInv /\ RoomLeft
    BY DEF GrowthInv
  <1>1. PICK i \in Inode :
          /\ fd' = [fd EXCEPT ![p] = i]
          /\ \/ i = path /\ UNCHANGED <<path, size, tail>>
             \/ /\ path = None /\ Free(i)
                /\ path' = i
                /\ size' = [size EXCEPT ![i] = 0]
    BY DEF Open
  <1>2. /\ pc[p] = "open" /\ pc'[p] = "flock" /\ fd'[p] = i /\ path' = i
        /\ \A q \in Proc \ {p} : pc'[q] = pc[q] /\ fd'[q] = fd[q]
                                 /\ written'[q] = written[q]
        /\ UNCHANGED <<flocked, unrotated>>
    BY <1>t, <1>1 DEF Open, Goto, TypeInv, LogTypeOK
  <1>3. ASSUME NEW j \in Inode PROVE HasRoom(j)'
    <2>1. Begun(j)' = Begun(j)
      BY <1>t, <1>2 DEF Begun, TypeInv, LogTypeOK, FlocksHeld, Locking
    <2>2. CASE path = None /\ j = i
      <3>1. size'[j] = 0
        BY <1>t, <1>1, <2>2, LogAssumption DEF TypeInv, LogTypeOK
      <3>2. QED BY <1>t, <3>1, BelowTheLimit, LogAssumption
    <2>3. CASE ~(path = None /\ j = i)
      <3>1. size'[j] = size[j]
        BY <1>t, <1>1, <2>3 DEF TypeInv, LogTypeOK
      <3>2. i = path \/ (path = None /\ j # i)
        BY <1>1, <2>3
      <3>3. Committed(j)' \subseteq Committed(j)
        BY <1>2, <3>2 DEF Committed
      <3>4. QED BY <1>t, <1>2, <2>1, <3>1, <3>3, NobodyJoins DEF RoomLeft
    <2>4. QED BY <2>2, <2>3
  <1>4. QED BY <1>3 DEF RoomLeft

(* A line on its way into the file, step by step. *)
LEMMA WriteKeepsRoom ==
  ASSUME GrowthInv, TypeInv', NEW p \in Proc, Write(p) \/ WriteFails(p)
  PROVE  RoomLeft'
  <1>t. TypeInv /\ RoomLeft
    BY DEF GrowthInv
  <1>1. pc[p] = "write" /\ fd[p] \in Inode /\ flocked[fd[p]] = p
        /\ written[p] \in Nat /\ written[p] < LineUnits
    BY <1>t
    DEF Write, WriteFails, Goto, TypeInv, LogTypeOK, DescriptorsOpen, Opened,
        LinesBegun, FlocksHeld, Locking
  <1>2. PICK units \in 0..(LineUnits - written[p]) :
          /\ pc'[p] \in {"write", "unlock"}
          /\ written'[p] = written[p] + units
          /\ size'[fd[p]] = size[fd[p]] + units
          /\ \A q \in Proc \ {p} : pc'[q] = pc[q] /\ written'[q] = written[q]
          /\ \A i \in Inode \ {fd[p]} : size'[i] = size[i]
          /\ UNCHANGED <<path, flocked, fd, unrotated>>
    <2>1. CASE Write(p)
      <3>1. PICK units \in 1..(LineUnits - written[p]) :
              /\ Goto(p, "write", IF written[p] + units < LineUnits
                                  THEN "write" ELSE "unlock")
              /\ Append(p, units)
              /\ UNCHANGED <<path, flocked, fd, unrotated>>
        BY <2>1 DEF Write
      <3>2. units \in 0..(LineUnits - written[p])
        BY <1>1, LogAssumption
      <3>3. QED
        BY <1>t, <1>1, <3>1, <3>2 DEF Append, Goto, TypeInv, LogTypeOK
    <2>2. CASE WriteFails(p)
      <3>1. written[p] + 0 = written[p] /\ size[fd[p]] + 0 = size[fd[p]]
            /\ 0 \in 0..(LineUnits - written[p])
        BY <1>t, <1>1, LogAssumption DEF TypeInv, LogTypeOK
      <3>2. /\ UNCHANGED <<written, size, path, flocked, fd, unrotated>>
            /\ pc'[p] = "unlock"
            /\ \A q \in Proc \ {p} : pc'[q] = pc[q]
        BY <1>t, <2>2 DEF WriteFails, Goto, TypeInv, LogTypeOK
      <3>3. QED BY <3>1, <3>2
    <2>3. QED BY <2>1, <2>2
  <1>3. ASSUME NEW i \in Inode PROVE HasRoom(i)'
    <2>1. CASE i # fd[p]
      <3>1. size'[i] = size[i] /\ Committed(i)' = Committed(i)
        BY <1>t, <1>1, <1>2, <2>1 DEF Committed, TypeInv, LogTypeOK
      <3>2. flocked[i] # p
        BY <1>t, <2>1, LogAssumption DEF TypeInv, FlocksHeld
      <3>3. Begun(i)' = Begun(i)
        BY <1>t, <1>2, <3>2 DEF Begun, TypeInv, LogTypeOK
      <3>4. QED BY <1>t, <1>2, <3>1, <3>3, NobodyJoins DEF RoomLeft
    <2>2. CASE i = fd[p] /\ pc'[p] = "write"
      <3>1. Committed(i)' = Committed(i)
        BY <1>t, <1>1, <1>2, <2>2 DEF Committed, TypeInv, LogTypeOK
      <3>2. Begun(i) = written[p] /\ Begun(i)' = written[p] + units
        BY <1>t, <1>1, <1>2, <2>2, LogAssumption DEF Begun, TypeInv, LogTypeOK
      <3>3. size'[i] = size[i] + units
        BY <1>t, <1>1, <1>2, <2>2 DEF TypeInv, LogTypeOK
      <3>4. Allowed' = Allowed /\ Units(Committed(i))' = Units(Committed(i))
        BY <1>2, <3>1 DEF Allowed, Units
      <3>5. /\ size[i] \in Nat /\ Allowed \in Nat /\ Units(Committed(i)) \in Nat
        BY <1>t, RoomTypes
      <3>6. size[i] + Units(Committed(i)) <= Allowed + Begun(i)
        BY <1>t DEF RoomLeft, HasRoom
      <3>7. HasRoom(i)' <=> size'[i] + Units(Committed(i))' <= Allowed' + Begun(i)'
        BY DEF HasRoom
      <3>8. QED BY <1>1, <3>2, <3>3, <3>4, <3>5, <3>6, <3>7, LogAssumption
    <2>3. CASE i = fd[p] /\ pc'[p] # "write"
      <3>1. Committed(i)' = Committed(i) \ {p}
        BY <1>t, <1>1, <1>2, <2>3 DEF Committed, TypeInv, LogTypeOK
      <3>2. Begun(i)' = 0
        BY <1>t, <1>1, <1>2, <2>3 DEF Begun
      <3>3. size'[i] = size[i] + units
        BY <1>t, <1>1, <1>2, <2>3 DEF TypeInv, LogTypeOK
      <3>4. HasRoom(i)
        BY <1>t DEF RoomLeft
      <3>5. QED BY <1>t, <1>1, <1>2, <2>3, <3>1, <3>2, <3>3, <3>4, LineEnds
    <2>4. QED BY <2>1, <2>2, <2>3
  <1>4. QED BY <1>3 DEF RoomLeft

LEMMA DieKeepsRoom ==
  ASSUME GrowthInv, TypeInv', NEW p \in Proc, Die(p)
  PROVE  RoomLeft'
  <1>t. TypeInv /\ RoomLeft
    BY DEF GrowthInv
  <1>1. ASSUME NEW i \in Inode PROVE HasRoom(i)'
    <2>1. /\ UNCHANGED <<path, size, unrotated>>
          /\ pc'[p] = "idle"
          /\ \A q \in Proc \ {p} : pc'[q] = pc[q] /\ fd'[q] = fd[q]
                                   /\ written'[q] = written[q]
          /\ flocked'[i] = IF flocked[i] = p THEN None ELSE flocked[i]
      BY <1>t DEF Die, TypeInv, LogTypeOK
    <2>2. Committed(i)' = Committed(i) \ {p}
      BY <2>1 DEF Committed
    <2>3. CASE pc[p] = "write" /\ fd[p] = i
      <3>1. flocked[i] = p /\ written[p] \in 0..LineUnits
        BY <1>t, <2>3 DEF TypeInv, LogTypeOK, FlocksHeld, Locking
      <3>2. Begun(i)' = 0
        BY <2>1, <3>1 DEF Begun
      <3>3. size'[i] = size[i] + 0 /\ 0 \in 0..(LineUnits - written[p])
        BY <1>t, <2>1, <3>1, LogAssumption DEF TypeInv, LogTypeOK
      <3>4. HasRoom(i)
        BY <1>t DEF RoomLeft
      <3>5. QED BY <1>t, <2>1, <2>2, <2>3, <3>2, <3>3, <3>4, LineEnds
    <2>4. CASE ~(pc[p] = "write" /\ fd[p] = i)
      <3>1. Begun(i)' = Begun(i)
        BY <1>t, <2>1, <2>4, LogAssumption
        DEF Begun, TypeInv, LogTypeOK, FlocksHeld, Locking
      <3>2. QED BY <1>t, <2>1, <2>2, <3>1, NobodyJoins DEF RoomLeft
    <2>5. QED BY <2>3, <2>4
  <1>2. QED BY <1>1 DEF RoomLeft

LEMMA RestKeepsRoom ==
  ASSUME GrowthInv, TypeInv', NEW p \in Proc,
         OpenFails(p) \/ Flock(p) \/ FlockFails(p) \/ Unlock(p) \/ Close(p)
  PROVE  RoomLeft'
  <1>t. TypeInv /\ RoomLeft
    BY DEF GrowthInv
  <1>1. ASSUME NEW i \in Inode PROVE HasRoom(i)'
    <2>1. UNCHANGED <<path, size, unrotated>>
      BY DEF OpenFails, Flock, FlockFails, Unlock, Close
    <2>2. Committed(i)' \subseteq Committed(i)
      BY <1>t DEF OpenFails, Flock, FlockFails, Unlock, Close, Goto, Committed,
                  TypeInv, LogTypeOK
    <2>3. Begun(i)' = Begun(i)
      <3> USE <1>t, LogAssumption
          DEF Goto, Begun, TypeInv, LogTypeOK, DescriptorsOpen, Opened,
              LinesBegun, FlocksHeld, Locking
      <3>1. CASE OpenFails(p) \/ FlockFails(p) \/ Close(p)
        BY <3>1 DEF OpenFails, FlockFails, Close
      <3>2. CASE Flock(p)
        BY <3>2 DEF Flock
      <3>3. CASE Unlock(p)
        BY <3>3 DEF Unlock
      <3>4. QED BY <3>1, <3>2, <3>3
    <2>4. QED BY <1>t, <2>1, <2>2, <2>3, NobodyJoins DEF RoomLeft
  <1>2. QED BY <1>1 DEF RoomLeft

LEMMA StepKeepsGrowthInv == GrowthInv /\ [Next]_vars => GrowthInv'
  <1> SUFFICES ASSUME GrowthInv, [Next]_vars PROVE GrowthInv'
    OBVIOUS
  <1>1. TypeInv'
    BY StepKeepsTypeInv DEF GrowthInv
  <1>2. CASE Next
    BY <1>1, <1>2, StatKeepsRoom, RenameKeepsRoom, OpenKeepsRoom,
       WriteKeepsRoom, DieKeepsRoom, RestKeepsRoom
    DEF Next, CallStep, GrowthInv
  <1>3. CASE UNCHANGED vars
    BY <1>1, <1>3
    DEF vars, GrowthInv, RoomLeft, HasRoom, Committed, Begun, Allowed, Units
  <1>4. QED BY <1>2, <1>3

(* No file outgrows ROTATE_SIZE by more than a line for each writer and for *)
(* each rename() that failed unnoticed.                                    *)
THEOREM GrowthIsBounded == Spec => []GrowthBounded
  <1>1. Init => GrowthInv
    <2> SUFFICES ASSUME Init PROVE GrowthInv
      OBVIOUS
    <2>1. TypeInv
      BY InitTypeInv
    <2>2. ASSUME NEW i \in Inode PROVE HasRoom(i)
      <3>1. size[i] = 0
        BY DEF Init
      <3>2. /\ Begun(i) \in Nat /\ Allowed \in Nat /\ Units(Committed(i)) \in Nat
            /\ Units(Proc) \in Nat /\ Units(Committed(i)) <= Units(Proc)
            /\ Limit + Units(Proc) <= Allowed
        BY <2>1, RoomTypes
      <3>3. QED BY <3>1, <3>2, LogAssumption DEF HasRoom
    <2>3. QED BY <2>1, <2>2 DEF GrowthInv, RoomLeft
  <1>2. GrowthInv => GrowthBounded
    <2> SUFFICES ASSUME GrowthInv, NEW i \in Inode
                 PROVE  size[i] <= Limit + LineUnits * (Cardinality(Proc) + unrotated)
      BY DEF GrowthBounded
    <2>1. /\ size[i] \in Nat /\ Begun(i) \in Nat /\ Allowed \in Nat
          /\ Units(Committed(i)) \in Nat /\ Committed(i) \in SUBSET Proc
      BY RoomTypes DEF GrowthInv
    <2>2. Begun(i) <= Units(Committed(i))
      <3>1. CASE Begun(i) = 0
        BY <2>1, <3>1
      <3>2. CASE Begun(i) # 0
        <4> DEFINE q == flocked[i]
        <4>1. q \in Proc /\ pc[q] = "write" /\ fd[q] = i
              /\ Begun(i) = written[q] /\ written[q] \in 0..LineUnits
          BY <3>2 DEF Begun, GrowthInv, TypeInv, LogTypeOK, FlocksHeld
        <4>2. q \in Committed(i)
          BY <4>1 DEF Committed
        <4>3. Units(Committed(i)) >= LineUnits
          BY <2>1, <4>2, UnitsFacts
        <4>4. QED BY <2>1, <4>1, <4>3, LogAssumption
      <3>3. QED BY <3>1, <3>2
    <2>3. Allowed = Limit + LineUnits * (Cardinality(Proc) + unrotated)
      <3>1. /\ Cardinality(Proc) \in Nat /\ unrotated \in Nat
            /\ LineUnits \in Nat /\ Limit \in Nat
        BY LogAssumption, FS_CardinalityType DEF GrowthInv, TypeInv, LogTypeOK
      <3>2. LineUnits * (Cardinality(Proc) + unrotated)
              = LineUnits * Cardinality(Proc) + LineUnits * unrotated
        BY <3>1
      <3>3. LineUnits * Cardinality(Proc) \in Nat /\ LineUnits * unrotated \in Nat
        BY <3>1
      <3>4. QED BY <3>1, <3>2, <3>3 DEF Allowed, Units
    <2>4. size[i] + Units(Committed(i)) <= Allowed + Begun(i)
      BY DEF GrowthInv, RoomLeft, HasRoom
    <2>5. size[i] <= Allowed
      BY <2>1, <2>2, <2>4
    <2>6. QED BY <2>3, <2>5
  <1>3. QED BY <1>1, <1>2, StepKeepsGrowthInv, PTL DEF Spec
==============================================================================
