---------------------------- MODULE ParserProofs ----------------------------
(***************************************************************************)
(* What the parser keeps true of the tables, for any number of overlapping *)
(* runs, events, details and faults.                                       *)
(***************************************************************************)
EXTENDS Parser, DatabaseProofs, TLAPS

(* A long cast to unsigned int fits the column. *)
LEMMA UIntFits == \A raw \in RawId : UInt(raw) \in BufferId
  <1>1. \A raw \in Int, n \in Nat \ {0} : raw % n \in 0..(n - 1)
    OBVIOUS
  <1>2. QED BY <1>1, ParserAssumption DEF UInt, BufferId

(* The head of the loop goes on with an event or ends the loop, for its own *)
(* run only; that and the statements stay within the types.                 *)
LEMMA NextEventFacts ==
  ASSUME ParserTypeOK, NEW p \in Parser, NEW from,
         NEW left \in SUBSET BufferId, NextEvent(p, from, left)
  PROVE  /\ parser_pc[p] = from
         /\ parser_pc' \in [Parser -> ParserPC]
         /\ parser_pc'[p] \in {"close", "fetch_detail"}
         /\ pending' \in [Parser -> SUBSET BufferId]
         /\ event_id' \in [Parser -> BufferId]
         /\ parser_pc'[p] = "close" => pending'[p] = {}
         /\ parser_pc'[p] = "fetch_detail" =>
              pending'[p] \subseteq left /\ event_id'[p] \in left \ pending'[p]
         /\ \A q \in Parser \ {p} : /\ parser_pc'[q] = parser_pc[q]
                                     /\ pending'[q] = pending[q]
                                     /\ event_id'[q] = event_id[q]
  BY DEF ParserTypeOK, NextEvent, Goto, ParserPC, BufferId

LEMMA SpendType ==
  ASSUME ParserTypeOK, NEW faulty \in BOOLEAN, Spend(faulty)
  PROVE  parser_faults' \in 0..MaxParserFaults
  BY ParserAssumption DEF ParserTypeOK, Spend

(* An INSERT of ctf_events is only made of an id and a sanitized detail.    *)
InsertReady ==
    \A p \in Parser : parser_pc[p] = "insert_event" =>
        event_id[p] \in Id /\ event[p] \in Content

TypeInv == ParserTypeOK /\ InsertReady

LEMMA InitTypeInv == Init => TypeInv
  BY ParserAssumption, NoRowAssumption
  DEF Init, DatabaseInit, ParserOnlyInit, TypeInv, ParserTypeOK, InsertReady,
      DatabaseTypeOK, ParserPC, BufferId

LEMMA StartKeepsTypeInv ==
  ASSUME TypeInv, NEW p \in Parser,
         \/ CronStarts(p) \/ LockAcquired(p) \/ LockRefused(p) \/ Connect(p)
         \/ FetchIds(p) \/ InsertBuffer(p) \/ DropKnown(p)
  PROVE  TypeInv'
  <1> USE ParserAssumption
      DEF TypeInv, ParserTypeOK, InsertReady, DatabaseTypeOK, ParserPC, Goto,
          database, unchangedRun
  <1>1. CASE CronStarts(p) BY <1>1 DEF CronStarts
  <1>2. CASE LockAcquired(p) BY <1>2 DEF LockAcquired, Lock!Acquire
  <1>3. CASE LockRefused(p) BY <1>3, SpendType DEF LockRefused
  <1>4. CASE Connect(p) BY <1>4, SpendType DEF Connect
  <1>5. CASE FetchIds(p)
    BY <1>5, UIntFits DEF FetchIds
  <1>6. CASE InsertBuffer(p)
    BY <1>6, SpendType DEF InsertBuffer, Outcome, InsertIgnore
  <1>7. CASE DropKnown(p)
    BY <1>7, SpendType DEF DropKnown, Outcome, CleanBuffer
  <1>8. QED BY <1>1, <1>2, <1>3, <1>4, <1>5, <1>6, <1>7

LEMMA LoopHeadKeepsTypeInv ==
  ASSUME TypeInv, NEW p \in Parser, NEW from, NEW left \in SUBSET BufferId,
         NextEvent(p, from, left),
         DatabaseTypeOK', parser_faults' \in 0..MaxParserFaults,
         late' \subseteq Insert, rested' \in [Parser -> BOOLEAN],
         event' = event \/ event' = [event EXCEPT ![p] = NoEvent],
         UNCHANGED <<parser_lock, ids>>
  PROVE  TypeInv'
  <1>1. ParserTypeOK
    BY DEF TypeInv
  <1>2. /\ parser_pc' \in [Parser -> ParserPC]
        /\ parser_pc'[p] \in {"close", "fetch_detail"}
        /\ pending' \in [Parser -> SUBSET BufferId]
        /\ event_id' \in [Parser -> BufferId]
        /\ \A q \in Parser \ {p} : /\ parser_pc'[q] = parser_pc[q]
                                    /\ event_id'[q] = event_id[q]
    BY <1>1, NextEventFacts
  <1>3. ParserTypeOK'
    BY <1>2 DEF TypeInv, ParserTypeOK
  <1>4. InsertReady'
    BY <1>1, <1>2 DEF TypeInv, InsertReady, ParserTypeOK
  <1>5. QED BY <1>3, <1>4 DEF TypeInv

LEMMA LoopKeepsTypeInv ==
  ASSUME TypeInv, NEW p \in Parser,
         \/ GetBufferIds(p) \/ FetchDetail(p) \/ DeleteSkipped(p)
         \/ InsertEvent(p) \/ InsertEventFails(p) \/ DeleteStored(p)
         \/ Pause(p)
  PROVE  TypeInv'
  <1>t. /\ ParserTypeOK /\ DatabaseTypeOK
        /\ parser_buffer \in SUBSET BufferId /\ late \subseteq Insert
        /\ pending[p] \in SUBSET BufferId /\ event_id[p] \in BufferId
        /\ rested \in [Parser -> BOOLEAN]
    BY DEF TypeInv, ParserTypeOK, DatabaseTypeOK
  <1>1. CASE GetBufferIds(p)
    <2>1. CASE NextEvent(p, "get_buffer_ids", parser_buffer) /\ Spend(FALSE)
      <3>1. parser_faults' \in 0..MaxParserFaults
        BY <1>t, <2>1, SpendType
      <3>2. QED
        BY <1>1, <1>t, <2>1, <3>1, LoopHeadKeepsTypeInv
        DEF GetBufferIds, database, DatabaseTypeOK
    <2>2. CASE Goto(p, "get_buffer_ids", "close") /\ Spend(TRUE)
               /\ UNCHANGED <<pending, event_id>>
      <3>1. parser_faults' \in 0..MaxParserFaults
        BY <1>t, <2>2, SpendType
      <3>2. QED
        BY <1>1, <2>2, <3>1
        DEF GetBufferIds, Goto, ParserPC, database, TypeInv, ParserTypeOK,
            InsertReady, DatabaseTypeOK
    <2>3. QED BY <1>1, <2>1, <2>2 DEF GetBufferIds
  <1>2. CASE FetchDetail(p)
    BY <1>2
    DEF FetchDetail, Goto, ParserPC, BufferId, database, TypeInv,
        ParserTypeOK, InsertReady, DatabaseTypeOK
  <1>3. CASE DeleteSkipped(p)
    <2>1. PICK outcome \in Outcome :
            /\ parser_buffer' = IF Executed(outcome)
                                THEN DeleteFromBuffer(event_id[p])
                                ELSE parser_buffer
            /\ Spend(outcome # "ok")
      BY <1>3 DEF DeleteSkipped
    <2>2. parser_faults' \in 0..MaxParserFaults
      BY <1>t, <2>1, SpendType
    <2>3. DatabaseTypeOK'
      BY <1>3, <1>t, <2>1 DEF DeleteSkipped, DatabaseTypeOK, DeleteFromBuffer
    <2>4. QED
      BY <1>3, <1>t, <2>2, <2>3, LoopHeadKeepsTypeInv DEF DeleteSkipped
  <1>4. CASE InsertEvent(p)
    <2>1. event_id[p] \in Id /\ event[p] \in Content
      BY <1>4 DEF InsertEvent, Goto, TypeInv, InsertReady
    <2>2. DatabaseTypeOK'
      BY <1>4, <1>t, <2>1, UpsertFacts DEF InsertEvent, DatabaseTypeOK
    <2>3. QED
      BY <1>4, <2>2
      DEF InsertEvent, Goto, ParserPC, TypeInv, ParserTypeOK, InsertReady
  <1>5. CASE InsertEventFails(p)
    <2>1. /\ event_id[p] \in Id /\ event[p] \in Content
          /\ NextEvent(p, "insert_event", pending[p])
      BY <1>5, <1>t, NextEventFacts DEF InsertEventFails, TypeInv, InsertReady
    <2>2. DatabaseTypeOK'
      BY <1>5, <1>t, <2>1, UpsertFacts DEF InsertEventFails, DatabaseTypeOK
    <2>3. late' \subseteq Insert
      BY <1>5, <1>t, <2>1 DEF InsertEventFails, Insert
    <2>4. parser_faults' \in 0..MaxParserFaults
      BY <1>5, <1>t, SpendType DEF InsertEventFails
    <2>5. QED
      BY <1>5, <1>t, <2>1, <2>2, <2>3, <2>4, LoopHeadKeepsTypeInv
      DEF InsertEventFails
  <1>6. CASE DeleteStored(p)
    <2>1. PICK outcome \in Outcome :
            /\ parser_buffer' = IF Executed(outcome)
                                THEN DeleteFromBuffer(event_id[p])
                                ELSE parser_buffer
            /\ Spend(outcome # "ok")
      BY <1>6 DEF DeleteStored
    <2>2. parser_faults' \in 0..MaxParserFaults
      BY <1>t, <2>1, SpendType
    <2>3. DatabaseTypeOK'
      BY <1>6, <1>t, <2>1 DEF DeleteStored, DatabaseTypeOK, DeleteFromBuffer
    <2>4. QED
      BY <1>6, <2>2, <2>3
      DEF DeleteStored, Goto, ParserPC, BufferId, TypeInv, ParserTypeOK,
          InsertReady
  <1>7. CASE Pause(p)
    <2>1. rested' \in [Parser -> BOOLEAN]
      BY <1>7, <1>t DEF Pause
    <2>2. QED
      BY <1>7, <1>t, <2>1, LoopHeadKeepsTypeInv
      DEF Pause, database, DatabaseTypeOK, TypeInv, ParserTypeOK
  <1>8. QED BY <1>1, <1>2, <1>3, <1>4, <1>5, <1>6, <1>7

LEMMA EndKeepsTypeInv ==
  ASSUME TypeInv, NEW p \in Parser, Finish(p) \/ Die(p)
  PROVE  TypeInv'
  <1> USE ParserAssumption
      DEF TypeInv, ParserTypeOK, InsertReady, DatabaseTypeOK, database,
          Forget, ParserPC, BufferId
  <1>1. CASE Finish(p) BY <1>1 DEF Finish, Goto, Lock!Release
  <1>2. CASE Die(p) BY <1>2, SpendType DEF Die
  <1>3. QED BY <1>1, <1>2

LEMMA OthersKeepTypeInv ==
  ASSUME TypeInv, Others \/ LateInsertLands
  PROVE  TypeInv'
  <1>t. DatabaseTypeOK /\ parser_buffer \subseteq BufferId /\ approved \subseteq Id
    BY DEF TypeInv, ParserTypeOK, DatabaseTypeOK
  <1>1. CASE Others
    <2>1. PICK id \in Id :
            \/ OperatorApproves(id)
            \/ /\ ctf_events' = MarkAsPosted(id)
               /\ UNCHANGED <<parser_buffer, approved>>
      BY <1>1 DEF Others
    <2>2. DatabaseTypeOK'
      BY <1>t, <2>1, MarkFacts, ApproveFacts DEF DatabaseTypeOK
    <2>3. QED
      BY <1>1, <2>2
      DEF Others, parserVars, TypeInv, ParserTypeOK, InsertReady
  <1>2. CASE LateInsertLands
    <2>1. PICK insert \in late :
            /\ ctf_events' = UpsertEvent(insert.id, insert.content)
            /\ late' = late \ {insert}
      BY <1>2 DEF LateInsertLands
    <2>2. insert.id \in Id /\ insert.content \in Content
      BY DEF TypeInv, ParserTypeOK, Insert
    <2>3. DatabaseTypeOK'
      BY <1>2, <1>t, <2>1, <2>2, UpsertFacts
      DEF LateInsertLands, DatabaseTypeOK
    <2>4. QED
      BY <1>2, <2>1, <2>3
      DEF LateInsertLands, TypeInv, ParserTypeOK, InsertReady
  <1>3. QED BY <1>1, <1>2

LEMMA StepKeepsTypeInv == TypeInv /\ [Next]_vars => TypeInv'
  <1> SUFFICES ASSUME TypeInv, [Next]_vars PROVE TypeInv'
    OBVIOUS
  <1>1. CASE Next
    BY <1>1, StartKeepsTypeInv, LoopKeepsTypeInv, EndKeepsTypeInv,
       OthersKeepTypeInv
    DEF Next, ParserStep, RunStep
  <1>2. CASE UNCHANGED vars
    BY <1>2 DEF vars, database, parserVars, TypeInv, ParserTypeOK,
                InsertReady, DatabaseTypeOK
  <1>3. QED BY <1>1, <1>2

(* The tables and the variables of every run keep their types: no id wider  *)
(* than the column, no INSERT of an event that was not sanitized.           *)
THEOREM ParserTypeCorrect == Spec => []ParserTypeOK
  <1>1. Spec => []TypeInv
    BY InitTypeInv, StepKeepsTypeInv, PTL DEF Spec
  <1>2. QED BY <1>1, PTL DEF TypeInv
-----------------------------------------------------------------------------
InLoop == {"fetch_detail", "delete_skipped", "insert_event", "delete_stored",
           "pause"}

(* A run has a snapshot in the loop only, the event at hand is not in what  *)
(* is left of it, and it deletes from the buffer what is already stored.    *)
RunInv ==
    \A p \in Parser :
        /\ parser_pc[p] \notin InLoop => pending[p] = {}
        /\ parser_pc[p] \in {"fetch_detail", "delete_skipped", "insert_event"}
              => event_id[p] \notin pending[p]
        /\ parser_pc[p] = "delete_stored" => event_id[p] \in Stored

SafeInv == TypeInv /\ OneRun /\ RunInv

LEMMA InitSafeInv == Init => SafeInv
  BY InitTypeInv
  DEF Init, ParserOnlyInit, SafeInv, OneRun, Running, RunInv

(* Where a run is in main() after a step of it, and that the others are     *)
(* where they were.                                                         *)
LEMMA OwnStep ==
  ASSUME TypeInv, NEW p \in Parser, CronStarts(p) \/ RunStep(p) \/ Die(p)
  PROVE  \A q \in Parser \ {p} : /\ parser_pc'[q] = parser_pc[q]
                                /\ pending'[q] = pending[q]
                                /\ event_id'[q] = event_id[q]
  <1> USE DEF TypeInv, ParserTypeOK, Goto, unchangedRun
  <1>1. CASE \/ CronStarts(p) \/ LockAcquired(p) \/ LockRefused(p)
             \/ Connect(p) \/ FetchIds(p) \/ InsertBuffer(p) \/ DropKnown(p)
    BY <1>1 DEF CronStarts, LockAcquired, LockRefused, Connect, FetchIds,
                InsertBuffer, DropKnown
  <1>2. CASE GetBufferIds(p) \/ DeleteSkipped(p) \/ InsertEventFails(p)
             \/ Pause(p)
    BY <1>2 DEF GetBufferIds, DeleteSkipped, InsertEventFails, Pause, NextEvent
  <1>3. CASE FetchDetail(p) \/ InsertEvent(p) \/ DeleteStored(p)
    BY <1>3 DEF FetchDetail, InsertEvent, DeleteStored
  <1>4. CASE Finish(p) \/ Die(p)
    BY <1>4 DEF Finish, Die, Forget
  <1>5. QED BY <1>1, <1>2, <1>3, <1>4 DEF RunStep

(* Rows are added and never removed. *)
LEMMA StoredGrows ==
  ASSUME TypeInv, [Next]_vars
  PROVE  Stored \subseteq Stored'
  <1>t. DatabaseTypeOK
    BY DEF TypeInv, ParserTypeOK
  <1>1. ASSUME NEW p \in Parser, InsertEvent(p) \/ InsertEventFails(p)
        PROVE  Stored \subseteq Stored'
    <2>1. event_id[p] \in Id /\ event[p] \in Content
      BY <1>1 DEF TypeInv, InsertReady, InsertEvent, InsertEventFails, Goto,
                  NextEvent
    <2>2. \/ ctf_events' = UpsertEvent(event_id[p], event[p])
          \/ ctf_events' = ctf_events
      BY <1>1 DEF InsertEvent, InsertEventFails
    <2>3. QED BY <1>t, <2>1, <2>2, UpsertFacts DEF Stored
  <1>2. CASE LateInsertLands
    <2>1. PICK insert \in late :
            ctf_events' = UpsertEvent(insert.id, insert.content)
      BY <1>2 DEF LateInsertLands
    <2>2. insert.id \in Id /\ insert.content \in Content
      BY DEF TypeInv, ParserTypeOK, Insert
    <2>3. QED BY <1>t, <2>1, <2>2, UpsertFacts
  <1>3. CASE Others
    BY <1>t, <1>3, MarkFacts, ApproveFacts DEF Others
  <1>4. ASSUME NEW p \in Parser, CronStarts(p) \/ RunStep(p) \/ Die(p),
               ~InsertEvent(p), ~InsertEventFails(p)
        PROVE  UNCHANGED ctf_events
    BY <1>4 DEF CronStarts, RunStep, Die, LockAcquired, LockRefused, Connect,
                FetchIds, InsertBuffer, DropKnown, GetBufferIds, FetchDetail,
                DeleteSkipped, DeleteStored, Pause, Finish, database
  <1>5. CASE UNCHANGED vars
    BY <1>5 DEF vars, database, Stored
  <1>6. QED
    BY <1>1, <1>2, <1>3, <1>4, <1>5 DEF Next, ParserStep, Stored

(* The lock does what it is there for: whoever is past it holds it.         *)
LEMMA StepKeepsOneRun ==
  ASSUME TypeInv, OneRun, [Next]_vars
  PROVE  OneRun'
  <1>1. ASSUME NEW p \in Parser, CronStarts(p) \/ RunStep(p) \/ Die(p)
        PROVE  OneRun'
    <2>1. \A q \in Parser \ {p} : parser_pc'[q] = parser_pc[q]
      BY <1>1, OwnStep
    <2>2. CASE CronStarts(p) \/ LockRefused(p)
      BY <2>1, <2>2 DEF CronStarts, LockRefused, Goto, OneRun, Running,
                        TypeInv, ParserTypeOK
    <2>3. CASE LockAcquired(p)
      BY <2>1, <2>3, ParserAssumption
      DEF LockAcquired, Lock!Acquire, Goto, OneRun, Running, TypeInv,
          ParserTypeOK
    <2>4. CASE Finish(p)
      BY <2>1, <2>4, ParserAssumption
      DEF Finish, Lock!Release, Goto, OneRun, Running, TypeInv, ParserTypeOK
    <2>5. CASE Die(p)
      BY <2>1, <2>5 DEF Die, OneRun, Running, TypeInv, ParserTypeOK
    <2>6. ASSUME RunStep(p), ~LockRefused(p), ~LockAcquired(p), ~Finish(p)
          PROVE  parser_pc[p] \notin {"idle", "lock"} /\ UNCHANGED parser_lock
      BY <2>6
      DEF RunStep, Connect, FetchIds, InsertBuffer, DropKnown, GetBufferIds,
          FetchDetail, DeleteSkipped, InsertEvent, InsertEventFails,
          DeleteStored, Pause, NextEvent, Goto
    <2>7. CASE RunStep(p) /\ ~LockRefused(p) /\ ~LockAcquired(p) /\ ~Finish(p)
      BY <2>1, <2>6, <2>7 DEF OneRun, Running
    <2>8. QED BY <1>1, <2>2, <2>3, <2>4, <2>5, <2>7
  <1>2. CASE LateInsertLands \/ Others \/ UNCHANGED vars
    BY <1>2 DEF LateInsertLands, Others, vars, parserVars, OneRun, Running
  <1>3. QED BY <1>1, <1>2 DEF Next, ParserStep

LEMMA StepKeepsRunInv ==
  ASSUME SafeInv, [Next]_vars
  PROVE  RunInv'
  <1>t. TypeInv /\ ParserTypeOK /\ DatabaseTypeOK /\ RunInv
    BY DEF SafeInv, TypeInv, ParserTypeOK
  <1>s. Stored \subseteq Stored'
    BY <1>t, StoredGrows
  <1>1. ASSUME NEW p \in Parser, CronStarts(p) \/ RunStep(p) \/ Die(p)
        PROVE  RunInv'
    <2>1. \A q \in Parser \ {p} : /\ parser_pc'[q] = parser_pc[q]
                                 /\ pending'[q] = pending[q]
                                 /\ event_id'[q] = event_id[q]
      BY <1>t, <1>1, OwnStep
    <2>2. SUFFICES
            /\ parser_pc'[p] \notin InLoop => pending'[p] = {}
            /\ parser_pc'[p] \in {"fetch_detail", "delete_skipped",
                                  "insert_event"}
                 => event_id'[p] \notin pending'[p]
            /\ parser_pc'[p] = "delete_stored" => event_id'[p] \in Stored'
      BY <1>t, <1>s, <2>1 DEF RunInv
    <2>3. CASE \/ CronStarts(p) \/ LockAcquired(p) \/ LockRefused(p)
               \/ Connect(p) \/ FetchIds(p) \/ InsertBuffer(p) \/ DropKnown(p)
      BY <1>t, <2>3
      DEF CronStarts, LockAcquired, LockRefused, Connect, FetchIds,
          InsertBuffer, DropKnown, Goto, unchangedRun, RunInv, InLoop,
          ParserTypeOK
    <2>4. ASSUME NEW from, NEW left \in SUBSET BufferId,
                 NextEvent(p, from, left)
          PROVE  /\ parser_pc'[p] = "close" => pending'[p] = {}
                 /\ parser_pc'[p] \in {"close", "fetch_detail"}
                 /\ parser_pc'[p] = "fetch_detail" =>
                        event_id'[p] \notin pending'[p]
      BY <1>t, <2>4, NextEventFacts
    <2>5. parser_buffer \in SUBSET BufferId /\ pending[p] \in SUBSET BufferId
      BY <1>t DEF ParserTypeOK, DatabaseTypeOK
    <2>6. CASE GetBufferIds(p)
      <3>1. CASE NextEvent(p, "get_buffer_ids", parser_buffer)
        BY <2>4, <2>5, <3>1 DEF InLoop
      <3>2. CASE Goto(p, "get_buffer_ids", "close") /\ UNCHANGED pending
        BY <1>t, <3>2 DEF Goto, RunInv, InLoop, ParserTypeOK
      <3>3. QED BY <2>6, <3>1, <3>2 DEF GetBufferIds
    <2>7. CASE DeleteSkipped(p) \/ InsertEventFails(p) \/ Pause(p)
      <3>1. PICK from : NextEvent(p, from, pending[p])
        BY <2>7 DEF DeleteSkipped, InsertEventFails, Pause
      <3>2. QED BY <2>4, <2>5, <3>1 DEF InLoop
    <2>8. CASE FetchDetail(p)
      BY <1>t, <2>8 DEF FetchDetail, Goto, RunInv, InLoop, ParserTypeOK
    <2>9. CASE InsertEvent(p)
      <3>1. event_id[p] \in Id /\ event[p] \in Content
        BY <1>t, <2>9 DEF TypeInv, InsertReady, InsertEvent, Goto
      <3>2. event_id[p] \in Stored'
        BY <1>t, <2>9, <3>1, UpsertFacts DEF InsertEvent
      <3>3. QED
        BY <1>t, <2>9, <3>2 DEF InsertEvent, Goto, InLoop, ParserTypeOK
    <2>10. CASE DeleteStored(p)
      BY <1>t, <2>10 DEF DeleteStored, Goto, InLoop, ParserTypeOK
    <2>11. CASE Finish(p) \/ Die(p)
      BY <1>t, <2>11 DEF Finish, Die, Goto, Forget, InLoop, ParserTypeOK
    <2>12. QED
      BY <1>1, <2>3, <2>6, <2>7, <2>8, <2>9, <2>10, <2>11 DEF RunStep
  <1>2. CASE LateInsertLands \/ Others \/ UNCHANGED vars
    BY <1>t, <1>s, <1>2 DEF LateInsertLands, Others, vars, parserVars, RunInv
  <1>3. QED BY <1>1, <1>2 DEF Next, ParserStep

LEMMA SafeInvInductive == Spec => []SafeInv
  <1>1. SafeInv /\ [Next]_vars => SafeInv'
    BY StepKeepsTypeInv, StepKeepsOneRun, StepKeepsRunInv DEF SafeInv
  <1>2. QED BY InitSafeInv, <1>1, PTL DEF Spec

(* Of the overlapping runs that cron starts only one works on the tables.   *)
THEOREM OnlyOneRun == Spec => []OneRun
  BY SafeInvInductive, PTL DEF SafeInv

(* Runs that die, lose their connection or fail to insert never drop an     *)
(* event between the two tables.                                            *)
THEOREM NoEventIsDropped == Spec => LeavesBufferForAReason
  <1> DEFINE A == \A id \in parser_buffer \ parser_buffer' :
                    \/ id \in Stored
                    \/ \E p \in Parser : /\ parser_pc[p] = "delete_skipped"
                                         /\ event_id[p] = id
  <1>1. ASSUME SafeInv, Next PROVE A
    <2>1. ASSUME NEW p \in Parser, DeleteSkipped(p) PROVE A
      BY <2>1 DEF DeleteSkipped, NextEvent, Goto, DeleteFromBuffer
    <2>2. ASSUME NEW p \in Parser, DeleteStored(p) PROVE A
      BY <1>1, <2>2
      DEF DeleteStored, Goto, DeleteFromBuffer, SafeInv, RunInv
    <2>3. ASSUME NEW p \in Parser, DropKnown(p) PROVE A
      BY <2>3 DEF DropKnown, CleanBuffer
    <2>4. ASSUME NEW p \in Parser, InsertBuffer(p) PROVE A
      BY <2>4 DEF InsertBuffer, InsertIgnore
    <2>5. ASSUME NEW p \in Parser,
                 \/ CronStarts(p) \/ LockAcquired(p) \/ LockRefused(p)
                 \/ Connect(p) \/ FetchIds(p) \/ GetBufferIds(p)
                 \/ FetchDetail(p) \/ InsertEvent(p) \/ InsertEventFails(p)
                 \/ Pause(p) \/ Finish(p) \/ Die(p)
          PROVE  A
      BY <2>5
      DEF CronStarts, LockAcquired, LockRefused, Connect, FetchIds,
          GetBufferIds, FetchDetail, InsertEvent, InsertEventFails, Pause,
          Finish, Die, database
    <2>6. CASE LateInsertLands \/ Others
      BY <2>6 DEF LateInsertLands, Others, OperatorApproves
    <2>7. QED
      BY <1>1, <2>1, <2>2, <2>3, <2>4, <2>5, <2>6 DEF Next, ParserStep, RunStep
  <1>2. SafeInv /\ [Next]_vars => [A]_vars
    BY <1>1
  <1>3. QED
    BY <1>2, SafeInvInductive, PTL DEF Spec, LeavesBufferForAReason

(* No step of the parser, a late INSERT included, takes a row away or makes *)
(* a published one unpublished.                                             *)
THEOREM PostedForGood == Spec => PostedStays
  <1> DEFINE A == \A id \in Stored :
                    /\ ctf_events'[id] # NoRow
                    /\ ctf_events[id].posted_at => ctf_events'[id].posted_at
  <1>1. ASSUME TypeInv, Next PROVE A
    <2>t. DatabaseTypeOK
      BY <1>1 DEF TypeInv, ParserTypeOK
    <2>1. ASSUME NEW id \in Id, NEW content \in Content,
                 ctf_events' = UpsertEvent(id, content)
          PROVE  A
      BY <2>t, <2>1, UpsertFacts DEF Stored
    <2>2. ASSUME NEW p \in Parser, InsertEvent(p) \/ InsertEventFails(p)
          PROVE  A
      <3>1. event_id[p] \in Id /\ event[p] \in Content
        BY <1>1, <2>2 DEF TypeInv, InsertReady, InsertEvent, InsertEventFails,
                          Goto, NextEvent
      <3>2. QED
        BY <2>1, <2>2, <3>1 DEF InsertEvent, InsertEventFails, Stored
    <2>3. CASE LateInsertLands
      BY <1>1, <2>1, <2>3 DEF LateInsertLands, TypeInv, ParserTypeOK, Insert
    <2>4. CASE Others
      <3>1. PICK id \in Id : OperatorApproves(id) \/ ctf_events' = MarkAsPosted(id)
        BY <2>4 DEF Others
      <3>2. QED
        BY <2>t, <3>1, MarkFacts, ApproveFacts DEF Stored
    <2>5. ASSUME NEW p \in Parser, CronStarts(p) \/ RunStep(p) \/ Die(p),
                 ~InsertEvent(p), ~InsertEventFails(p)
          PROVE  UNCHANGED ctf_events
      BY <2>5
      DEF CronStarts, RunStep, Die, LockAcquired, LockRefused, Connect,
          FetchIds, InsertBuffer, DropKnown, GetBufferIds, FetchDetail,
          DeleteSkipped, DeleteStored, Pause, Finish, database
    <2>6. QED
      BY <1>1, <2>2, <2>3, <2>4, <2>5 DEF Next, ParserStep, Stored
  <1>2. TypeInv /\ [Next]_vars => [A]_vars
    BY <1>1
  <1>3. Spec => []TypeInv
    BY InitTypeInv, StepKeepsTypeInv, PTL DEF Spec
  <1>4. QED
    BY <1>2, <1>3, PTL DEF Spec, PostedStays
-----------------------------------------------------------------------------
(* From here on every INSERT that was given up is over: LateInserts is      *)
(* FALSE.  A run that reads its snapshot has just cleaned the buffer, and   *)
(* nobody else adds rows, so the snapshot stays free of stored events.      *)
Cleaned ==
    \A p \in Parser :
        parser_pc[p] = "get_buffer_ids" => parser_buffer \cap Stored = {}

DedupInv == SafeInv /\ late = {} /\ Cleaned /\ NoRefetch

LEMMA InitDedupInv == Init => DedupInv
  BY InitSafeInv
  DEF Init, DatabaseInit, ParserOnlyInit, DedupInv, Cleaned, NoRefetch

(* Only the run past the lock writes the buffer or adds rows.               *)
LEMMA OneWriter ==
  ASSUME SafeInv, late = {}, NEW p \in Parser, RunStep(p),
         NEW q \in Parser \ {p}, parser_pc[q] \notin {"idle", "lock"}
  PROVE  UNCHANGED <<parser_buffer, ctf_events>>
  <1>1. parser_lock = q /\ (parser_pc[p] \notin {"idle", "lock"} => parser_lock = p)
    BY DEF SafeInv, OneRun, Running
  <1>2. parser_pc[p] \in {"idle", "lock"}
    BY <1>1
  <1>3. QED
    BY <1>2
    DEF RunStep, LockAcquired, LockRefused, Connect, FetchIds, InsertBuffer,
        DropKnown, GetBufferIds, FetchDetail, DeleteSkipped, InsertEvent,
        InsertEventFails, DeleteStored, Pause, Finish, NextEvent, Goto,
        database

(* What a step of a run does to the set of stored events: it adds at most   *)
(* the event at hand, and that only at insert_event.                        *)
LEMMA StoredAfter ==
  ASSUME TypeInv, NEW p \in Parser, CronStarts(p) \/ RunStep(p) \/ Die(p)
  PROVE  \/ UNCHANGED ctf_events
         \/ /\ parser_pc[p] = "insert_event"
            /\ event_id[p] \in Id /\ event[p] \in Content
            /\ ctf_events' = UpsertEvent(event_id[p], event[p])
            /\ UNCHANGED approved
            /\ Stored' = Stored \cup {event_id[p]}
  <1>1. CASE InsertEvent(p) \/ InsertEventFails(p)
    <2>1. parser_pc[p] = "insert_event" /\ UNCHANGED approved
      BY <1>1 DEF InsertEvent, InsertEventFails, Goto, NextEvent
    <2>2. event_id[p] \in Id /\ event[p] \in Content /\ DatabaseTypeOK
      BY <2>1 DEF TypeInv, InsertReady, ParserTypeOK
    <2>3. \/ ctf_events' = UpsertEvent(event_id[p], event[p])
          \/ UNCHANGED ctf_events
      BY <1>1 DEF InsertEvent, InsertEventFails
    <2>4. QED BY <2>1, <2>2, <2>3, UpsertFacts
  <1>2. CASE ~InsertEvent(p) /\ ~InsertEventFails(p)
    BY <1>2
    DEF CronStarts, RunStep, Die, LockAcquired, LockRefused, Connect, FetchIds,
        InsertBuffer, DropKnown, GetBufferIds, FetchDetail, DeleteSkipped,
        DeleteStored, Pause, Finish, database
  <1>3. QED BY <1>1, <1>2

LEMMA RunKeepsDedup ==
  ASSUME DedupInv, ~LateInserts, NEW p \in Parser,
         CronStarts(p) \/ RunStep(p) \/ Die(p)
  PROVE  late' = {} /\ Cleaned' /\ NoRefetch'
  <1>t. /\ SafeInv /\ TypeInv /\ ParserTypeOK /\ DatabaseTypeOK /\ RunInv
        /\ late = {} /\ Cleaned /\ NoRefetch
        /\ parser_buffer \in SUBSET BufferId /\ pending[p] \in SUBSET BufferId
    BY DEF DedupInv, SafeInv, TypeInv, ParserTypeOK, DatabaseTypeOK
  <1>1. late' = {}
    BY <1>t
    DEF CronStarts, RunStep, Die, LockAcquired, LockRefused, Connect, FetchIds,
        InsertBuffer, DropKnown, GetBufferIds, FetchDetail, DeleteSkipped,
        InsertEvent, InsertEventFails, DeleteStored, Pause, Finish,
        unchangedRun
  <1>2. \A q \in Parser \ {p} : /\ parser_pc'[q] = parser_pc[q]
                               /\ pending'[q] = pending[q]
                               /\ event_id'[q] = event_id[q]
    BY <1>t, OwnStep
  <1> DEFINE Good(q) ==
        /\ parser_pc[q] = "get_buffer_ids" => parser_buffer \cap Stored = {}
        /\ pending[q] \cap Stored = {}
        /\ parser_pc[q] \in {"fetch_detail", "delete_skipped", "insert_event"}
              => event_id[q] \notin Stored
  <1>3. Good(p)
    BY <1>t DEF Cleaned, NoRefetch
  <1>4. ASSUME NEW q \in Parser \ {p} PROVE Good(q)'
    <2>1. CASE parser_pc[q] \in {"idle", "lock"}
      <3>1. pending[q] = {}
        BY <1>t, <2>1 DEF RunInv, InLoop
      <3>2. QED BY <1>2, <2>1, <3>1
    <2>2. CASE parser_pc[q] \notin {"idle", "lock"}
      <3>1. CASE RunStep(p)
        <4>1. UNCHANGED <<parser_buffer, ctf_events>>
          BY <1>t, <2>2, <3>1, OneWriter
        <4>2. QED BY <1>t, <1>2, <4>1 DEF Cleaned, NoRefetch, Stored
      <3>2. CASE CronStarts(p) \/ Die(p)
        <4>1. UNCHANGED <<parser_buffer, ctf_events>>
          BY <3>2 DEF CronStarts, Die, database
        <4>2. QED BY <1>t, <1>2, <4>1 DEF Cleaned, NoRefetch, Stored
      <3>3. QED BY <3>1, <3>2
    <2>3. QED BY <2>1, <2>2
  <1>5. Good(p)'
    <2>1. CASE \/ CronStarts(p) \/ LockAcquired(p) \/ LockRefused(p)
               \/ Connect(p) \/ FetchIds(p) \/ InsertBuffer(p)
      <3>1. UNCHANGED <<ctf_events, pending, event_id>>
        BY <2>1
        DEF CronStarts, LockAcquired, LockRefused, Connect, FetchIds,
            InsertBuffer, database, unchangedRun
      <3>2. parser_pc'[p] \in {"lock", "idle", "connect", "fetch_ids", "close",
                               "clean_buffer", "insert_buffer"}
        BY <1>t, <2>1
        DEF CronStarts, LockAcquired, LockRefused, Connect, FetchIds,
            InsertBuffer, Goto, ParserTypeOK
      <3>3. QED BY <1>3, <3>1, <3>2 DEF Stored
    <2>2. CASE DropKnown(p)
      BY <1>t, <1>3, <2>2
      DEF DropKnown, Goto, CleanBuffer, Executed, unchangedRun, Stored,
          ParserTypeOK
    <2>3. ASSUME NEW from, NEW left \in SUBSET BufferId,
                 NextEvent(p, from, left), left \cap Stored' = {}
          PROVE  Good(p)'
      BY <1>t, <2>3, NextEventFacts
    <2>4. CASE GetBufferIds(p)
      <3>1. CASE NextEvent(p, "get_buffer_ids", parser_buffer)
        <4>1. parser_pc[p] = "get_buffer_ids"
          BY <3>1 DEF NextEvent, Goto
        <4>2. parser_buffer \cap Stored' = {}
          BY <1>3, <2>4, <4>1 DEF GetBufferIds, database, Stored
        <4>3. QED BY <1>t, <2>3, <3>1, <4>2
      <3>2. CASE Goto(p, "get_buffer_ids", "close")
                 /\ UNCHANGED <<pending, event_id>>
        BY <1>t, <1>3, <2>4, <3>2
        DEF GetBufferIds, Goto, database, Stored, ParserTypeOK
      <3>3. QED BY <2>4, <3>1, <3>2 DEF GetBufferIds
    <2>5. CASE FetchDetail(p)
      BY <1>t, <1>3, <2>5
      DEF FetchDetail, Goto, database, Stored, ParserTypeOK
    <2>6. CASE DeleteSkipped(p) \/ Pause(p)
      <3>1. PICK from : NextEvent(p, from, pending[p])
        BY <2>6 DEF DeleteSkipped, Pause
      <3>2. pending[p] \cap Stored' = {}
        BY <1>3, <2>6 DEF DeleteSkipped, Pause, database, Stored
      <3>3. QED BY <1>t, <2>3, <3>1, <3>2
    <2>7. CASE InsertEventFails(p)
      <3>1. NextEvent(p, "insert_event", pending[p])
        BY <2>7 DEF InsertEventFails
      <3>2. Stored' \subseteq Stored \cup {event_id[p]}
        BY <1>t, StoredAfter DEF Stored
      <3>3. event_id[p] \notin pending[p]
        BY <1>t, <3>1 DEF RunInv, NextEvent, Goto
      <3>4. QED BY <1>t, <1>3, <2>3, <3>1, <3>2, <3>3
    <2>8. CASE InsertEvent(p)
      <3>1. Stored' \subseteq Stored \cup {event_id[p]}
        BY <1>t, StoredAfter DEF Stored
      <3>2. event_id[p] \notin pending[p] /\ pending'[p] = pending[p]
            /\ parser_pc'[p] = "delete_stored"
        BY <1>t, <2>8 DEF InsertEvent, RunInv, Goto, ParserTypeOK
      <3>3. QED BY <1>3, <3>1, <3>2
    <2>9. CASE DeleteStored(p)
      BY <1>t, <1>3, <2>9 DEF DeleteStored, Goto, Stored, ParserTypeOK
    <2>10. CASE Finish(p) \/ Die(p)
      BY <1>t, <2>10 DEF Finish, Die, Goto, Forget, ParserTypeOK
    <2>11. QED
      BY <2>1, <2>2, <2>4, <2>5, <2>6, <2>7, <2>8, <2>9, <2>10 DEF RunStep
  <1>6. \A q \in Parser : Good(q)'
    BY <1>4, <1>5
  <1>7. QED BY <1>1, <1>6 DEF Cleaned, NoRefetch

LEMMA StepKeepsDedupInv ==
  ASSUME DedupInv, ~LateInserts, [Next]_vars
  PROVE  DedupInv'
  <1>t. SafeInv /\ TypeInv /\ DatabaseTypeOK
    BY DEF DedupInv, SafeInv, TypeInv, ParserTypeOK
  <1>1. SafeInv'
    BY <1>t, StepKeepsTypeInv, StepKeepsOneRun, StepKeepsRunInv DEF SafeInv
  <1>2. ASSUME NEW p \in Parser, CronStarts(p) \/ RunStep(p) \/ Die(p)
        PROVE  DedupInv'
    BY <1>1, <1>2, RunKeepsDedup DEF DedupInv
  <1>3. ~LateInsertLands
    BY DEF DedupInv, LateInsertLands
  <1>4. CASE Others
    <2>1. Stored' = Stored /\ parser_buffer' = parser_buffer
      BY <1>t, <1>4, MarkFacts, ApproveFacts DEF Others
    <2>2. QED
      BY <1>1, <1>4, <2>1
      DEF Others, parserVars, DedupInv, Cleaned, NoRefetch
  <1>5. CASE UNCHANGED vars
    BY <1>1, <1>5
    DEF vars, database, parserVars, DedupInv, Cleaned, NoRefetch, Stored
  <1>6. QED BY <1>2, <1>3, <1>4, <1>5 DEF Next, ParserStep

(* No run fetches or inserts an event that is stored already: the buffer    *)
(* and the lock together are a complete deduplication.                      *)
THEOREM NoEventIsRefetched ==
  ASSUME ~LateInserts PROVE Spec => []NoRefetch
  <1>1. DedupInv /\ [Next]_vars => DedupInv'
    BY StepKeepsDedupInv
  <1>2. QED BY InitDedupInv, <1>1, PTL DEF Spec, DedupInv

(* A row no operator has released carries the verdict of the very content   *)
(* it holds.                                                                *)
THEOREM VerdictsStand ==
  ASSUME ~LateInserts PROVE Spec => []VerdictStands
  <1>1. Init => VerdictStands
    BY DEF Init, DatabaseInit, VerdictStands, Stored
  <1>2. ASSUME DedupInv, VerdictStands, [Next]_vars PROVE VerdictStands'
    <2>t. TypeInv /\ DatabaseTypeOK
      BY <1>2 DEF DedupInv, SafeInv, TypeInv, ParserTypeOK
    <2>1. ASSUME NEW p \in Parser, CronStarts(p) \/ RunStep(p) \/ Die(p)
          PROVE  VerdictStands'
      <3>1. UNCHANGED approved
        BY <2>1
        DEF CronStarts, RunStep, Die, LockAcquired, LockRefused, Connect,
            FetchIds, InsertBuffer, DropKnown, GetBufferIds, FetchDetail,
            DeleteSkipped, InsertEvent, InsertEventFails, DeleteStored, Pause,
            Finish, database
      <3>2. CASE UNCHANGED ctf_events
        BY <1>2, <3>1, <3>2 DEF VerdictStands, Stored
      <3>3. CASE ~UNCHANGED ctf_events
        <4>1. /\ parser_pc[p] = "insert_event"
              /\ event_id[p] \in Id /\ event[p] \in Content
              /\ ctf_events' = UpsertEvent(event_id[p], event[p])
          BY <2>t, <2>1, <3>3, StoredAfter
        <4>2. event_id[p] \notin Stored
          BY <1>2, <4>1 DEF DedupInv, NoRefetch
        <4>3. /\ Stored' = Stored \cup {event_id[p]}
              /\ ctf_events'[event_id[p]].content = event[p]
              /\ ctf_events'[event_id[p]].is_safe = (event[p] \in SafeContent)
              /\ \A other \in Id \ {event_id[p]} :
                    ctf_events'[other] = ctf_events[other]
          BY <2>t, <4>1, <4>2, UpsertFacts
        <4>4. ASSUME NEW id \in Stored' \ approved'
              PROVE  ctf_events'[id].is_safe
                        = (ctf_events'[id].content \in SafeContent)
          <5>1. CASE id = event_id[p]
            BY <4>3, <5>1
          <5>2. CASE id # event_id[p]
            BY <1>2, <3>1, <4>3, <4>4, <5>2 DEF VerdictStands, Stored
          <5>3. QED BY <5>1, <5>2
        <4>5. QED BY <4>4 DEF VerdictStands
      <3>4. QED BY <3>2, <3>3
    <2>2. ~LateInsertLands
      BY <1>2 DEF DedupInv, LateInsertLands
    <2>3. CASE Others
      <3>1. PICK id \in Id :
              \/ OperatorApproves(id)
              \/ /\ ctf_events' = MarkAsPosted(id)
                 /\ UNCHANGED <<parser_buffer, approved>>
        BY <2>3 DEF Others
      <3>2. CASE OperatorApproves(id)
        BY <1>2, <2>t, <3>2, ApproveFacts DEF VerdictStands, Stored
      <3>3. CASE ctf_events' = MarkAsPosted(id) /\ UNCHANGED approved
        BY <1>2, <2>t, <3>3, MarkFacts DEF VerdictStands
      <3>4. QED BY <3>1, <3>2, <3>3
    <2>4. CASE UNCHANGED vars
      BY <1>2, <2>4 DEF vars, database, VerdictStands, Stored
    <2>5. QED BY <1>2, <2>1, <2>2, <2>3, <2>4 DEF Next, ParserStep
  <1>3. DedupInv /\ [Next]_vars => DedupInv'
    BY StepKeepsDedupInv
  <1>4. QED BY InitDedupInv, <1>1, <1>2, <1>3, PTL DEF Spec
=============================================================================
