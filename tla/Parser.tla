------------------------------- MODULE Parser -------------------------------
(***************************************************************************)
(* parser_main.c: the runs of the parser binary that cron starts, one per  *)
(* process, over the tables of Database.  Between two statements of one    *)
(* run anything else may happen: another run tries to start, a connection  *)
(* breaks, the process dies, the publisher and the operator write rows.    *)
(***************************************************************************)
EXTENDS Database

CONSTANTS Parser,           \* processes of the parser binary
          NoParser,         \* nobody, as holder of the parser's lock
          NoEvent,          \* no detail fetched
          RawId,            \* integers the API may send as an id
          UIntRange,        \* 2^32: ids are kept as unsigned int
          Refused,          \* details that a column of ctf_events refuses
          MaxParserFaults   \* bound: failed calls and deaths in a behaviour

ASSUME ParserAssumption ==
    /\ NoParser \notin Parser
    /\ NoEvent \notin Content
    /\ RawId \subseteq Int
    /\ Refused \subseteq Content
    /\ UIntRange \in Nat \ {0}
    /\ Id = 1..(UIntRange - 1)
    /\ MaxParserFaults \in Nat

VARIABLES parser_pc,      \* process -> the call it makes next
          parser_lock,    \* the holder of /tmp/ctftimeparser.lock
          ids,            \* process -> ids the API listed
          pending,        \* process -> buffer snapshot, what the loop has left
          event_id,       \* process -> pending[i] (0 outside the loop)
          event,          \* process -> the sanitized detail `ev`, or NoEvent
          late,           \* INSERTs of ctf_events still under way in the
                          \* server though their client gave them up
          rested,         \* history: no detail request since the last pause
          parser_faults   \* history: faults so far

parserVars == <<parser_pc, parser_lock, ids, pending, event_id, event, late,
                rested, parser_faults>>
vars == <<database, parserVars>>

Lock == INSTANCE Mutex
    WITH Proc <- Parser, None <- NoParser, holder <- parser_lock

ParserPC == {"idle", "lock", "connect", "fetch_ids", "insert_buffer",
             "clean_buffer", "get_buffer_ids", "fetch_detail",
             "delete_skipped", "insert_event", "delete_stored", "pause",
             "close"}

Insert == [id : Id, content : Content]

ParserTypeOK ==
    /\ DatabaseTypeOK
    /\ parser_pc \in [Parser -> ParserPC]
    /\ parser_lock \in Parser \cup {NoParser}
    /\ ids \in [Parser -> SUBSET BufferId]
    /\ pending \in [Parser -> SUBSET BufferId]
    /\ event_id \in [Parser -> BufferId]
    /\ event \in [Parser -> Content \cup {NoEvent}]
    /\ late \subseteq Insert
    /\ rested \in [Parser -> BOOLEAN]
    /\ parser_faults \in 0..MaxParserFaults

ParserOnlyInit ==
    /\ parser_pc = [p \in Parser |-> "idle"]
    /\ parser_lock = NoParser
    /\ ids = [p \in Parser |-> {}]
    /\ pending = [p \in Parser |-> {}]
    /\ event_id = [p \in Parser |-> 0]
    /\ event = [p \in Parser |-> NoEvent]
    /\ late = {}
    /\ rested = [p \in Parser |-> TRUE]
    /\ parser_faults = 0

Init == DatabaseInit /\ ParserOnlyInit
-----------------------------------------------------------------------------
Goto(p, from, to) ==
    /\ parser_pc[p] = from
    /\ parser_pc' = [parser_pc EXCEPT ![p] = to]

(* A call that succeeds costs nothing, one that does not spends the bound. *)
Spend(faulty) ==
    /\ faulty => parser_faults < MaxParserFaults
    /\ parser_faults' = IF faulty THEN parser_faults + 1 ELSE parser_faults

unchangedRun == <<ids, pending, event_id, event, late, rested>>

(* Everything main() holds, gone with the process. *)
Forget(p) ==
    /\ ids' = [ids EXCEPT ![p] = {}]
    /\ pending' = [pending EXCEPT ![p] = {}]
    /\ event_id' = [event_id EXCEPT ![p] = 0]
    /\ event' = [event EXCEPT ![p] = NoEvent]
    /\ rested' = [rested EXCEPT ![p] = TRUE]

(* cron starts the binary; config_load() fails or the run begins. *)
CronStarts(p) ==
    /\ Goto(p, "idle", "lock")
    /\ UNCHANGED <<database, parser_lock, parser_faults, unchangedRun>>

LockIgnored(p) ==                                 \* runs in any case
    /\ Goto(p, "lock", "connect")
    /\ parser_lock' = p
    /\ UNCHANGED <<database, parser_faults, unchangedRun>>

(* lock_acquire() returns 1 ... *)
LockAcquired(p) ==
    /\ Goto(p, "lock", "connect")
    /\ Lock!Acquire(p)
    /\ UNCHANGED <<database, parser_faults, unchangedRun>>

(* ... or 0, or -1, and main() returns. *)
LockRefused(p) ==
    /\ Goto(p, "lock", "idle")
    /\ Spend(parser_lock = NoParser)
    /\ UNCHANGED <<database, parser_lock, unchangedRun>>

(* db_connect() *)
Connect(p) ==
    /\ \/ Goto(p, "connect", "fetch_ids") /\ Spend(FALSE)
       \/ Goto(p, "connect", "close") /\ Spend(TRUE)
    /\ UNCHANGED <<database, parser_lock, unchangedRun>>

Wide(id) == id                                    \* the cast forgotten

(* The cast (unsigned int) id of a long. *)
UInt(id) == id % UIntRange

(* ctftime_fetch_event_ids(): the positive ids of any response; an error or *)
(* an empty list is only logged, and step 2 follows.                        *)
FetchIds(p) ==
    /\ \E response \in SUBSET RawId :
        LET listed == {UInt(id) : id \in {raw \in response : raw > 0}} IN
        /\ ids' = [ids EXCEPT ![p] = listed]
        /\ Goto(p, "fetch_ids",
                IF listed = {} THEN "clean_buffer" ELSE "insert_buffer")
    /\ UNCHANGED <<database, parser_lock, pending, event_id, event, late,
                   rested, parser_faults>>

(* Step 1: db_insert_buffer(), then id_list_free(). *)
InsertBuffer(p) ==
    /\ \E outcome \in Outcome :
        /\ parser_buffer' = IF Executed(outcome) THEN InsertIgnore(ids[p])
                                                 ELSE parser_buffer
        /\ Goto(p, "insert_buffer",
                IF outcome = "ok" THEN "clean_buffer" ELSE "close")
        /\ Spend(outcome # "ok")
    /\ ids' = [ids EXCEPT ![p] = {}]
    /\ UNCHANGED <<ctf_events, approved, parser_lock, pending, event_id, event,
                   late, rested>>

CleanBufferUnchecked(p) ==                        \* its result ignored
    /\ \E outcome \in Outcome :
        /\ parser_buffer' = IF Executed(outcome) THEN CleanBuffer
                                                 ELSE parser_buffer
        /\ Spend(outcome # "ok")
    /\ Goto(p, "clean_buffer", "get_buffer_ids")
    /\ UNCHANGED <<ctf_events, approved, parser_lock, unchangedRun>>

(* Step 2: db_clean_buffer(); an error ends the run. *)
DropKnown(p) ==
    /\ \E outcome \in Outcome :
        /\ parser_buffer' = IF Executed(outcome) THEN CleanBuffer
                                                 ELSE parser_buffer
        /\ Goto(p, "clean_buffer",
                IF outcome = "ok" THEN "get_buffer_ids" ELSE "close")
        /\ Spend(outcome # "ok")
    /\ UNCHANGED <<ctf_events, approved, parser_lock, unchangedRun>>
-----------------------------------------------------------------------------
NextEventAgain(p, from, left) ==                  \* i is not advanced
    IF left = {}
    THEN /\ Goto(p, from, "close")
         /\ pending' = [pending EXCEPT ![p] = {}]
         /\ event_id' = [event_id EXCEPT ![p] = 0]
    ELSE \E id \in left :
         /\ \A other \in left : id <= other
         /\ Goto(p, from, "fetch_detail")
         /\ pending' = [pending EXCEPT ![p] = left]
         /\ event_id' = [event_id EXCEPT ![p] = id]

(* Step 3.  The head of the loop, with `left` the ids it has still to       *)
(* process: the smallest one next (ORDER BY event_id), or the loop is over. *)
NextEvent(p, from, left) ==
    IF left = {}
    THEN /\ Goto(p, from, "close")
         /\ pending' = [pending EXCEPT ![p] = {}]
         /\ event_id' = [event_id EXCEPT ![p] = 0]
    ELSE \E id \in left :
         /\ \A other \in left : id <= other
         /\ Goto(p, from, "fetch_detail")
         /\ pending' = [pending EXCEPT ![p] = left \ {id}]
         /\ event_id' = [event_id EXCEPT ![p] = id]

(* db_get_buffer_ids() *)
GetBufferIds(p) ==
    /\ \/ NextEvent(p, "get_buffer_ids", parser_buffer) /\ Spend(FALSE)
       \/ /\ Goto(p, "get_buffer_ids", "close")
          /\ Spend(TRUE)
          /\ UNCHANGED <<pending, event_id>>
    /\ UNCHANGED <<database, parser_lock, ids, event, late, rested>>

(* ctftime_fetch_event_detail() and content_security_sanitize(): a detail,  *)
(* or none (id 0, for which nothing is requested; the request failed; or    *)
(* data that is not an event).                                              *)
FetchDetail(p) ==
    /\ \/ \E content \in Content :
            /\ event_id[p] # 0
            /\ Goto(p, "fetch_detail", "insert_event")
            /\ event' = [event EXCEPT ![p] = content]
       \/ /\ Goto(p, "fetch_detail", "delete_skipped")
          /\ UNCHANGED event
    /\ rested' = IF event_id[p] = 0 THEN rested ELSE [rested EXCEPT ![p] = FALSE]
    /\ UNCHANGED <<database, parser_lock, ids, pending, event_id, late,
                   parser_faults>>

SkippedLeftInBuffer(p) ==                         \* no delete before continue
    /\ NextEvent(p, "delete_skipped", pending[p])
    /\ UNCHANGED <<database, parser_lock, ids, event, late, rested,
                   parser_faults>>

(* "Removing from buffer": db_delete_from_buffer(), result ignored.         *)
DeleteSkipped(p) ==
    /\ \E outcome \in Outcome :
        /\ parser_buffer' = IF Executed(outcome) THEN DeleteFromBuffer(event_id[p])
                                                 ELSE parser_buffer
        /\ Spend(outcome # "ok")
    /\ NextEvent(p, "delete_skipped", pending[p])
    /\ UNCHANGED <<ctf_events, approved, parser_lock, ids, event, late, rested>>

(* db_insert_event() reports success. *)
InsertEvent(p) ==
    /\ event[p] \notin Refused
    /\ Goto(p, "insert_event", "delete_stored")
    /\ ctf_events' = UpsertEvent(event_id[p], event[p])
    /\ event' = [event EXCEPT ![p] = NoEvent]
    /\ UNCHANGED <<parser_buffer, approved, parser_lock, ids, pending, event_id,
                   late, rested, parser_faults>>

InsertFailsDeletes(p) ==                          \* falls through
    /\ Goto(p, "insert_event", "delete_stored")
    /\ Spend(event[p] \notin Refused)
    /\ event' = [event EXCEPT ![p] = NoEvent]
    /\ UNCHANGED <<database, parser_lock, ids, pending, event_id, late, rested>>

(* It reports failure: "Left in buffer for retry".  When a column refuses   *)
(* the detail it does so every time.  When the connection or the server     *)
(* fails the row may be written all the same, at once or later.             *)
InsertEventFails(p) ==
    /\ NextEvent(p, "insert_event", pending[p])
    /\ \/ UNCHANGED <<ctf_events, late>>
       \/ /\ event[p] \notin Refused
          /\ ctf_events' = UpsertEvent(event_id[p], event[p])
          /\ UNCHANGED late
       \/ /\ event[p] \notin Refused
          /\ LateInserts
          /\ late' = late \cup {[id |-> event_id[p], content |-> event[p]]}
          /\ UNCHANGED ctf_events
    /\ Spend(event[p] \notin Refused)
    /\ event' = [event EXCEPT ![p] = NoEvent]
    /\ UNCHANGED <<parser_buffer, approved, parser_lock, ids, rested>>

(* db_delete_from_buffer(), result ignored, then the pause unless this was  *)
(* the last event.                                                         *)
DeleteStored(p) ==
    /\ \E outcome \in Outcome :
        /\ parser_buffer' = IF Executed(outcome) THEN DeleteFromBuffer(event_id[p])
                                                 ELSE parser_buffer
        /\ Spend(outcome # "ok")
    /\ Goto(p, "delete_stored", IF pending[p] = {} THEN "close" ELSE "pause")
    /\ event_id' = [event_id EXCEPT ![p] = 0]
    /\ UNCHANGED <<ctf_events, approved, parser_lock, ids, pending, event, late,
                   rested>>

(* sleep(sleep_between_requests), for the default configuration: it is > 0. *)
Pause(p) ==
    /\ NextEvent(p, "pause", pending[p])
    /\ rested' = [rested EXCEPT ![p] = TRUE]
    /\ UNCHANGED <<database, parser_lock, ids, event, late, parser_faults>>
-----------------------------------------------------------------------------
(* db_close(), lock_release(), return. *)
Finish(p) ==
    /\ Goto(p, "close", "idle")
    /\ Lock!Release(p)
    /\ Forget(p)
    /\ UNCHANGED <<database, late, parser_faults>>

(* The process dies between two calls; the kernel releases its lock. *)
Die(p) ==
    /\ parser_pc[p] # "idle"
    /\ Spend(TRUE)
    /\ parser_pc' = [parser_pc EXCEPT ![p] = "idle"]
    /\ parser_lock' = IF parser_lock = p THEN NoParser ELSE parser_lock
    /\ Forget(p)
    /\ UNCHANGED <<database, late>>

(* The server executes an INSERT whose client is gone.  (Of the statements  *)
(* only this one may land late here: see the README on the others.)         *)
LateInsertLands ==
    \E insert \in late :
        /\ ctf_events' = UpsertEvent(insert.id, insert.content)
        /\ late' = late \ {insert}
        /\ UNCHANGED <<parser_buffer, approved, parser_pc, parser_lock, ids,
                       pending, event_id, event, rested, parser_faults>>

RunStep(p) ==
    \/ LockAcquired(p) \/ LockRefused(p) \/ Connect(p)
    \/ FetchIds(p) \/ InsertBuffer(p) \/ DropKnown(p) \/ GetBufferIds(p)
    \/ FetchDetail(p) \/ DeleteSkipped(p)
    \/ InsertEvent(p) \/ InsertEventFails(p) \/ DeleteStored(p) \/ Pause(p)
    \/ Finish(p)

ParserStep ==
    \/ \E p \in Parser : CronStarts(p) \/ RunStep(p) \/ Die(p)
    \/ LateInsertLands

(* What the rest of the system does to the tables meanwhile. *)
Others ==
    /\ \E id \in Id :
        \/ OperatorApproves(id)
        \/ /\ ctf_events' = MarkAsPosted(id)
           /\ UNCHANGED <<parser_buffer, approved>>
    /\ UNCHANGED parserVars

Next == ParserStep \/ Others

Spec == Init /\ [][Next]_vars

(* cron starts a run again and again, and a run goes on: its calls return   *)
(* (curl has a timeout, MySQL is assumed to answer or to fail).             *)
LiveSpec ==
    /\ Spec
    /\ \A p \in Parser : WF_vars(CronStarts(p)) /\ WF_vars(RunStep(p))
-----------------------------------------------------------------------------
Running == {p \in Parser : parser_pc[p] \notin {"idle", "lock"}}

(* Overlapping cron runs: only the one that got the lock goes past it.      *)
OneRun == \A p \in Running : parser_lock = p

(* Deduplication before fetching details (README, Features): while a run    *)
(* works on its snapshot of the buffer, no event it has still to fetch or   *)
(* to insert is in ctf_events already.  Without late INSERTs only: it is    *)
(* what keeps the ON DUPLICATE KEY branch of db_insert_event() unused.      *)
NoRefetch ==
    \A p \in Parser :
        /\ pending[p] \cap Stored = {}
        /\ parser_pc[p] \in {"fetch_detail", "delete_skipped", "insert_event"}
              => event_id[p] \notin Stored

(* No event is lost between the tables: an id leaves parser_buffer when its *)
(* row is in ctf_events, or when the run that looked at it found no usable  *)
(* detail; never because a run died, was cut off or failed to insert.       *)
LeavesBufferForAReason ==
    [][\A id \in parser_buffer \ parser_buffer' :
          \/ id \in Stored
          \/ \E p \in Parser : /\ parser_pc[p] = "delete_skipped"
                               /\ event_id[p] = id]_vars

(* Whatever a run repeats, a published event stays published and a stored   *)
(* one stays stored: the parser never makes the publisher send it again.    *)
PostedStays ==
    [][\A id \in Stored :
          /\ ctf_events'[id] # NoRow
          /\ ctf_events[id].posted_at => ctf_events'[id].posted_at]_vars

(* Every run comes to its end: the loop over the snapshot terminates.       *)
RunEnds == \A p \in Parser : parser_pc[p] = "lock" ~> parser_pc[p] = "idle"

RefusedNow(id) == \E p \in Parser :
    /\ parser_pc[p] = "insert_event" /\ event_id[p] = id
    /\ event[p] \in Refused

(* "Left in buffer for retry": a buffered id leaves the buffer in the end,  *)
(* however the runs before failed, if failures do end.  The one other end   *)
(* is a detail that a column refuses: an id that never leaves is refused    *)
(* again in run after run, and nothing in the code stops that.              *)
BufferDrains ==
    \A id \in BufferId :
        id \in parser_buffer ~> id \notin parser_buffer \/ RefusedNow(id)

(* "Be polite to CTFTime: pause between requests, except after the last     *)
(* one" (the comment before the sleep; README: "Configurable pause between  *)
(* requests"): a detail request follows a pause or is the first of the run. *)
PausesBetweenRequests ==
    \A p \in Parser : parser_pc[p] = "fetch_detail" => rested[p]
=============================================================================
