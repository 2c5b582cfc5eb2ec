------------------------------ MODULE Database ------------------------------
(***************************************************************************)
(* The two tables the binaries share (schema.sql) and the statements of    *)
(* db.c on them.  Every db_* function runs one autocommitted statement, so *)
(* a statement is one atomic step; what the caller learns about it is an   *)
(* Outcome.  The columns the program's decisions depend on are kept:       *)
(* `content` stands for title, url, dates, ... as one value.               *)
(***************************************************************************)
EXTENDS Integers

CONSTANTS Id,           \* CTFTime event ids
          Content,      \* details an event may be served with
          SafeContent,  \* those content_security_sanitize() calls safe
          NoRow,        \* no row under that primary key
          LateInserts   \* may an INSERT abandoned by its client still be
                        \* executed after that client is gone?

(* An id that wrapped around to 0 may get as far as parser_buffer. *)
BufferId == Id \cup {0}

ASSUME IdAssumption == Id \subseteq Nat \ {0}
ASSUME ContentAssumption == SafeContent \subseteq Content
ASSUME LateInsertsAssumption == LateInserts \in BOOLEAN

Row == [content : Content, is_safe : BOOLEAN, posted_at : BOOLEAN]

ASSUME NoRowAssumption == NoRow \notin Row

VARIABLES parser_buffer,  \* table parser_buffer: a set of event ids
          ctf_events,     \* table ctf_events: primary key -> row or NoRow
          approved        \* history: ids an operator has reviewed and released

database == <<parser_buffer, ctf_events, approved>>

DatabaseTypeOK ==
    /\ parser_buffer \subseteq BufferId
    /\ ctf_events \in [Id -> Row \cup {NoRow}]
    /\ approved \subseteq Id

DatabaseInit ==
    /\ parser_buffer = {}
    /\ ctf_events = [id \in Id |-> NoRow]
    /\ approved = {}

Stored == {id \in Id : ctf_events[id] # NoRow}

(* "ok": executed and reported so.  "failed": not executed.  "lost":        *)
(* executed, but the connection broke before the reply, which the client    *)
(* library reports as an error.                                             *)
Outcome == {"ok", "failed", "lost"}
Executed(outcome) == outcome # "failed"
-----------------------------------------------------------------------------
(* db_insert_buffer: INSERT IGNORE of the whole batch. *)
InsertIgnore(ids) == parser_buffer \cup ids

(* db_clean_buffer: DELETE ... WHERE event_id IN (SELECT id FROM ctf_events). *)
CleanBuffer == parser_buffer \ Stored

(* db_delete_from_buffer *)
DeleteFromBuffer(id) == parser_buffer \ {id}

ReplaceEvent(id, content) ==                      \* REPLACE INTO
    [ctf_events EXCEPT ![id] =
        [content |-> content, is_safe |-> content \in SafeContent,
         posted_at |-> FALSE]]

(* db_insert_event: a new row takes the verdict of its content and the      *)
(* column default posted_at = NULL; ON DUPLICATE KEY UPDATE rewrites the    *)
(* content columns and leaves is_safe and posted_at as they are.            *)
UpsertEvent(id, content) ==
    [ctf_events EXCEPT ![id] =
        IF @ = NoRow
        THEN [content |-> content, is_safe |-> content \in SafeContent,
              posted_at |-> FALSE]
        ELSE [@ EXCEPT !.content = content]]

(* db_mark_as_posted: UPDATE ... WHERE id = ?, no effect without the row. *)
MarkAsPosted(id) ==
    [ctf_events EXCEPT ![id] =
        IF @ = NoRow THEN @ ELSE [@ EXCEPT !.posted_at = TRUE]]

EventSwapped(id) == [id |-> ctf_events[id].content, content |-> id]

(* row_to_event on each row a SELECT returns. *)
Event(id) == [id |-> id, content |-> ctf_events[id].content]
Events(ids) == {Event(id) : id \in ids}

UnpublishedUnsafe ==                              \* without is_safe = 1
    Events({id \in Stored : ~ctf_events[id].posted_at})

(* db_get_unpublished_events *)
Unpublished ==
    Events({id \in Stored : ctf_events[id].is_safe /\ ~ctf_events[id].posted_at})

(* db_get_upcoming_events: start times are abstracted, `window` is the set  *)
(* of ids whose start falls in the next 14 days of the server's clock.      *)
Upcoming(window) ==
    Events({id \in Stored \cap window : ctf_events[id].is_safe})
-----------------------------------------------------------------------------
(* Manual review (README, Database Schema): the operator sets is_safe = 1. *)
OperatorApproves(id) ==
    /\ id \in Stored
    /\ ~ctf_events[id].is_safe
    /\ ctf_events' = [ctf_events EXCEPT ![id].is_safe = TRUE]
    /\ approved' = approved \cup {id}
    /\ UNCHANGED parser_buffer

(* Until an operator releases it, a row carries the verdict of the content  *)
(* it holds now (README: "Unsafe events are stored with is_safe=0").        *)
VerdictStands ==
    \A id \in Stored \ approved :
        ctf_events[id].is_safe = (ctf_events[id].content \in SafeContent)
=============================================================================
