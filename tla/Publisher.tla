------------------------------ MODULE Publisher ------------------------------
(***************************************************************************)
(* publisher_main.c: the runs of the publisher binary that cron starts     *)
(* daily, one per process, over the rows of ctf_events and the Telegram    *)
(* topic.  A run works on a snapshot of the rows; while it does, the parser *)
(* stores new rows and the operator releases withheld ones.                *)
(***************************************************************************)
EXTENDS Database

CONSTANTS Publisher,           \* processes of the publisher binary
          NoPublisher,         \* nobody, as holder of the publisher's lock
          NoMessage,           \* no message being sent
          MaxPublisherFaults   \* bound: failed calls and deaths in a behaviour

ASSUME PublisherAssumption ==
    /\ NoPublisher \notin Publisher
    /\ NoMessage \notin [id : Id, content : Content]
    /\ MaxPublisherFaults \in Nat

VARIABLES publisher_pc,      \* process -> the call it makes next
          publisher_lock,    \* the holder of /tmp/ctftimepublisher.lock
          events,            \* process -> what is left of its snapshot
          sending,           \* process -> the event events[i] it is sending
          feed,              \* history: events shown in the topic
          delivered,         \* history: id -> messages of its own in the topic
          unrecorded,        \* history: id -> those posted_at was not set for
          alarmed,           \* history: ids logged "it WILL be re-sent"
          publisher_faults   \* history: faults so far

publisherVars == <<publisher_pc, publisher_lock, events, sending, feed,
                   delivered, unrecorded, alarmed, publisher_faults>>
vars == <<database, publisherVars>>

Lock == INSTANCE Mutex
    WITH Proc <- Publisher, None <- NoPublisher, holder <- publisher_lock

PublisherPC == {"idle", "lock", "connect", "weekday", "get_upcoming",
                "send_part", "get_unpublished", "send", "mark_as_posted",
                "close"}

Message == [id : Id, content : Content]

PublisherTypeOK ==
    /\ DatabaseTypeOK
    /\ publisher_pc \in [Publisher -> PublisherPC]
    /\ publisher_lock \in Publisher \cup {NoPublisher}
    /\ events \in [Publisher -> SUBSET Message]
    /\ sending \in [Publisher -> Message \cup {NoMessage}]
    /\ feed \subseteq Message
    /\ delivered \in [Id -> Nat]
    /\ unrecorded \in [Id -> Nat]
    /\ alarmed \subseteq Id
    /\ publisher_faults \in 0..MaxPublisherFaults

PublisherOnlyInit ==
    /\ publisher_pc = [p \in Publisher |-> "idle"]
    /\ publisher_lock = NoPublisher
    /\ events = [p \in Publisher |-> {}]
    /\ sending = [p \in Publisher |-> NoMessage]
    /\ feed = {}
    /\ delivered = [id \in Id |-> 0]
    /\ unrecorded = [id \in Id |-> 0]
    /\ alarmed = {}
    /\ publisher_faults = 0

Init == DatabaseInit /\ PublisherOnlyInit
-----------------------------------------------------------------------------
Goto(p, from, to) ==
    /\ publisher_pc[p] = from
    /\ publisher_pc' = [publisher_pc EXCEPT ![p] = to]

(* A call that succeeds costs nothing, one that does not spends the bound. *)
Spend(faulty) ==
    /\ faulty => publisher_faults < MaxPublisherFaults
    /\ publisher_faults' = IF faulty THEN publisher_faults + 1
                                     ELSE publisher_faults

Increment(counter, id) == [counter EXCEPT ![id] = @ + 1]

unchangedRun == <<events, sending>>
unchangedHistory == <<feed, delivered, unrecorded, alarmed>>

(* Everything main() holds, gone with the process. *)
Forget(p) ==
    /\ events' = [events EXCEPT ![p] = {}]
    /\ sending' = [sending EXCEPT ![p] = NoMessage]

(* cron starts the binary; config_load() fails or the run begins. *)
CronStarts(p) ==
    /\ Goto(p, "idle", "lock")
    /\ UNCHANGED <<database, publisher_lock, publisher_faults, unchangedRun,
                   unchangedHistory>>

LockIgnored(p) ==                                 \* runs in any case
    /\ Goto(p, "lock", "connect")
    /\ publisher_lock' = p
    /\ UNCHANGED <<database, publisher_faults, unchangedRun, unchangedHistory>>

(* lock_acquire() returns 1 ... *)
LockAcquired(p) ==
    /\ Goto(p, "lock", "connect")
    /\ Lock!Acquire(p)
    /\ UNCHANGED <<database, publisher_faults, unchangedRun, unchangedHistory>>

(* ... or 0, or -1, and main() returns. *)
LockRefused(p) ==
    /\ Goto(p, "lock", "idle")
    /\ Spend(publisher_lock = NoPublisher)
    /\ UNCHANGED <<database, publisher_lock, unchangedRun, unchangedHistory>>

(* db_connect() *)
Connect(p) ==
    /\ \/ Goto(p, "connect", "weekday") /\ Spend(FALSE)
       \/ Goto(p, "connect", "close") /\ Spend(TRUE)
    /\ UNCHANGED <<database, publisher_lock, unchangedRun, unchangedHistory>>

MondayAgain(p) ==                                 \* every day a Monday
    /\ Goto(p, "weekday", "get_upcoming")
    /\ UNCHANGED <<database, publisher_lock, publisher_faults, unchangedRun,
                   unchangedHistory>>

(* localtime_r(): the day of the week decides which of the two jobs to do. *)
IsMonday(p) ==
    /\ Goto(p, "weekday", "get_upcoming")
    /\ UNCHANGED <<database, publisher_lock, publisher_faults, unchangedRun,
                   unchangedHistory>>

IsNotMonday(p) ==
    /\ Goto(p, "weekday", "get_unpublished")
    /\ UNCHANGED <<database, publisher_lock, publisher_faults, unchangedRun,
                   unchangedHistory>>
-----------------------------------------------------------------------------
(* Monday: db_get_upcoming_events(14), then formatter_digest(). *)
GetUpcoming(p) ==
    /\ \/ \E window \in SUBSET Id :
            /\ events' = [events EXCEPT ![p] = Upcoming(window)]
            /\ Goto(p, "get_upcoming",
                    IF Upcoming(window) = {} THEN "close" ELSE "send_part")
            /\ Spend(FALSE)
       \/ /\ Goto(p, "get_upcoming", "close")
          /\ Spend(TRUE)
          /\ UNCHANGED events
    /\ UNCHANGED <<database, publisher_lock, sending, unchangedHistory>>

(* One part of the digest, any nonempty share of the events left; a part    *)
(* that fails is only logged, and posted_at is not touched.                 *)
SendPart(p) ==
    /\ \E part \in SUBSET events[p] \ {{}}, outcome \in Outcome :
        /\ events' = [events EXCEPT ![p] = @ \ part]
        /\ feed' = IF Executed(outcome) THEN feed \cup part ELSE feed
        /\ Goto(p, "send_part", IF part = events[p] THEN "close" ELSE "send_part")
        /\ Spend(outcome # "ok")
    /\ UNCHANGED <<database, publisher_lock, sending, delivered, unrecorded,
                   alarmed>>
-----------------------------------------------------------------------------
(* The head of the daily loop, with `left` the events it has still to send  *)
(* (ORDER BY start_time: any order of ids), or the loop is over.            *)
NextMessage(p, from, left) ==
    IF left = {}
    THEN /\ Goto(p, from, "close")
         /\ events' = [events EXCEPT ![p] = {}]
         /\ sending' = [sending EXCEPT ![p] = NoMessage]
    ELSE \E message \in left :
         /\ Goto(p, from, "send")
         /\ events' = [events EXCEPT ![p] = left \ {message}]
         /\ sending' = [sending EXCEPT ![p] = message]

(* Tuesday to Sunday: db_get_unpublished_events(). *)
GetUnpublished(p) ==
    /\ \/ NextMessage(p, "get_unpublished", Unpublished) /\ Spend(FALSE)
       \/ /\ Goto(p, "get_unpublished", "close")
          /\ Spend(TRUE)
          /\ UNCHANGED unchangedRun
    /\ UNCHANGED <<database, publisher_lock, unchangedHistory>>

(* The message is in the topic. *)
Deliver(message) ==
    /\ feed' = feed \cup {message}
    /\ delivered' = Increment(delivered, message.id)

(* telegram_send_message() returns 1. *)
Send(p) ==
    /\ Goto(p, "send", "mark_as_posted")
    /\ Deliver(sending[p])
    /\ UNCHANGED <<database, publisher_lock, events, sending, unrecorded,
                   alarmed, publisher_faults>>

SendFailsMarked(p) ==                             \* its result ignored
    /\ Goto(p, "send", "mark_as_posted")
    /\ Spend(TRUE)
    /\ UNCHANGED <<database, publisher_lock, events, sending, feed, delivered,
                   unrecorded, alarmed>>

(* It returns 0, "will retry on next run"; the message may be in the topic  *)
(* all the same, when the reply to the request was lost.                    *)
SendFails(p) ==
    /\ NextMessage(p, "send", events[p])
    /\ \/ UNCHANGED <<feed, delivered, unrecorded>>
       \/ /\ Deliver(sending[p])
          /\ unrecorded' = Increment(unrecorded, sending[p].id)
    /\ Spend(TRUE)
    /\ UNCHANGED <<database, publisher_lock, alarmed>>

MarkDeletes(p) ==                                 \* DELETE, not UPDATE
    /\ NextMessage(p, "mark_as_posted", events[p])
    /\ ctf_events' = [ctf_events EXCEPT ![sending[p].id] = NoRow]
    /\ UNCHANGED <<parser_buffer, approved, publisher_lock, feed, delivered,
                   unrecorded, alarmed, publisher_faults>>

(* db_mark_as_posted(); when it fails the event "WILL be re-sent".  The     *)
(* pause sleep_between_messages follows.                                    *)
Mark(p) ==
    LET id == sending[p].id IN
    /\ NextMessage(p, "mark_as_posted", events[p])
    /\ \E outcome \in Outcome :
        /\ ctf_events' = IF Executed(outcome) THEN MarkAsPosted(id) ELSE ctf_events
        /\ unrecorded' = IF Executed(outcome) THEN unrecorded
                                              ELSE Increment(unrecorded, id)
        /\ alarmed' = IF outcome = "ok" THEN alarmed ELSE alarmed \cup {id}
        /\ Spend(outcome # "ok")
    /\ UNCHANGED <<parser_buffer, approved, publisher_lock, feed, delivered>>
-----------------------------------------------------------------------------
(* db_close(), lock_release(), return. *)
Finish(p) ==
    /\ Goto(p, "close", "idle")
    /\ Lock!Release(p)
    /\ Forget(p)
    /\ UNCHANGED <<database, publisher_faults, unchangedHistory>>

(* The process dies between two calls; the kernel releases its lock. *)
Die(p) ==
    /\ publisher_pc[p] # "idle"
    /\ Spend(TRUE)
    /\ publisher_pc' = [publisher_pc EXCEPT ![p] = "idle"]
    /\ publisher_lock' = IF publisher_lock = p THEN NoPublisher
                                               ELSE publisher_lock
    /\ unrecorded' = IF publisher_pc[p] = "mark_as_posted"
                     THEN Increment(unrecorded, sending[p].id) ELSE unrecorded
    /\ Forget(p)
    /\ UNCHANGED <<database, feed, delivered, alarmed>>

RunStep(p) ==
    \/ LockAcquired(p) \/ LockRefused(p) \/ Connect(p)
    \/ IsMonday(p) \/ IsNotMonday(p)
    \/ GetUpcoming(p) \/ SendPart(p)
    \/ GetUnpublished(p) \/ Send(p) \/ SendFails(p) \/ Mark(p)
    \/ Finish(p)

PublisherStep == \E p \in Publisher : CronStarts(p) \/ RunStep(p) \/ Die(p)

(* What the rest of the system does to ctf_events meanwhile: the parser      *)
(* stores events that are not there yet (with late INSERTs, any event).     *)
Others ==
    /\ \E id \in Id :
        \/ OperatorApproves(id)
        \/ /\ id \in Stored => LateInserts
           /\ \E content \in Content : ctf_events' = UpsertEvent(id, content)
           /\ UNCHANGED <<parser_buffer, approved>>
    /\ UNCHANGED publisherVars

Next == PublisherStep \/ Others

Spec == Init /\ [][Next]_vars

(* cron starts a run every day, a run goes on, and not every day is Monday. *)
LiveSpec ==
    /\ Spec
    /\ \A p \in Publisher : /\ WF_vars(CronStarts(p)) /\ WF_vars(RunStep(p))
                            /\ SF_vars(IsNotMonday(p))
-----------------------------------------------------------------------------
Running == {p \in Publisher : publisher_pc[p] \notin {"idle", "lock"}}

(* Everything the topic has shown, in a digest or in a message of its own,  *)
(* was content that passed the checks or that an operator had released      *)
(* (README: events with is_safe = 0 are "not published until manually       *)
(* reviewed"): although a run sends from a snapshot and the parser and the  *)
(* operator write the rows meanwhile.                                      *)
Withheld ==
    \A message \in feed :
        message.content \in SafeContent \/ message.id \in approved

InMark(id) == \E p \in Publisher :
    publisher_pc[p] = "mark_as_posted" /\ sending[p].id = id

(* Every message of its own an event got is accounted for: it is recorded   *)
(* in posted_at, or about to be, or a named failure kept it from being      *)
(* recorded.  So posted_at is never set without a message, and an event is  *)
(* sent again only after such a failure, even when runs overlap.            *)
Ledger ==
    \A id \in Id :
        delivered[id] =
            unrecorded[id]
            + (IF id \in Stored /\ ctf_events[id].posted_at THEN 1 ELSE 0)
            + (IF InMark(id) THEN 1 ELSE 0)

(* Every safe event is in the end published and recorded so ("Failures are  *)
(* left unpublished and retried next run").                                *)
SafeEventsGetPosted ==
    \A id \in Id :
        id \in Stored /\ ctf_events[id].is_safe
            ~> id \in Stored /\ ctf_events[id].posted_at

(* The comment on a failed db_mark_as_posted(): "this is the one failure    *)
(* mode that silently produces a duplicate notification", which is why it   *)
(* is logged loudly: no duplicate without that line in the log.             *)
DuplicatesAreLogged == \A id \in Id : delivered[id] > 1 => id \in alarmed
=============================================================================
