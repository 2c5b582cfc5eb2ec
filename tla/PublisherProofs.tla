--------------------------- MODULE PublisherProofs ---------------------------
(***************************************************************************)
(* Proofs about Publisher for every set of processes, ids and contents and *)
(* every bound on the faults: type correctness, one run at a time, the     *)
(* ledger of the messages sent, and, when no INSERT outlives its client,   *)
(* that nothing withheld is published.                                     *)
(***************************************************************************)
EXTENDS Publisher, DatabaseProofs, TLAPS

(* What a run selects are messages with the details of rows that are safe.  *)
LEMMA SelectedRows ==
  ASSUME DatabaseTypeOK
  PROVE  /\ Unpublished \in SUBSET Message
         /\ \A window \in SUBSET Id : Upcoming(window) \in SUBSET Message
  <1>1. \A id \in Stored : Event(id) \in Message
    BY StoredRow DEF Event, Message
  <1>2. QED BY <1>1 DEF Unpublished, Upcoming, Events, Stored

(* The head of the loop moves the run on, and no other.                     *)
LEMMA NextMessageFacts ==
  ASSUME PublisherTypeOK, NEW p \in Publisher, NEW from,
         NEW left \in SUBSET Message, NextMessage(p, from, left)
  PROVE  /\ publisher_pc[p] = from
         /\ publisher_pc' \in [Publisher -> PublisherPC]
         /\ publisher_pc'[p] \in {"close", "send"}
         /\ events' \in [Publisher -> SUBSET Message]
         /\ sending' \in [Publisher -> Message \cup {NoMessage}]
         /\ publisher_pc'[p] = "close" =>
              events'[p] = {} /\ sending'[p] = NoMessage
         /\ publisher_pc'[p] = "send" =>
              /\ sending'[p] \in left
              /\ events'[p] = left \ {sending'[p]}
         /\ \A q \in Publisher \ {p} :
              /\ publisher_pc'[q] = publisher_pc[q]
              /\ events'[q] = events[q]
              /\ sending'[q] = sending[q]
  BY DEF PublisherTypeOK, NextMessage, Goto, PublisherPC

(* A run in send or in mark_as_posted has a message at hand.                *)
SendReady ==
    \A p \in Publisher :
        publisher_pc[p] \in {"send", "mark_as_posted"} => sending[p] \in Message

TypeInv == PublisherTypeOK /\ SendReady

LEMMA InitTypeInv == Init => TypeInv
  BY PublisherAssumption
  DEF Init, DatabaseInit, PublisherOnlyInit, TypeInv, PublisherTypeOK,
      DatabaseTypeOK, SendReady, PublisherPC, Lock!MutexInit

(* The steps before and after the two loops. *)
LEMMA FrameKeepsTypeInv ==
  ASSUME TypeInv, NEW p \in Publisher,
         \/ CronStarts(p) \/ LockAcquired(p) \/ LockRefused(p) \/ Connect(p)
         \/ IsMonday(p) \/ IsNotMonday(p) \/ Finish(p)
  PROVE  TypeInv'
  <1> USE DEF TypeInv, PublisherTypeOK, SendReady, PublisherPC, Goto, Spend,
              unchangedRun, unchangedHistory, database, DatabaseTypeOK, Stored
  <1>1. CASE CronStarts(p) \/ IsMonday(p) \/ IsNotMonday(p)
    BY <1>1 DEF CronStarts, IsMonday, IsNotMonday
  <1>2. CASE LockAcquired(p)
    BY <1>2 DEF LockAcquired, Lock!Acquire
  <1>3. CASE LockRefused(p)
    BY <1>3, PublisherAssumption DEF LockRefused
  <1>4. CASE Connect(p)
    BY <1>4, PublisherAssumption DEF Connect
  <1>5. CASE Finish(p)
    BY <1>5 DEF Finish, Forget, Lock!Release
  <1>6. QED BY <1>1, <1>2, <1>3, <1>4, <1>5

(* The weekly digest. *)
LEMMA DigestKeepsTypeInv ==
  ASSUME TypeInv, NEW p \in Publisher, GetUpcoming(p) \/ SendPart(p)
  PROVE  TypeInv'
  <1> USE DEF TypeInv, PublisherTypeOK, SendReady, PublisherPC, Goto, Spend,
              unchangedHistory, database
  <1>d. DatabaseTypeOK /\ (UNCHANGED database => DatabaseTypeOK')
    BY DEF DatabaseTypeOK
  <1>1. CASE GetUpcoming(p)
    <2>1. \A window \in SUBSET Id : Upcoming(window) \in SUBSET Message
      BY <1>d, SelectedRows
    <2>2. events' \in [Publisher -> SUBSET Message]
      BY <1>1, <2>1 DEF GetUpcoming
    <2>3. /\ publisher_pc' \in [Publisher -> PublisherPC]
          /\ publisher_pc'[p] \notin {"send", "mark_as_posted"}
          /\ \A q \in Publisher \ {p} : publisher_pc'[q] = publisher_pc[q]
          /\ publisher_faults' \in 0..MaxPublisherFaults
      BY <1>1, PublisherAssumption DEF GetUpcoming
    <2>4. QED BY <1>1, <1>d, <2>2, <2>3 DEF GetUpcoming
  <1>2. CASE SendPart(p)
    <2>1. PICK part \in SUBSET events[p] \ {{}}, outcome \in Outcome :
             /\ events' = [events EXCEPT ![p] = @ \ part]
             /\ feed' = IF Executed(outcome) THEN feed \cup part ELSE feed
             /\ Goto(p, "send_part",
                     IF part = events[p] THEN "close" ELSE "send_part")
             /\ Spend(outcome # "ok")
      BY <1>2 DEF SendPart
    <2>2. feed' \in SUBSET Message /\ events' \in [Publisher -> SUBSET Message]
      BY <2>1
    <2>3. /\ publisher_pc' \in [Publisher -> PublisherPC]
          /\ publisher_pc'[p] \notin {"send", "mark_as_posted"}
          /\ \A q \in Publisher \ {p} : publisher_pc'[q] = publisher_pc[q]
          /\ publisher_faults' \in 0..MaxPublisherFaults
      BY <2>1, PublisherAssumption
    <2>4. QED BY <1>2, <1>d, <2>2, <2>3 DEF SendPart
  <1>3. QED BY <1>1, <1>2

(* The daily messages: one more of a counter, and the next message or the   *)
(* end of the loop.                                                        *)
LEMMA IncrementFacts ==
  ASSUME NEW counter \in [Id -> Nat], NEW id \in Id
  PROVE  /\ Increment(counter, id) \in [Id -> Nat]
         /\ Increment(counter, id)[id] = counter[id] + 1
         /\ \A other \in Id \ {id} : Increment(counter, id)[other] = counter[other]
  BY DEF Increment

LEMMA SpendFacts ==
  ASSUME PublisherTypeOK, NEW faulty \in BOOLEAN, Spend(faulty)
  PROVE  publisher_faults' \in 0..MaxPublisherFaults
  BY PublisherAssumption DEF PublisherTypeOK, Spend

LEMMA NextMessageKeepsSendReady ==
  ASSUME TypeInv, NEW p \in Publisher, NEW from, NEW left \in SUBSET Message,
         NextMessage(p, from, left)
  PROVE  SendReady'
  <1>1. PublisherTypeOK /\ SendReady
    BY DEF TypeInv
  <1>2. QED BY <1>1, NextMessageFacts DEF SendReady

LEMMA LoopKeepsTypeInv ==
  ASSUME TypeInv, NEW p \in Publisher,
         GetUnpublished(p) \/ Send(p) \/ SendFails(p) \/ Mark(p)
  PROVE  TypeInv'
  <1>t. /\ PublisherTypeOK /\ DatabaseTypeOK
        /\ feed \in SUBSET Message /\ events[p] \in SUBSET Message
        /\ delivered \in [Id -> Nat] /\ unrecorded \in [Id -> Nat]
        /\ alarmed \in SUBSET Id
        /\ publisher_lock \in Publisher \cup {NoPublisher}
    BY DEF TypeInv, PublisherTypeOK
  <1>d. UNCHANGED database => DatabaseTypeOK'
    BY <1>t DEF database, DatabaseTypeOK
  <1>m. ASSUME publisher_pc[p] \in {"send", "mark_as_posted"}
        PROVE  sending[p] \in Message /\ sending[p].id \in Id
    BY <1>m DEF TypeInv, SendReady, Message
  <1>1. CASE GetUnpublished(p)
    <2>1. CASE NextMessage(p, "get_unpublished", Unpublished) /\ Spend(FALSE)
      <3>1. Unpublished \in SUBSET Message
        BY <1>t, SelectedRows
      <3>2. QED
        BY <1>1, <1>t, <1>d, <2>1, <3>1, NextMessageFacts, SpendFacts,
           NextMessageKeepsSendReady
        DEF GetUnpublished, TypeInv, PublisherTypeOK, unchangedHistory
    <2>2. CASE /\ Goto(p, "get_unpublished", "close") /\ Spend(TRUE)
               /\ UNCHANGED unchangedRun
      BY <1>1, <1>t, <1>d, <2>2, SpendFacts
      DEF GetUnpublished, TypeInv, SendReady, PublisherTypeOK, PublisherPC,
          Goto, unchangedRun, unchangedHistory
    <2>3. QED BY <1>1, <2>1, <2>2 DEF GetUnpublished
  <1>2. CASE Send(p)
    <2>1. /\ publisher_pc[p] = "send"
          /\ publisher_pc' = [publisher_pc EXCEPT ![p] = "mark_as_posted"]
          /\ feed' = feed \cup {sending[p]}
          /\ delivered' = Increment(delivered, sending[p].id)
          /\ UNCHANGED <<publisher_lock, events, sending, unrecorded, alarmed,
                         publisher_faults>>
          /\ UNCHANGED database
      BY <1>2 DEF Send, Deliver, Goto
    <2>2. delivered' \in [Id -> Nat] /\ feed' \in SUBSET Message
      BY <1>t, <1>m, <2>1, IncrementFacts
    <2>3. QED
      BY <1>d, <1>m, <2>1, <2>2
      DEF TypeInv, SendReady, PublisherTypeOK, PublisherPC
  <1>3. CASE SendFails(p)
    <2>1. publisher_pc[p] = "send" /\ NextMessage(p, "send", events[p])
      BY <1>3 DEF SendFails, NextMessage, Goto
    <2>2. /\ delivered' \in [Id -> Nat] /\ unrecorded' \in [Id -> Nat]
          /\ feed' \in SUBSET Message
      BY <1>t, <1>m, <1>3, <2>1, IncrementFacts DEF SendFails, Deliver
    <2>3. QED
      BY <1>t, <1>d, <1>3, <2>1, <2>2, NextMessageFacts, SpendFacts,
         NextMessageKeepsSendReady
      DEF SendFails, TypeInv, PublisherTypeOK
  <1>4. CASE Mark(p)
    <2>1. /\ publisher_pc[p] = "mark_as_posted"
          /\ NextMessage(p, "mark_as_posted", events[p])
      BY <1>4 DEF Mark, NextMessage, Goto
    <2>2. PICK outcome \in Outcome :
            /\ ctf_events' = IF Executed(outcome)
                             THEN MarkAsPosted(sending[p].id) ELSE ctf_events
            /\ unrecorded' = IF Executed(outcome) THEN unrecorded
                             ELSE Increment(unrecorded, sending[p].id)
            /\ alarmed' = IF outcome = "ok" THEN alarmed
                          ELSE alarmed \cup {sending[p].id}
            /\ Spend(outcome # "ok")
      BY <1>4 DEF Mark
    <2>3. unrecorded' \in [Id -> Nat] /\ alarmed' \in SUBSET Id
      BY <1>t, <1>m, <2>1, <2>2, IncrementFacts
    <2>4. ctf_events' \in [Id -> Row \cup {NoRow}]
      BY <1>t, <1>m, <2>1, <2>2, MarkFacts DEF DatabaseTypeOK
    <2>5. DatabaseTypeOK'
      BY <1>t, <1>4, <2>4 DEF Mark, DatabaseTypeOK
    <2>6. QED
      BY <1>t, <1>4, <2>1, <2>2, <2>3, <2>5, NextMessageFacts, SpendFacts,
         NextMessageKeepsSendReady
      DEF Mark, TypeInv, PublisherTypeOK
  <1>5. QED BY <1>1, <1>2, <1>3, <1>4

LEMMA DieKeepsTypeInv ==
  ASSUME TypeInv, NEW p \in Publisher, Die(p)
  PROVE  TypeInv'
  <1>1. unrecorded' \in [Id -> Nat]
    BY IncrementFacts DEF Die, TypeInv, PublisherTypeOK, SendReady, Message
  <1>2. publisher_faults' \in 0..MaxPublisherFaults
    BY SpendFacts DEF Die, TypeInv
  <1>3. QED
    BY <1>1, <1>2
    DEF Die, Forget, TypeInv, PublisherTypeOK, SendReady, PublisherPC,
        DatabaseTypeOK, database

(* What the rest of the system does to the rows. *)
LEMMA OthersFacts ==
  ASSUME PublisherTypeOK, Others
  PROVE  /\ DatabaseTypeOK'
         /\ Stored \subseteq Stored'
         /\ approved \subseteq approved'
         /\ \A id \in Stored :
              ctf_events'[id].posted_at = ctf_events[id].posted_at
         /\ \A id \in Stored' \ Stored : ctf_events'[id].posted_at = FALSE
         /\ UNCHANGED publisherVars
  <1>t. DatabaseTypeOK /\ UNCHANGED publisherVars
    BY DEF PublisherTypeOK, Others
  <1>1. PICK id \in Id :
          \/ OperatorApproves(id)
          \/ /\ \E content \in Content : ctf_events' = UpsertEvent(id, content)
             /\ UNCHANGED <<parser_buffer, approved>>
    BY DEF Others
  <1>2. CASE OperatorApproves(id)
    BY <1>t, <1>2, ApproveFacts DEF DatabaseTypeOK
  <1>3. CASE /\ \E content \in Content : ctf_events' = UpsertEvent(id, content)
             /\ UNCHANGED <<parser_buffer, approved>>
    <2>1. PICK content \in Content : ctf_events' = UpsertEvent(id, content)
      BY <1>3
    <2>2. /\ ctf_events' \in [Id -> Row \cup {NoRow}]
          /\ Stored' = Stored \cup {id}
          /\ id \notin Stored => ctf_events'[id].posted_at = FALSE
          /\ id \in Stored =>
               ctf_events'[id].posted_at = ctf_events[id].posted_at
          /\ \A other \in Id \ {id} : ctf_events'[other] = ctf_events[other]
      BY <1>t, <2>1, UpsertFacts
    <2>3. DatabaseTypeOK'
      BY <1>t, <1>3, <2>2 DEF DatabaseTypeOK
    <2>4. QED BY <1>t, <1>3, <2>2, <2>3 DEF Stored
  <1>4. QED BY <1>1, <1>2, <1>3

LEMMA StepKeepsTypeInv == TypeInv /\ [Next]_vars => TypeInv'
  <1> SUFFICES ASSUME TypeInv, [Next]_vars PROVE TypeInv'
    OBVIOUS
  <1>1. CASE PublisherStep
    BY <1>1, FrameKeepsTypeInv, DigestKeepsTypeInv, LoopKeepsTypeInv,
       DieKeepsTypeInv
    DEF PublisherStep, RunStep
  <1>2. CASE Others
    BY <1>2, OthersFacts
    DEF TypeInv, PublisherTypeOK, SendReady, publisherVars
  <1>3. CASE UNCHANGED vars
    BY <1>3
    DEF vars, database, publisherVars, TypeInv, PublisherTypeOK, SendReady,
        DatabaseTypeOK
  <1>4. QED BY <1>1, <1>2, <1>3 DEF Next

(* The tables, every run's snapshot and message at hand, and the history    *)
(* have the types of their declarations.                                    *)
THEOREM PublisherTypeCorrect == Spec => []PublisherTypeOK
  BY InitTypeInv, StepKeepsTypeInv, PTL DEF Spec, TypeInv
-----------------------------------------------------------------------------
(* A run past the lock holds it.                                            *)
OneRun == \A p \in Running : publisher_lock = p

(* A step of one run leaves the others where they are, and takes the lock   *)
(* from none of them.                                                      *)
LEMMA OwnStep ==
  ASSUME TypeInv, NEW p \in Publisher, CronStarts(p) \/ RunStep(p) \/ Die(p)
  PROVE  \A q \in Publisher \ {p} : /\ publisher_pc'[q] = publisher_pc[q]
                                   /\ events'[q] = events[q]
                                   /\ sending'[q] = sending[q]
  <1> USE DEF TypeInv, PublisherTypeOK, Goto, unchangedRun
  <1>1. CASE \/ CronStarts(p) \/ LockAcquired(p) \/ LockRefused(p)
             \/ Connect(p) \/ IsMonday(p) \/ IsNotMonday(p)
    BY <1>1 DEF CronStarts, LockAcquired, LockRefused, Connect, IsMonday,
                IsNotMonday
  <1>2. CASE GetUpcoming(p) \/ SendPart(p) \/ Send(p)
    BY <1>2 DEF GetUpcoming, SendPart, Send
  <1>3. CASE GetUnpublished(p) \/ SendFails(p) \/ Mark(p)
    BY <1>3 DEF GetUnpublished, SendFails, Mark, NextMessage
  <1>4. CASE Finish(p) \/ Die(p)
    BY <1>4 DEF Finish, Die, Forget
  <1>5. QED BY <1>1, <1>2, <1>3, <1>4 DEF RunStep

LEMMA RunKeepsOneRun ==
  ASSUME TypeInv, OneRun, NEW p \in Publisher,
         CronStarts(p) \/ RunStep(p) \/ Die(p)
  PROVE  OneRun'
  <1>t. /\ publisher_pc \in [Publisher -> PublisherPC]
        /\ NoPublisher \notin Publisher
    BY PublisherAssumption DEF TypeInv, PublisherTypeOK
  <1>o. \A q \in Publisher \ {p} : publisher_pc'[q] = publisher_pc[q]
    BY OwnStep
  <1>1. CASE CronStarts(p) \/ LockRefused(p)
    BY <1>t, <1>1, <1>o DEF CronStarts, LockRefused, Goto, OneRun, Running
  <1>2. CASE LockAcquired(p)
    <2>1. publisher_lock = NoPublisher /\ publisher_lock' = p
      BY <1>2 DEF LockAcquired, Lock!Acquire
    <2>2. \A q \in Publisher : publisher_pc[q] \in {"idle", "lock"}
      BY <1>t, <2>1 DEF OneRun, Running
    <2>3. QED BY <1>o, <2>1, <2>2 DEF OneRun, Running
  <1>3. CASE Finish(p) \/ Die(p)
    <2>1. publisher_pc'[p] = "idle"
      BY <1>t, <1>3 DEF Finish, Die, Goto
    <2>2. publisher_lock' = publisher_lock \/ publisher_lock = p
      BY <1>3 DEF Finish, Die, Lock!Release
    <2>3. QED BY <1>o, <2>1, <2>2 DEF OneRun, Running
  <1>4. CASE ~CronStarts(p) /\ ~LockRefused(p) /\ ~LockAcquired(p)
             /\ ~Finish(p) /\ ~Die(p)
    <2>1. publisher_lock' = publisher_lock
      BY <1>4
      DEF RunStep, Connect, IsMonday, IsNotMonday, GetUpcoming, SendPart,
          GetUnpublished, Send, SendFails, Mark
    <2>2. publisher_pc[p] \notin {"idle", "lock"}
      BY <1>4
      DEF RunStep, Connect, IsMonday, IsNotMonday, GetUpcoming, SendPart,
          GetUnpublished, Send, SendFails, Mark, NextMessage, Goto
    <2>3. QED BY <1>o, <2>1, <2>2 DEF OneRun, Running
  <1>5. QED BY <1>1, <1>2, <1>3, <1>4
-----------------------------------------------------------------------------
(* The events recorded as posted.                                          *)
PostedIds == {id \in Stored : ctf_events[id].posted_at}

(* What a run has still to send is stored and not recorded as posted, one   *)
(* message per id, and the one at hand is not among the rest.               *)
ToSend(p) == events[p] \cup {sending[p]}

LoopInv ==
    \A p \in Publisher :
        publisher_pc[p] \in {"send", "mark_as_posted"} =>
            /\ sending[p] \notin events[p]
            /\ \A m \in ToSend(p) : m.id \in Stored \ PostedIds
            /\ \A m, n \in ToSend(p) : m.id = n.id => m = n

LedgerInv == TypeInv /\ OneRun /\ LoopInv /\ Ledger

LEMMA InitLedgerInv == Init => LedgerInv
  BY InitTypeInv
  DEF Init, DatabaseInit, PublisherOnlyInit, LedgerInv, OneRun, Running,
      LoopInv, Ledger, InMark, Stored

(* Of what a SELECT returns, two messages with one id are the same message. *)
LEMMA UnpublishedFacts ==
  ASSUME DatabaseTypeOK
  PROVE  /\ \A m \in Unpublished : m.id \in Stored \ PostedIds
         /\ \A m, n \in Unpublished : m.id = n.id => m = n
  BY DEF Unpublished, Events, Event, PostedIds, Stored

(* An UPDATE of posted_at for a stored id adds that id.                     *)
LEMMA MarkPosted ==
  ASSUME DatabaseTypeOK, NEW id \in Stored, ctf_events' = MarkAsPosted(id)
  PROVE  Stored' = Stored /\ PostedIds' = PostedIds \cup {id}
  <1>1. /\ Stored' = Stored /\ id \in Id
        /\ ctf_events'[id].posted_at = TRUE
        /\ \A other \in Id \ {id} : ctf_events'[other] = ctf_events[other]
    BY MarkFacts, StoredRow
  <1>2. QED BY <1>1 DEF PostedIds, Stored

LEMMA OthersPosted ==
  ASSUME PublisherTypeOK, Others
  PROVE  Stored \subseteq Stored' /\ PostedIds' = PostedIds
  <1>1. /\ Stored \subseteq Stored'
        /\ \A id \in Stored :
              ctf_events'[id].posted_at = ctf_events[id].posted_at
        /\ \A id \in Stored' \ Stored : ctf_events'[id].posted_at = FALSE
    BY OthersFacts
  <1>2. QED BY <1>1 DEF PostedIds

(* While a run is past the lock, a step of another one neither reads nor    *)
(* writes the rows and sends nothing.                                      *)
LEMMA OneSender ==
  ASSUME TypeInv, OneRun, NEW q \in Running, NEW p \in Publisher \ {q},
         CronStarts(p) \/ RunStep(p) \/ Die(p)
  PROVE  /\ UNCHANGED <<ctf_events, delivered, unrecorded>>
         /\ publisher_pc'[p] # "mark_as_posted"
  <1>1. publisher_lock = q /\ q # NoPublisher
    BY PublisherAssumption DEF OneRun, Running
  <1>2. publisher_pc[p] \in {"idle", "lock"} /\ ~LockAcquired(p)
    BY <1>1 DEF OneRun, Running, LockAcquired, Lock!Acquire
  <1>3. \/ CronStarts(p) \/ LockRefused(p) \/ Die(p)
    BY <1>2
    DEF RunStep, Connect, IsMonday, IsNotMonday, GetUpcoming, SendPart,
        GetUnpublished, Send, SendFails, Mark, Finish, NextMessage, Goto
  <1>4. QED
    BY <1>2, <1>3
    DEF CronStarts, LockRefused, Die, Goto, database, unchangedHistory,
        TypeInv, PublisherTypeOK

LEMMA StepKeepsLoopInv ==
  ASSUME LedgerInv, NEW p \in Publisher, CronStarts(p) \/ RunStep(p) \/ Die(p)
  PROVE  LoopInv'
  <1>t. /\ TypeInv /\ PublisherTypeOK /\ DatabaseTypeOK /\ OneRun /\ LoopInv
        /\ publisher_pc \in [Publisher -> PublisherPC]
        /\ events[p] \in SUBSET Message
    BY DEF LedgerInv, TypeInv, PublisherTypeOK
  <1> DEFINE Rest(q) ==
        /\ sending[q] \notin events[q]
        /\ \A m \in ToSend(q) : m.id \in Stored \ PostedIds
        /\ \A m, n \in ToSend(q) : m.id = n.id => m = n
  <1>1. ASSUME NEW q \in Publisher \ {p},
               publisher_pc'[q] \in {"send", "mark_as_posted"}
        PROVE  Rest(q)'
    <2>1. /\ publisher_pc[q] = publisher_pc'[q]
          /\ events'[q] = events[q] /\ sending'[q] = sending[q]
      BY <1>t, OwnStep
    <2>2. q \in Running /\ Rest(q)
      BY <1>t, <1>1, <2>1 DEF Running, LoopInv
    <2>3. UNCHANGED ctf_events
      BY <1>t, <2>2, OneSender
    <2>4. QED BY <2>1, <2>2, <2>3 DEF ToSend, PostedIds, Stored
  <1>2. ASSUME publisher_pc'[p] \in {"send", "mark_as_posted"}
        PROVE  Rest(p)'
    <2>1. CASE GetUnpublished(p)
      <3>1. NextMessage(p, "get_unpublished", Unpublished)
        BY <1>t, <1>2, <2>1 DEF GetUnpublished, Goto
      <3>2. Unpublished \in SUBSET Message
        BY <1>t, SelectedRows
      <3>3. /\ sending'[p] \in Unpublished
            /\ events'[p] = Unpublished \ {sending'[p]}
        BY <1>t, <1>2, <3>1, <3>2, NextMessageFacts
      <3>4. UNCHANGED ctf_events
        BY <2>1 DEF GetUnpublished, database
      <3>5. ToSend(p)' = Unpublished
        BY <3>3 DEF ToSend
      <3>6. /\ \A m \in Unpublished : m.id \in Stored \ PostedIds
            /\ \A m, n \in Unpublished : m.id = n.id => m = n
        BY <1>t, UnpublishedFacts
      <3>7. QED BY <3>3, <3>4, <3>5, <3>6 DEF PostedIds, Stored
    <2>2. CASE Send(p)
      <3>1. /\ publisher_pc[p] = "send"
            /\ UNCHANGED <<ctf_events, events, sending>>
        BY <2>2 DEF Send, Goto, database
      <3>2. QED BY <1>t, <3>1 DEF LoopInv, ToSend, PostedIds, Stored
    <2>3. CASE SendFails(p) \/ Mark(p)
      <3>1. PICK from \in {"send", "mark_as_posted"} :
               NextMessage(p, from, events[p])
        BY <2>3 DEF SendFails, Mark
      <3>2. /\ publisher_pc[p] = from
            /\ sending'[p] \in events[p]
            /\ events'[p] = events[p] \ {sending'[p]}
        BY <1>t, <1>2, <3>1, NextMessageFacts
      <3>3. Rest(p) /\ sending[p] \in Message
        BY <1>t, <3>1, <3>2 DEF LoopInv, TypeInv, SendReady
      <3>4. /\ ToSend(p)' \subseteq ToSend(p)
            /\ \A m \in ToSend(p)' : m.id # sending[p].id
        BY <3>2, <3>3 DEF ToSend
      <3>5. /\ Stored' = Stored
            /\ PostedIds' \subseteq PostedIds \cup {sending[p].id}
        <4>1. CASE UNCHANGED ctf_events
          BY <4>1 DEF PostedIds, Stored
        <4>2. CASE ctf_events' = MarkAsPosted(sending[p].id)
          BY <1>t, <3>3, <4>2, MarkPosted DEF ToSend
        <4>3. QED BY <2>3, <4>1, <4>2 DEF SendFails, Mark, database
      <3>6. QED BY <3>2, <3>3, <3>4, <3>5
    <2>4. CASE ~GetUnpublished(p) /\ ~Send(p) /\ ~SendFails(p) /\ ~Mark(p)
      <3>1. publisher_pc'[p] \notin {"send", "mark_as_posted"}
        BY <1>t, <2>4
        DEF CronStarts, RunStep, Die, LockAcquired, LockRefused, Connect,
            IsMonday, IsNotMonday, GetUpcoming, SendPart, Finish, Goto
      <3>2. QED BY <1>2, <3>1
    <2>5. QED BY <2>1, <2>2, <2>3, <2>4
  <1>3. QED BY <1>1, <1>2 DEF LoopInv

(* Past the lock a run is alone, so only it can be about to mark.           *)
LEMMA AloneInMark ==
  ASSUME OneRun, NEW p \in Running, NEW id \in Id
  PROVE  InMark(id) <=> publisher_pc[p] = "mark_as_posted" /\ sending[p].id = id
  BY DEF OneRun, Running, InMark

(* The ledger, with the posted events as a set. *)
LEMMA LedgerOfPosted ==
  Ledger <=> \A id \in Id :
                delivered[id] = unrecorded[id]
                                + (IF id \in PostedIds THEN 1 ELSE 0)
                                + (IF InMark(id) THEN 1 ELSE 0)
  BY DEF Ledger, PostedIds

LEMMA RunKeepsLedger ==
  ASSUME LedgerInv, NEW p \in Publisher, CronStarts(p) \/ RunStep(p) \/ Die(p)
  PROVE  Ledger'
  <1>t. /\ TypeInv /\ PublisherTypeOK /\ DatabaseTypeOK /\ OneRun /\ LoopInv
        /\ publisher_pc \in [Publisher -> PublisherPC]
        /\ delivered \in [Id -> Nat] /\ unrecorded \in [Id -> Nat]
        /\ events[p] \in SUBSET Message
    BY DEF LedgerInv, TypeInv, PublisherTypeOK
  <1>o. \A q \in Publisher \ {p} : /\ publisher_pc'[q] = publisher_pc[q]
                                  /\ sending'[q] = sending[q]
    BY <1>t, OwnStep
  <1>l. \A id \in Id : delivered[id] = unrecorded[id]
                                + (IF id \in PostedIds THEN 1 ELSE 0)
                                + (IF InMark(id) THEN 1 ELSE 0)
    BY LedgerOfPosted DEF LedgerInv
  <1> SUFFICES ASSUME NEW id \in Id
               PROVE  delivered'[id] = unrecorded'[id]
                                + (IF id \in PostedIds' THEN 1 ELSE 0)
                                + (IF InMark(id)' THEN 1 ELSE 0)
    BY DEF Ledger, PostedIds
  <1>a. ASSUME p \in Running
        PROVE  InMark(id)' <=> /\ publisher_pc'[p] = "mark_as_posted"
                               /\ sending'[p].id = id
    <2>1. \A q \in Publisher \ {p} : publisher_pc[q] \in {"idle", "lock"}
      BY <1>t, <1>a DEF OneRun, Running
    <2>2. QED BY <1>o, <2>1 DEF InMark
  <1>m. ASSUME publisher_pc[p] \in {"send", "mark_as_posted"}
        PROVE  /\ p \in Running
               /\ sending[p] \in Message /\ sending[p].id \in Id
               /\ sending[p].id \in Stored \ PostedIds
    BY <1>t, <1>m
    DEF Running, TypeInv, SendReady, Message, LoopInv, ToSend
  <1>1. CASE Send(p)
    <2>1. /\ publisher_pc[p] = "send" /\ publisher_pc'[p] = "mark_as_posted"
          /\ delivered' = Increment(delivered, sending[p].id)
          /\ UNCHANGED <<ctf_events, unrecorded, sending>>
      BY <1>t, <1>1 DEF Send, Deliver, Goto, database
    <2>2. PostedIds' = PostedIds
      BY <2>1 DEF PostedIds, Stored
    <2>3. ~InMark(id) /\ (InMark(id)' <=> sending[p].id = id)
      BY <1>t, <1>a, <1>m, <2>1, AloneInMark
    <2>4. delivered'[id] = delivered[id] + (IF sending[p].id = id THEN 1 ELSE 0)
      BY <1>t, <1>m, <2>1, IncrementFacts
    <2>5. QED BY <1>t, <1>l, <2>1, <2>2, <2>3, <2>4
  <1>2. CASE SendFails(p)
    <2>1. /\ publisher_pc[p] = "send" /\ publisher_pc'[p] # "mark_as_posted"
          /\ UNCHANGED ctf_events
      BY <1>t, <1>2, NextMessageFacts DEF SendFails, database
    <2>2. PostedIds' = PostedIds
      BY <2>1 DEF PostedIds, Stored
    <2>3. ~InMark(id) /\ ~InMark(id)'
      BY <1>t, <1>a, <1>m, <2>1, AloneInMark
    <2>4. CASE UNCHANGED <<delivered, unrecorded>>
      BY <1>l, <2>2, <2>3, <2>4
    <2>5. CASE /\ delivered' = Increment(delivered, sending[p].id)
               /\ unrecorded' = Increment(unrecorded, sending[p].id)
      <3>1. sending[p].id \in Id
        BY <1>m, <2>1
      <3>2. CASE sending[p].id = id
        <4>1. /\ delivered'[id] = delivered[id] + 1
              /\ unrecorded'[id] = unrecorded[id] + 1
          BY <1>t, <2>5, <3>2, IncrementFacts
        <4>2. QED BY <1>t, <1>l, <2>2, <2>3, <4>1
      <3>3. CASE sending[p].id # id
        <4>1. delivered'[id] = delivered[id] /\ unrecorded'[id] = unrecorded[id]
          BY <1>t, <2>5, <3>1, <3>3, IncrementFacts
        <4>2. QED BY <1>l, <2>2, <2>3, <4>1
      <3>4. QED BY <3>2, <3>3
    <2>6. QED BY <1>2, <2>4, <2>5 DEF SendFails, Deliver
  <1>3. CASE Mark(p)
    <2>1. /\ publisher_pc[p] = "mark_as_posted"
          /\ publisher_pc'[p] # "mark_as_posted"
          /\ UNCHANGED delivered
      BY <1>t, <1>3, NextMessageFacts DEF Mark
    <2>2. (InMark(id) <=> sending[p].id = id) /\ ~InMark(id)'
      BY <1>t, <1>a, <1>m, <2>1, AloneInMark
    <2>3. CASE /\ ctf_events' = MarkAsPosted(sending[p].id)
               /\ unrecorded' = unrecorded
      <3>1. PostedIds' = PostedIds \cup {sending[p].id}
        BY <1>t, <1>m, <2>1, <2>3, MarkPosted
      <3>2. QED BY <1>t, <1>l, <1>m, <2>1, <2>2, <2>3, <3>1
    <2>4. CASE /\ ctf_events' = ctf_events
               /\ unrecorded' = Increment(unrecorded, sending[p].id)
      <3>1. PostedIds' = PostedIds
        BY <2>4 DEF PostedIds, Stored
      <3>2. unrecorded'[id] = unrecorded[id]
                              + (IF sending[p].id = id THEN 1 ELSE 0)
        BY <1>t, <1>m, <2>1, <2>4, IncrementFacts
      <3>3. QED BY <1>t, <1>l, <2>1, <2>2, <3>1, <3>2
    <2>5. QED BY <1>3, <2>3, <2>4 DEF Mark
  <1>4. CASE Die(p)
    <2>1. /\ publisher_pc'[p] = "idle" /\ publisher_pc[p] # "idle"
          /\ UNCHANGED <<ctf_events, delivered>>
          /\ unrecorded' = IF publisher_pc[p] = "mark_as_posted"
                           THEN Increment(unrecorded, sending[p].id)
                           ELSE unrecorded
      BY <1>t, <1>4 DEF Die, database
    <2>2. PostedIds' = PostedIds
      BY <2>1 DEF PostedIds, Stored
    <2>3. CASE publisher_pc[p] = "mark_as_posted"
      <3>1. (InMark(id) <=> sending[p].id = id) /\ ~InMark(id)'
        BY <1>t, <1>a, <1>m, <2>1, <2>3, AloneInMark
      <3>2. unrecorded'[id] = unrecorded[id]
                              + (IF sending[p].id = id THEN 1 ELSE 0)
        BY <1>t, <1>m, <2>1, <2>3, IncrementFacts
      <3>3. QED BY <1>t, <1>l, <2>1, <2>2, <3>1, <3>2
    <2>4. CASE publisher_pc[p] # "mark_as_posted"
      <3>1. InMark(id)' <=> InMark(id)
        BY <1>o, <2>1, <2>4 DEF InMark
      <3>2. QED BY <1>l, <2>1, <2>2, <2>4, <3>1
    <2>5. QED BY <2>3, <2>4
  <1>5. CASE ~Send(p) /\ ~SendFails(p) /\ ~Mark(p) /\ ~Die(p)
    <2>1. /\ UNCHANGED <<ctf_events, delivered, unrecorded>>
          /\ publisher_pc[p] # "mark_as_posted"
          /\ publisher_pc'[p] # "mark_as_posted"
      BY <1>t, <1>5
      DEF CronStarts, RunStep, LockAcquired, LockRefused, Connect, IsMonday,
          IsNotMonday, GetUpcoming, SendPart, GetUnpublished, Finish,
          NextMessage, Goto, database, unchangedHistory
    <2>2. PostedIds' = PostedIds
      BY <2>1 DEF PostedIds, Stored
    <2>3. InMark(id)' <=> InMark(id)
      BY <1>o, <2>1 DEF InMark
    <2>4. QED BY <1>l, <2>1, <2>2, <2>3
  <1>6. QED BY <1>1, <1>2, <1>3, <1>4, <1>5

LEMMA StepKeepsLedgerInv == LedgerInv /\ [Next]_vars => LedgerInv'
  <1> SUFFICES ASSUME LedgerInv, [Next]_vars PROVE LedgerInv'
    OBVIOUS
  <1>t. TypeInv /\ PublisherTypeOK /\ OneRun /\ LoopInv /\ Ledger
    BY DEF LedgerInv, TypeInv
  <1>0. TypeInv'
    BY <1>t, StepKeepsTypeInv
  <1>1. ASSUME NEW p \in Publisher, CronStarts(p) \/ RunStep(p) \/ Die(p)
        PROVE  LedgerInv'
    BY <1>t, <1>0, <1>1, RunKeepsOneRun, StepKeepsLoopInv, RunKeepsLedger
    DEF LedgerInv
  <1>2. CASE Others
    <2>1. /\ Stored \subseteq Stored' /\ PostedIds' = PostedIds
          /\ UNCHANGED publisherVars
      BY <1>t, <1>2, OthersPosted DEF Others
    <2>2. OneRun' /\ LoopInv'
      BY <1>t, <2>1
      DEF publisherVars, OneRun, Running, LoopInv, ToSend
    <2>3. Ledger'
      <3>1. \A id \in Id :
              /\ InMark(id)' <=> InMark(id)
              /\ delivered'[id] = delivered[id]
              /\ unrecorded'[id] = unrecorded[id]
        BY <2>1 DEF publisherVars, InMark
      <3>2. \A id \in Id :
              delivered'[id] = unrecorded'[id]
                               + (IF id \in PostedIds' THEN 1 ELSE 0)
                               + (IF InMark(id)' THEN 1 ELSE 0)
        BY <1>t, <2>1, <3>1, LedgerOfPosted
      <3>3. QED BY <3>2 DEF Ledger, PostedIds
    <2>4. QED BY <1>0, <2>2, <2>3 DEF LedgerInv
  <1>3. CASE UNCHANGED vars
    BY <1>t, <1>0, <1>3
    DEF vars, database, publisherVars, LedgerInv, OneRun, Running, LoopInv,
        ToSend, PostedIds, Stored, Ledger, InMark
  <1>4. QED BY <1>1, <1>2, <1>3 DEF Next, PublisherStep

(* Every message an event got is recorded in posted_at, is about to be, or  *)
(* was kept from it by a failure that is counted: whatever the runs and the *)
(* late INSERTs do, an event is announced twice only after such a failure.  *)
THEOREM MessagesAreAccountedFor == Spec => []Ledger
  <1>1. LedgerInv => Ledger
    BY DEF LedgerInv
  <1>2. QED BY InitLedgerInv, StepKeepsLedgerInv, <1>1, PTL DEF Spec
-----------------------------------------------------------------------------
(* A message that may be shown.                                             *)
Clear(m) == m.content \in SafeContent \/ m.id \in approved

(* All that a run may still send is clear: snapshots do not get stale,      *)
(* because the content of a row never changes and a release is for good.    *)
SnapshotsClear ==
    \A p \in Publisher :
        /\ \A m \in events[p] : Clear(m)
        /\ sending[p] # NoMessage => Clear(sending[p])

WithheldInv == TypeInv /\ VerdictStands /\ SnapshotsClear /\ Withheld

LEMMA InitWithheldInv == Init => WithheldInv
  BY InitTypeInv
  DEF Init, DatabaseInit, PublisherOnlyInit, WithheldInv, VerdictStands,
      SnapshotsClear, Withheld, Stored

(* A row selected with is_safe = 1 is clear.                                *)
LEMMA SelectedClear ==
  ASSUME DatabaseTypeOK, VerdictStands
  PROVE  /\ \A m \in Unpublished : Clear(m)
         /\ \A window \in SUBSET Id : \A m \in Upcoming(window) : Clear(m)
  <1>1. ASSUME NEW id \in Stored, ctf_events[id].is_safe
        PROVE  Clear(Event(id))
    BY <1>1 DEF VerdictStands, Clear, Event
  <1>2. QED BY <1>1 DEF Unpublished, Upcoming, Events, Stored

(* A run sends what it selected, and nothing else.                          *)
LEMMA RunKeepsClear ==
  ASSUME WithheldInv, NEW p \in Publisher, CronStarts(p) \/ RunStep(p) \/ Die(p)
  PROVE  SnapshotsClear' /\ Withheld'
  <1>t. /\ TypeInv /\ PublisherTypeOK /\ DatabaseTypeOK
        /\ VerdictStands /\ SnapshotsClear /\ Withheld
        /\ events[p] \in SUBSET Message
        /\ events \in [Publisher -> SUBSET Message]
        /\ sending \in [Publisher -> Message \cup {NoMessage}]
        /\ NoMessage \notin Message
    BY PublisherAssumption DEF WithheldInv, TypeInv, PublisherTypeOK, Message
  <1>a. UNCHANGED approved
    BY DEF CronStarts, RunStep, Die, LockAcquired, LockRefused, Connect,
           IsMonday, IsNotMonday, GetUpcoming, SendPart, GetUnpublished, Send,
           SendFails, Mark, Finish, database
  <1>o. \A q \in Publisher \ {p} : /\ events'[q] = events[q]
                                  /\ sending'[q] = sending[q]
    BY <1>t, OwnStep
  <1>1. /\ \A m \in events'[p] : Clear(m)
        /\ sending'[p] # NoMessage => Clear(sending'[p])
    <2>1. CASE GetUpcoming(p)
      <3>1. \A window \in SUBSET Id : \A m \in Upcoming(window) : Clear(m)
        BY <1>t, SelectedClear
      <3>2. events'[p] = events[p]
            \/ \E window \in SUBSET Id : events'[p] = Upcoming(window)
        BY <1>t, <2>1 DEF GetUpcoming
      <3>3. QED BY <1>t, <2>1, <3>1, <3>2 DEF GetUpcoming, SnapshotsClear
    <2>2. CASE SendPart(p)
      BY <1>t, <2>2 DEF SendPart, SnapshotsClear
    <2>3. ASSUME NEW from, NEW left \in SUBSET Message,
                 NextMessage(p, from, left), \A m \in left : Clear(m)
          PROVE  /\ \A m \in events'[p] : Clear(m)
                 /\ sending'[p] # NoMessage => Clear(sending'[p])
      BY <1>t, <2>3, NextMessageFacts
    <2>4. CASE GetUnpublished(p)
      <3>1. /\ Unpublished \in SUBSET Message
            /\ \A m \in Unpublished : Clear(m)
        BY <1>t, SelectedRows, SelectedClear
      <3>2. CASE NextMessage(p, "get_unpublished", Unpublished)
        BY <2>3, <3>1, <3>2
      <3>3. CASE UNCHANGED unchangedRun
        BY <1>t, <3>3 DEF unchangedRun, SnapshotsClear
      <3>4. QED BY <2>4, <3>2, <3>3 DEF GetUnpublished
    <2>5. CASE SendFails(p) \/ Mark(p)
      <3>1. PICK from : NextMessage(p, from, events[p])
        BY <2>5 DEF SendFails, Mark
      <3>2. \A m \in events[p] : Clear(m)
        BY <1>t DEF SnapshotsClear
      <3>3. QED BY <1>t, <2>3, <3>1, <3>2
    <2>6. CASE Finish(p) \/ Die(p)
      BY <1>t, <2>6 DEF Finish, Die, Forget
    <2>7. CASE \/ CronStarts(p) \/ LockAcquired(p) \/ LockRefused(p)
               \/ Connect(p) \/ IsMonday(p) \/ IsNotMonday(p) \/ Send(p)
      BY <1>t, <2>7
      DEF CronStarts, LockAcquired, LockRefused, Connect, IsMonday,
          IsNotMonday, Send, unchangedRun, SnapshotsClear
    <2>8. QED BY <2>1, <2>2, <2>4, <2>5, <2>6, <2>7 DEF RunStep
  <1>2. \A m \in feed' : Clear(m)
    <2>1. CASE SendPart(p)
      BY <1>t, <2>1 DEF SendPart, SnapshotsClear, Withheld, Clear
    <2>2. CASE Send(p) \/ SendFails(p)
      <3>1. sending[p] \in Message
        BY <1>t, <2>2 DEF Send, SendFails, NextMessage, Goto, TypeInv, SendReady
      <3>2. feed' \subseteq feed \cup {sending[p]}
        BY <2>2 DEF Send, SendFails, Deliver
      <3>3. QED
        BY <1>t, <3>1, <3>2 DEF SnapshotsClear, Withheld, Clear
    <2>3. CASE ~SendPart(p) /\ ~Send(p) /\ ~SendFails(p)
      <3>1. UNCHANGED feed
        BY <2>3
        DEF CronStarts, RunStep, Die, LockAcquired, LockRefused, Connect,
            IsMonday, IsNotMonday, GetUpcoming, GetUnpublished, Mark, Finish,
            unchangedHistory
      <3>2. QED BY <1>t, <3>1 DEF Withheld, Clear
    <2>4. QED BY <2>1, <2>2, <2>3
  <1>3. SnapshotsClear'
    BY <1>t, <1>a, <1>o, <1>1 DEF SnapshotsClear, Clear
  <1>4. Withheld'
    BY <1>a, <1>2 DEF Withheld, Clear
  <1>5. QED BY <1>3, <1>4

(* The only statement of a run that writes a row is the one that marks the  *)
(* message at hand as posted.                                               *)
LEMMA RunWritesRows ==
  ASSUME TypeInv, NEW p \in Publisher, CronStarts(p) \/ RunStep(p) \/ Die(p)
  PROVE  /\ UNCHANGED <<parser_buffer, approved>>
         /\ \/ UNCHANGED ctf_events
            \/ /\ publisher_pc[p] = "mark_as_posted"
               /\ sending[p] \in Message
               /\ ctf_events' = MarkAsPosted(sending[p].id)
  <1>1. CASE Mark(p)
    <2>1. publisher_pc[p] = "mark_as_posted"
      BY <1>1 DEF Mark, NextMessage, Goto
    <2>2. QED BY <1>1, <2>1 DEF Mark, TypeInv, SendReady
  <1>2. CASE ~Mark(p)
    BY <1>2
    DEF CronStarts, RunStep, Die, LockAcquired, LockRefused, Connect,
        IsMonday, IsNotMonday, GetUpcoming, SendPart, GetUnpublished, Send,
        SendFails, Finish, database
  <1>3. QED BY <1>1, <1>2

(* A run changes no verdict and no content.                                 *)
LEMMA RunKeepsVerdicts ==
  ASSUME WithheldInv, NEW p \in Publisher, CronStarts(p) \/ RunStep(p) \/ Die(p)
  PROVE  VerdictStands'
  <1>t. TypeInv /\ DatabaseTypeOK /\ VerdictStands
    BY DEF WithheldInv, TypeInv, PublisherTypeOK
  <1>1. CASE UNCHANGED <<ctf_events, approved>>
    BY <1>t, <1>1 DEF VerdictStands, Stored
  <1>2. CASE ~UNCHANGED <<ctf_events, approved>>
    <2>1. /\ sending[p].id \in Id
          /\ ctf_events' = MarkAsPosted(sending[p].id)
          /\ UNCHANGED approved
      BY <1>t, <1>2, RunWritesRows DEF Message
    <2>2. /\ Stored' = Stored
          /\ \A id \in Stored :
               /\ ctf_events'[id].content = ctf_events[id].content
               /\ ctf_events'[id].is_safe = ctf_events[id].is_safe
      BY <1>t, <2>1, MarkFacts
    <2>3. QED BY <1>t, <2>1, <2>2 DEF VerdictStands
  <1>3. QED BY <1>1, <1>2

(* Nor does anybody else, when the INSERT of a stored id is ruled out.      *)
LEMMA OthersKeepVerdicts ==
  ASSUME WithheldInv, ~LateInserts, Others
  PROVE  VerdictStands'
  <1>t. DatabaseTypeOK /\ VerdictStands
    BY DEF WithheldInv, TypeInv, PublisherTypeOK
  <1>1. PICK id \in Id :
          \/ OperatorApproves(id)
          \/ /\ id \notin Stored
             /\ \E content \in Content : ctf_events' = UpsertEvent(id, content)
             /\ UNCHANGED approved
    BY DEF Others
  <1>2. CASE OperatorApproves(id)
    BY <1>t, <1>2, ApproveFacts DEF VerdictStands, Stored
  <1>3. CASE /\ id \notin Stored /\ UNCHANGED approved
             /\ \E content \in Content : ctf_events' = UpsertEvent(id, content)
    <2>1. PICK content \in Content : ctf_events' = UpsertEvent(id, content)
      BY <1>3
    <2>2. /\ Stored' = Stored \cup {id}
          /\ ctf_events'[id].content = content
          /\ ctf_events'[id].is_safe = (content \in SafeContent)
          /\ \A other \in Id \ {id} : ctf_events'[other] = ctf_events[other]
      BY <1>t, <1>3, <2>1, UpsertFacts
    <2>3. ASSUME NEW row \in Stored' \ approved'
          PROVE  ctf_events'[row].is_safe
                    = (ctf_events'[row].content \in SafeContent)
      <3>1. CASE row = id
        BY <2>2, <3>1
      <3>2. CASE row # id
        BY <1>t, <1>3, <2>2, <2>3, <3>2 DEF VerdictStands, Stored
      <3>3. QED BY <3>1, <3>2
    <2>4. QED BY <2>3 DEF VerdictStands
  <1>4. QED BY <1>1, <1>2, <1>3

LEMMA StepKeepsWithheldInv ==
  ASSUME WithheldInv, ~LateInserts, [Next]_vars
  PROVE  WithheldInv'
  <1>t. TypeInv /\ PublisherTypeOK
    BY DEF WithheldInv, TypeInv
  <1>0. TypeInv'
    BY <1>t, StepKeepsTypeInv
  <1>1. ASSUME NEW p \in Publisher, CronStarts(p) \/ RunStep(p) \/ Die(p)
        PROVE  WithheldInv'
    BY <1>0, <1>1, RunKeepsClear, RunKeepsVerdicts DEF WithheldInv
  <1>2. CASE Others
    <2>1. approved \subseteq approved' /\ UNCHANGED publisherVars
      BY <1>t, <1>2, OthersFacts
    <2>2. SnapshotsClear' /\ Withheld'
      BY <2>1
      DEF publisherVars, WithheldInv, SnapshotsClear, Withheld, Clear
    <2>3. QED BY <1>0, <1>2, <2>2, OthersKeepVerdicts DEF WithheldInv
  <1>3. CASE UNCHANGED vars
    BY <1>0, <1>3
    DEF vars, database, publisherVars, WithheldInv, VerdictStands, Stored,
        SnapshotsClear, Withheld, Clear
  <1>4. QED BY <1>1, <1>2, <1>3 DEF Next, PublisherStep

(* Without INSERTs that outlive their client, whatever the topic has shown  *)
(* passed the checks or was released by an operator.                        *)
THEOREM NothingWithheldIsShown ==
  ASSUME ~LateInserts PROVE Spec => []Withheld
  <1>1. WithheldInv /\ [Next]_vars => WithheldInv'
    BY StepKeepsWithheldInv
  <1>2. QED BY InitWithheldInv, <1>1, PTL DEF Spec, WithheldInv
-----------------------------------------------------------------------------
(* A message with the details its row has now.                              *)
Current(m) == m.id \in Stored /\ ctf_events[m.id].content = m.content

(* What a run has still to send is what the rows say, and what it is about  *)
(* to mark is in the topic, unless sending it failed.                       *)
RunCurrent ==
    \A p \in Publisher :
        /\ publisher_pc[p] \in {"send", "mark_as_posted"} =>
              \A m \in ToSend(p) : Current(m)
        /\ publisher_pc[p] = "mark_as_posted" => sending[p] \in feed

(* What posted_at says was shown, as the row still has it.                  *)
PostedShown == \A id \in PostedIds : Event(id) \in feed

ShownInv == TypeInv /\ RunCurrent /\ PostedShown

LEMMA InitShownInv == Init => ShownInv
  BY InitTypeInv
  DEF Init, DatabaseInit, PublisherOnlyInit, ShownInv, RunCurrent, PostedShown,
      PostedIds, Stored

(* The topic never loses a message.                                         *)
LEMMA FeedGrows ==
  ASSUME NEW p \in Publisher, CronStarts(p) \/ RunStep(p) \/ Die(p)
  PROVE  feed \subseteq feed'
  BY DEF CronStarts, RunStep, Die, LockAcquired, LockRefused, Connect,
         IsMonday, IsNotMonday, GetUpcoming, SendPart, GetUnpublished, Send,
         SendFails, Mark, Finish, Deliver, unchangedHistory

(* A run takes no row away and changes no content.                          *)
LEMMA RunKeepsCurrent ==
  ASSUME TypeInv, NEW p \in Publisher, CronStarts(p) \/ RunStep(p) \/ Die(p)
  PROVE  \A m \in Message : Current(m) => Current(m)'
  <1>t. DatabaseTypeOK
    BY DEF TypeInv, PublisherTypeOK
  <1>1. CASE UNCHANGED ctf_events
    BY <1>1 DEF Current, Stored
  <1>2. CASE ~UNCHANGED ctf_events
    <2>1. ctf_events' = MarkAsPosted(sending[p].id) /\ sending[p].id \in Id
      BY <1>2, RunWritesRows DEF Message
    <2>2. QED BY <1>t, <2>1, MarkFacts DEF Current
  <1>3. QED BY <1>1, <1>2

LEMMA RunKeepsRunCurrent ==
  ASSUME ShownInv, NEW p \in Publisher, CronStarts(p) \/ RunStep(p) \/ Die(p)
  PROVE  RunCurrent'
  <1>t. /\ TypeInv /\ PublisherTypeOK /\ DatabaseTypeOK /\ RunCurrent
        /\ publisher_pc \in [Publisher -> PublisherPC]
        /\ events \in [Publisher -> SUBSET Message]
    BY DEF ShownInv, TypeInv, PublisherTypeOK
  <1>c. /\ \A m \in Message : Current(m) => Current(m)'
        /\ feed \subseteq feed'
    BY <1>t, RunKeepsCurrent, FeedGrows
  <1>s. \A q \in Publisher : publisher_pc[q] \in {"send", "mark_as_posted"} =>
              sending[q] \in Message /\ ToSend(q) \in SUBSET Message
    BY <1>t DEF TypeInv, SendReady, ToSend
  <1> DEFINE Good(q) ==
        /\ publisher_pc[q] \in {"send", "mark_as_posted"} =>
              \A m \in ToSend(q) : Current(m)
        /\ publisher_pc[q] = "mark_as_posted" => sending[q] \in feed
  <1>g. \A q \in Publisher : Good(q)
    BY <1>t DEF RunCurrent
  <1>1. ASSUME NEW q \in Publisher \ {p} PROVE Good(q)'
    <2>1. /\ publisher_pc'[q] = publisher_pc[q]
          /\ events'[q] = events[q] /\ sending'[q] = sending[q]
      BY <1>t, OwnStep
    <2>2. ToSend(q)' = ToSend(q)
      BY <2>1 DEF ToSend
    <2>3. QED BY <1>c, <1>g, <1>s, <2>1, <2>2
  <1>2. Good(p)'
    <2>1. CASE GetUnpublished(p)
      <3>1. \A m \in Unpublished : Current(m)
        BY DEF Unpublished, Events, Event, Current, Stored
      <3>2. Unpublished \in SUBSET Message
        BY <1>t, SelectedRows
      <3>3. CASE NextMessage(p, "get_unpublished", Unpublished)
        <4>1. /\ publisher_pc'[p] \in {"close", "send"}
              /\ publisher_pc'[p] = "send" => ToSend(p)' \subseteq Unpublished
          BY <1>t, <3>2, <3>3, NextMessageFacts DEF ToSend
        <4>2. QED BY <1>c, <3>1, <3>2, <4>1
      <3>4. CASE Goto(p, "get_unpublished", "close")
        BY <1>t, <3>4 DEF Goto
      <3>5. QED BY <2>1, <3>3, <3>4 DEF GetUnpublished
    <2>2. CASE Send(p)
      <3>1. /\ publisher_pc[p] = "send" /\ feed' = feed \cup {sending[p]}
            /\ UNCHANGED <<ctf_events, events, sending>>
        BY <2>2 DEF Send, Deliver, Goto, database
      <3>2. QED BY <1>g, <3>1 DEF ToSend, Current, Stored
    <2>3. CASE SendFails(p) \/ Mark(p)
      <3>1. PICK from \in {"send", "mark_as_posted"} :
               NextMessage(p, from, events[p])
        BY <2>3 DEF SendFails, Mark
      <3>2. /\ publisher_pc[p] = from
            /\ publisher_pc'[p] \in {"close", "send"}
            /\ publisher_pc'[p] = "send" => ToSend(p)' \subseteq events[p]
        BY <1>t, <3>1, NextMessageFacts DEF ToSend
      <3>3. \A m \in events[p] : m \in Message /\ Current(m)
        BY <1>t, <1>g, <3>2 DEF ToSend
      <3>4. QED BY <1>c, <3>2, <3>3
    <2>4. CASE ~GetUnpublished(p) /\ ~Send(p) /\ ~SendFails(p) /\ ~Mark(p)
      <3>1. publisher_pc'[p] \notin {"send", "mark_as_posted"}
        BY <1>t, <2>4
        DEF CronStarts, RunStep, Die, LockAcquired, LockRefused, Connect,
            IsMonday, IsNotMonday, GetUpcoming, SendPart, Finish, Goto
      <3>2. QED BY <3>1
    <2>5. QED BY <2>1, <2>2, <2>3, <2>4
  <1>3. \A q \in Publisher : Good(q)'
    BY <1>1, <1>2
  <1>4. QED BY <1>3 DEF RunCurrent

LEMMA RunKeepsPostedShown ==
  ASSUME ShownInv, NEW p \in Publisher, CronStarts(p) \/ RunStep(p) \/ Die(p)
  PROVE  PostedShown'
  <1>t. TypeInv /\ DatabaseTypeOK /\ RunCurrent /\ PostedShown
    BY DEF ShownInv, TypeInv, PublisherTypeOK
  <1>f. feed \subseteq feed'
    BY FeedGrows
  <1>1. CASE UNCHANGED ctf_events
    BY <1>t, <1>f, <1>1 DEF PostedShown, PostedIds, Stored, Event
  <1>2. CASE ~UNCHANGED ctf_events
    <2>1. /\ publisher_pc[p] = "mark_as_posted"
          /\ sending[p] \in Message /\ sending[p].id \in Id
          /\ ctf_events' = MarkAsPosted(sending[p].id)
      BY <1>t, <1>2, RunWritesRows DEF Message
    <2>2. Current(sending[p]) /\ sending[p] \in feed
      BY <1>t, <2>1 DEF RunCurrent, ToSend
    <2>3. sending[p] = Event(sending[p].id)
      BY <2>1, <2>2 DEF Current, Event, Message
    <2>4. PostedIds' = PostedIds \cup {sending[p].id}
      BY <1>t, <2>1, <2>2, MarkPosted DEF Current
    <2>5. \A id \in Stored : Event(id)' = Event(id)
      BY <1>t, <2>1, MarkFacts DEF Event
    <2>6. QED
      BY <1>t, <1>f, <2>2, <2>3, <2>4, <2>5 DEF PostedShown, PostedIds, Current
  <1>3. QED BY <1>1, <1>2

(* Nor does anybody else rewrite a row, when the INSERT of a stored id is   *)
(* ruled out.                                                               *)
LEMMA OthersKeepContent ==
  ASSUME PublisherTypeOK, ~LateInserts, Others
  PROVE  \A id \in Stored : ctf_events'[id].content = ctf_events[id].content
  <1>t. DatabaseTypeOK
    BY DEF PublisherTypeOK
  <1>1. PICK id \in Id :
          \/ OperatorApproves(id)
          \/ /\ id \notin Stored
             /\ \E content \in Content : ctf_events' = UpsertEvent(id, content)
    BY DEF Others
  <1>2. CASE OperatorApproves(id)
    BY <1>t, <1>2, ApproveFacts
  <1>3. CASE /\ id \notin Stored
             /\ \E content \in Content : ctf_events' = UpsertEvent(id, content)
    BY <1>t, <1>3, UpsertFacts DEF Stored
  <1>4. QED BY <1>1, <1>2, <1>3

LEMMA StepKeepsShownInv ==
  ASSUME ShownInv, ~LateInserts, [Next]_vars
  PROVE  ShownInv'
  <1>t. TypeInv /\ PublisherTypeOK /\ RunCurrent /\ PostedShown
    BY DEF ShownInv, TypeInv
  <1>0. TypeInv'
    BY <1>t, StepKeepsTypeInv
  <1>1. ASSUME NEW p \in Publisher, CronStarts(p) \/ RunStep(p) \/ Die(p)
        PROVE  ShownInv'
    BY <1>0, <1>1, RunKeepsRunCurrent, RunKeepsPostedShown DEF ShownInv
  <1>2. CASE Others
    <2>1. /\ Stored \subseteq Stored' /\ PostedIds' = PostedIds
          /\ \A id \in Stored : ctf_events'[id].content = ctf_events[id].content
          /\ UNCHANGED publisherVars
      BY <1>t, <1>2, OthersPosted, OthersKeepContent DEF Others
    <2>2. RunCurrent'
      BY <1>t, <2>1 DEF publisherVars, RunCurrent, ToSend, Current
    <2>3. PostedShown'
      BY <1>t, <2>1 DEF publisherVars, PostedShown, PostedIds, Event
    <2>4. QED BY <1>0, <2>2, <2>3 DEF ShownInv
  <1>3. CASE UNCHANGED vars
    BY <1>t, <1>0, <1>3
    DEF vars, database, publisherVars, ShownInv, RunCurrent, ToSend, Current,
        PostedShown, PostedIds, Stored, Event
  <1>4. QED BY <1>1, <1>2, <1>3 DEF Next, PublisherStep

(* Without INSERTs that outlive their client, an event recorded as posted   *)
(* was shown with the very details its row has.                             *)
THEOREM PostedEventsWereShown ==
  ASSUME ~LateInserts PROVE Spec => []PostedShown
  <1>1. ShownInv /\ [Next]_vars => ShownInv'
    BY StepKeepsShownInv
  <1>2. QED BY InitShownInv, <1>1, PTL DEF Spec, ShownInv
=============================================================================
