--------------------------- MODULE PipelineProofs ---------------------------
(***************************************************************************)
(* The whole system is, to each binary, what that binary's module assumes  *)
(* of it, so the theorems of ParserProofs and of PublisherProofs hold of   *)
(* the whole.  Neither view is evident: that the publisher only ever marks *)
(* an event, and that the parser inserts no stored one, are invariants of  *)
(* the other side.                                                         *)
(***************************************************************************)
EXTENDS Pipeline, TLAPS

ParP == INSTANCE ParserProofs
PubP == INSTANCE PublisherProofs WITH parser_buffer <- {}

(* The hypotheses under which the two modules' theorems can be cited.       *)
LEMMA Hypotheses ==
  /\ NoRow \notin ParP!Row /\ NoRow \notin PubP!Row
  /\ Id \subseteq Nat \ {0} /\ SafeContent \subseteq Content
  /\ LateInserts \in BOOLEAN
  /\ NoParser \notin Parser /\ NoEvent \notin Content
  /\ RawId \subseteq Int /\ UIntRange \in Nat \ {0} /\ Refused \subseteq Content
  /\ Id = 1..(UIntRange - 1) /\ MaxParserFaults \in Nat
  /\ NoPublisher \notin Publisher
  /\ NoMessage \notin [id : Id, content : Content]
  /\ MaxPublisherFaults \in Nat
  BY PipelineAssumption, NoRowAssumption, IdAssumption, ContentAssumption,
     LateInsertsAssumption
  DEF Row, ParP!Row, PubP!Row

(* Citing a module's theorems does not make its definitions those of the    *)
(* instance Pipeline is built from; both expand to the same formulas.       *)
LEMMA SameParser ==
  /\ Par!Init <=> ParP!Init
  /\ Par!ParserStep <=> ParP!ParserStep
  /\ [Par!Next]_(Par!vars) <=> [ParP!Next]_(ParP!vars)
  <1> USE DEF
    Par!Init, Par!DatabaseInit, Par!ParserOnlyInit, Par!Next, Par!ParserStep,
    Par!Others, Par!RunStep, Par!CronStarts, Par!Die, Par!LateInsertLands,
    Par!LockAcquired, Par!LockRefused, Par!Connect, Par!FetchIds,
    Par!InsertBuffer, Par!DropKnown, Par!GetBufferIds, Par!FetchDetail,
    Par!DeleteSkipped, Par!InsertEvent, Par!InsertEventFails, Par!DeleteStored,
    Par!Pause, Par!Finish, Par!NextEvent, Par!Goto, Par!Spend, Par!Forget,
    Par!unchangedRun, Par!Lock!Acquire, Par!Lock!Release, Par!UInt,
    Par!OperatorApproves, Par!MarkAsPosted, Par!UpsertEvent, Par!InsertIgnore,
    Par!CleanBuffer, Par!DeleteFromBuffer, Par!Outcome, Par!Executed,
    Par!Stored, Par!database, Par!parserVars, Par!vars
  <1> USE DEF
    ParP!Init, ParP!DatabaseInit, ParP!ParserOnlyInit, ParP!Next,
    ParP!ParserStep, ParP!Others, ParP!RunStep, ParP!CronStarts, ParP!Die,
    ParP!LateInsertLands, ParP!LockAcquired, ParP!LockRefused, ParP!Connect,
    ParP!FetchIds, ParP!InsertBuffer, ParP!DropKnown, ParP!GetBufferIds,
    ParP!FetchDetail, ParP!DeleteSkipped, ParP!InsertEvent,
    ParP!InsertEventFails, ParP!DeleteStored, ParP!Pause, ParP!Finish,
    ParP!NextEvent, ParP!Goto, ParP!Spend, ParP!Forget, ParP!unchangedRun,
    ParP!Lock!Acquire, ParP!Lock!Release, ParP!UInt, ParP!OperatorApproves,
    ParP!MarkAsPosted, ParP!UpsertEvent, ParP!InsertIgnore, ParP!CleanBuffer,
    ParP!DeleteFromBuffer, ParP!Outcome, ParP!Executed, ParP!Stored,
    ParP!database, ParP!parserVars, ParP!vars
  <1>1. Par!Init <=> ParP!Init
    OBVIOUS
  <1>2. Par!ParserStep <=> ParP!ParserStep
    OBVIOUS
  <1>3. [Par!Next]_(Par!vars) <=> [ParP!Next]_(ParP!vars)
    OBVIOUS
  <1>4. QED
    <2> HIDE DEF Par!Init, ParP!Init, Par!ParserStep, ParP!ParserStep,
                 Par!Next, ParP!Next, Par!vars, ParP!vars
    <2>1. QED BY <1>1, <1>2, <1>3

LEMMA SamePublisher ==
  /\ PublisherAlone!Init <=> PubP!Init
  /\ [PublisherAlone!Next]_(PublisherAlone!vars) <=> [PubP!Next]_(PubP!vars)
  <1> USE DEF
    PublisherAlone!Init, PublisherAlone!DatabaseInit,
    PublisherAlone!PublisherOnlyInit, PublisherAlone!Next,
    PublisherAlone!PublisherStep, PublisherAlone!Others,
    PublisherAlone!RunStep, PublisherAlone!CronStarts, PublisherAlone!Die,
    PublisherAlone!LockAcquired, PublisherAlone!LockRefused,
    PublisherAlone!Connect, PublisherAlone!IsMonday,
    PublisherAlone!IsNotMonday, PublisherAlone!GetUpcoming,
    PublisherAlone!SendPart, PublisherAlone!GetUnpublished,
    PublisherAlone!Send, PublisherAlone!SendFails, PublisherAlone!Mark,
    PublisherAlone!Finish, PublisherAlone!NextMessage,
    PublisherAlone!Deliver, PublisherAlone!Increment, PublisherAlone!Goto,
    PublisherAlone!Spend, PublisherAlone!Forget,
    PublisherAlone!unchangedRun, PublisherAlone!unchangedHistory,
    PublisherAlone!Lock!Acquire, PublisherAlone!Lock!Release,
    PublisherAlone!OperatorApproves, PublisherAlone!MarkAsPosted,
    PublisherAlone!UpsertEvent, PublisherAlone!Unpublished,
    PublisherAlone!Upcoming, PublisherAlone!Events, PublisherAlone!Event,
    PublisherAlone!Outcome, PublisherAlone!Executed, PublisherAlone!Stored,
    PublisherAlone!database, PublisherAlone!publisherVars,
    PublisherAlone!vars
  <1> USE DEF
    PubP!Init, PubP!DatabaseInit, PubP!PublisherOnlyInit, PubP!Next,
    PubP!PublisherStep, PubP!Others, PubP!RunStep, PubP!CronStarts, PubP!Die,
    PubP!LockAcquired, PubP!LockRefused, PubP!Connect, PubP!IsMonday,
    PubP!IsNotMonday, PubP!GetUpcoming, PubP!SendPart, PubP!GetUnpublished,
    PubP!Send, PubP!SendFails, PubP!Mark, PubP!Finish, PubP!NextMessage,
    PubP!Deliver, PubP!Increment, PubP!Goto, PubP!Spend, PubP!Forget,
    PubP!unchangedRun, PubP!unchangedHistory, PubP!Lock!Acquire,
    PubP!Lock!Release, PubP!OperatorApproves, PubP!MarkAsPosted,
    PubP!UpsertEvent, PubP!Unpublished, PubP!Upcoming, PubP!Events,
    PubP!Event, PubP!Outcome, PubP!Executed, PubP!Stored, PubP!database,
    PubP!publisherVars, PubP!vars
  <1>1. PublisherAlone!Init <=> PubP!Init
    OBVIOUS
  <1>2. [PublisherAlone!Next]_(PublisherAlone!vars) <=>
        [PubP!Next]_(PubP!vars)
    OBVIOUS
  <1>3. QED
    <2> HIDE DEF PublisherAlone!Init, PubP!Init, PublisherAlone!Next,
                 PubP!Next, PublisherAlone!vars, PubP!vars
    <2>1. QED BY <1>1, <1>2
-----------------------------------------------------------------------------
(* What a step of the publisher's run does not touch of the buffer, its     *)
(* module alone does not see either.                                       *)
LEMMA PublisherRuns ==
  ASSUME PublisherSteps
  PROVE  PubP!PublisherStep /\ UNCHANGED parser_buffer
  <1>1. PICK p \in Publisher : Pub!CronStarts(p) \/ Pub!RunStep(p) \/ Pub!Die(p)
    BY DEF PublisherSteps, Pub!PublisherStep
  <1> USE DEF Pub!Goto, Pub!Spend, Pub!unchangedRun, Pub!unchangedHistory,
              Pub!database, PubP!Goto, PubP!Spend, PubP!unchangedRun,
              PubP!unchangedHistory, PubP!database
  <1>2. CASE \/ Pub!CronStarts(p) \/ Pub!LockAcquired(p) \/ Pub!LockRefused(p)
             \/ Pub!Connect(p) \/ Pub!IsMonday(p) \/ Pub!IsNotMonday(p)
    <2>1. \/ PubP!CronStarts(p) \/ PubP!LockAcquired(p) \/ PubP!LockRefused(p)
          \/ PubP!Connect(p) \/ PubP!IsMonday(p) \/ PubP!IsNotMonday(p)
      BY <1>2
      DEF Pub!CronStarts, Pub!LockAcquired, Pub!LockRefused, Pub!Connect,
          Pub!IsMonday, Pub!IsNotMonday, Pub!Lock!Acquire, PubP!CronStarts,
          PubP!LockAcquired, PubP!LockRefused, PubP!Connect, PubP!IsMonday,
          PubP!IsNotMonday, PubP!Lock!Acquire
    <2>2. UNCHANGED parser_buffer
      BY <1>2
      DEF Pub!CronStarts, Pub!LockAcquired, Pub!LockRefused, Pub!Connect,
          Pub!IsMonday, Pub!IsNotMonday
    <2>3. QED BY <2>1, <2>2 DEF PubP!PublisherStep, PubP!RunStep
  <1>3. CASE Pub!Finish(p) \/ Pub!Die(p)
    BY <1>3
    DEF Pub!Finish, Pub!Die, Pub!Forget, Pub!Increment, Pub!Lock!Release,
        PubP!Finish, PubP!Die, PubP!Forget, PubP!Increment,
        PubP!Lock!Release, PubP!PublisherStep, PubP!RunStep
  <1>4. CASE Pub!GetUpcoming(p) \/ Pub!SendPart(p)
    <2>1. \A window \in SUBSET Id : Pub!Upcoming(window) = PubP!Upcoming(window)
      BY DEF Pub!Upcoming, Pub!Events, Pub!Event, Pub!Stored, PubP!Upcoming,
             PubP!Events, PubP!Event, PubP!Stored
    <2>2. Pub!GetUpcoming(p) => PubP!GetUpcoming(p) /\ UNCHANGED parser_buffer
      BY <2>1 DEF Pub!GetUpcoming, PubP!GetUpcoming
    <2>3. Pub!SendPart(p) => PubP!SendPart(p) /\ UNCHANGED parser_buffer
      BY DEF Pub!SendPart, Pub!Outcome, Pub!Executed, PubP!SendPart,
             PubP!Outcome, PubP!Executed
    <2>4. QED BY <1>4, <2>2, <2>3 DEF PubP!PublisherStep, PubP!RunStep
  <1>5. CASE Pub!GetUnpublished(p)
    <2>1. Pub!Unpublished = PubP!Unpublished
      BY DEF Pub!Unpublished, Pub!Events, Pub!Event, Pub!Stored,
             PubP!Unpublished, PubP!Events, PubP!Event, PubP!Stored
    <2>2. Pub!NextMessage(p, "get_unpublished", Pub!Unpublished) =>
          PubP!NextMessage(p, "get_unpublished", PubP!Unpublished)
      BY <2>1 DEF Pub!NextMessage, PubP!NextMessage
    <2>3. QED
      BY <1>5, <2>2
      DEF Pub!GetUnpublished, PubP!GetUnpublished, PubP!PublisherStep,
          PubP!RunStep
  <1>n. \A from : Pub!NextMessage(p, from, events[p]) <=>
                  PubP!NextMessage(p, from, events[p])
    BY DEF Pub!NextMessage, PubP!NextMessage
  <1>6. CASE Pub!Send(p) \/ Pub!SendFails(p)
    BY <1>6, <1>n
    DEF Pub!Send, Pub!SendFails, Pub!Deliver, Pub!Increment, PubP!Send,
        PubP!SendFails, PubP!Deliver, PubP!Increment, PubP!PublisherStep,
        PubP!RunStep
  <1>7. CASE Pub!Mark(p)
    <2>1. Pub!MarkAsPosted(sending[p].id) = PubP!MarkAsPosted(sending[p].id)
      BY DEF Pub!MarkAsPosted, PubP!MarkAsPosted
    <2>2. QED
      BY <1>7, <1>n, <2>1
      DEF Pub!Mark, Pub!Increment, Pub!Outcome, Pub!Executed, PubP!Mark,
          PubP!Increment, PubP!Outcome, PubP!Executed, PubP!PublisherStep,
          PubP!RunStep
  <1>8. QED
    BY <1>1, <1>2, <1>3, <1>4, <1>5, <1>6, <1>7 DEF Pub!RunStep
-----------------------------------------------------------------------------
(* What each view rests on.  Without late INSERTs the parser's inductive    *)
(* invariant says that it never inserts a stored event.                     *)
ViewInv ==
    /\ ParP!TypeInv /\ PubP!TypeInv
    /\ LateInserts \/ ParP!DedupInv

LEMMA InitViews == Init => ViewInv /\ Par!Init /\ PublisherAlone!Init
  <1> SUFFICES ASSUME Init PROVE ViewInv /\ Par!Init /\ PublisherAlone!Init
    OBVIOUS
  <1>1. Par!Init
    BY DEF Init, DatabaseInit, Par!Init, Par!DatabaseInit
  <1>2. PubP!Init
    BY DEF Init, DatabaseInit, PubP!Init, PubP!DatabaseInit,
           Pub!PublisherOnlyInit, PubP!PublisherOnlyInit
  <1>3. QED
    BY <1>1, <1>2, SameParser, SamePublisher, Hypotheses, ParP!InitTypeInv,
       ParP!InitDedupInv, PubP!InitTypeInv
    DEF ViewInv

(* No step of the parser releases an event.                                 *)
LEMMA ParserReleasesNothing == ParP!ParserStep => UNCHANGED approved
  BY DEF ParP!ParserStep, ParP!RunStep, ParP!CronStarts, ParP!Die,
         ParP!LateInsertLands, ParP!LockAcquired, ParP!LockRefused,
         ParP!Connect, ParP!FetchIds, ParP!InsertBuffer, ParP!DropKnown,
         ParP!GetBufferIds, ParP!FetchDetail, ParP!DeleteSkipped,
         ParP!InsertEvent, ParP!InsertEventFails, ParP!DeleteStored,
         ParP!Pause, ParP!Finish, ParP!database

(* To the publisher a step of the parser is nothing, or a row inserted with *)
(* the verdict of its content; one that is stored only by a late INSERT.    *)
LEMMA ParserSeenByPublisher ==
  ASSUME ViewInv, ParserSteps
  PROVE  PubP!Others \/ UNCHANGED PubP!vars
  <1>t. /\ ParP!TypeInv /\ ParP!ParserTypeOK
        /\ (LateInserts \/ ParP!DedupInv)
        /\ UNCHANGED PubP!publisherVars
    BY DEF ViewInv, ParP!TypeInv, ParserSteps, publisherVars,
           PubP!publisherVars
  <1>1. ParP!ParserStep /\ UNCHANGED approved
    BY SameParser, ParserReleasesNothing DEF ParserSteps
  <1>2. ASSUME NEW id \in Id, NEW content \in Content,
               ctf_events' = ParP!UpsertEvent(id, content),
               id \in ParP!Stored => LateInserts
        PROVE  PubP!Others
    <2>1. ParP!UpsertEvent(id, content) = PubP!UpsertEvent(id, content)
      BY DEF ParP!UpsertEvent, PubP!UpsertEvent
    <2>2. ParP!Stored = PubP!Stored
      BY DEF ParP!Stored, PubP!Stored
    <2> QED BY <1>t, <1>1, <1>2, <2>1, <2>2 DEF PubP!Others
  <1>3. CASE UNCHANGED ctf_events
    BY <1>t, <1>1, <1>3 DEF PubP!vars, PubP!database
  <1>4. ASSUME NEW p \in Parser,
               ParP!CronStarts(p) \/ ParP!RunStep(p) \/ ParP!Die(p),
               ~UNCHANGED ctf_events
        PROVE  PubP!Others
    <2>1. /\ ParP!TypeInv
          /\ ParP!CronStarts(p) \/ ParP!RunStep(p) \/ ParP!Die(p)
      BY <1>t, <1>4
    <2>2. /\ parser_pc[p] = "insert_event"
          /\ event_id[p] \in Id /\ event[p] \in Content
          /\ ctf_events' = ParP!UpsertEvent(event_id[p], event[p])
      BY <1>4, <2>1, Hypotheses, ParP!StoredAfter
    <2>3. event_id[p] \in ParP!Stored => LateInserts
      BY <1>t, <2>2 DEF ParP!DedupInv, ParP!NoRefetch
    <2>4. QED BY <1>2, <2>2, <2>3
  <1>5. CASE ParP!LateInsertLands
    <2>1. PICK insert \in late :
             ctf_events' = ParP!UpsertEvent(insert.id, insert.content)
      BY <1>5 DEF ParP!LateInsertLands
    <2>2. LateInserts
      BY <1>t DEF ParP!DedupInv
    <2>3. insert.id \in Id /\ insert.content \in Content
      BY <1>t, <2>1 DEF ParP!ParserTypeOK, ParP!Insert
    <2>4. QED BY <1>2, <2>1, <2>2, <2>3
  <1>6. QED BY <1>1, <1>3, <1>4, <1>5 DEF ParP!ParserStep

(* To the parser a step of the publisher is nothing, or an event marked.    *)
LEMMA PublisherSeenByParser ==
  ASSUME ViewInv, PublisherSteps
  PROVE  ParP!Others \/ UNCHANGED ParP!vars
  <1>1. PubP!TypeInv /\ PubP!PublisherStep /\ UNCHANGED parser_buffer
    BY PublisherRuns DEF ViewInv
  <1>2. PICK p \in Publisher :
           PubP!CronStarts(p) \/ PubP!RunStep(p) \/ PubP!Die(p)
    BY <1>1 DEF PubP!PublisherStep
  <1>3. /\ UNCHANGED approved
        /\ \/ UNCHANGED ctf_events
           \/ /\ sending[p] \in PubP!Message
              /\ ctf_events' = PubP!MarkAsPosted(sending[p].id)
    BY <1>1, <1>2, Hypotheses, PubP!RunWritesRows
  <1>4. UNCHANGED ParP!parserVars
    BY DEF PublisherSteps, parserVars, ParP!parserVars
  <1>5. CASE UNCHANGED ctf_events
    BY <1>1, <1>3, <1>4, <1>5 DEF ParP!vars, ParP!database
  <1>6. CASE ~UNCHANGED ctf_events
    <2>1. /\ sending[p].id \in Id
          /\ ctf_events' = PubP!MarkAsPosted(sending[p].id)
      BY <1>3, <1>6 DEF PubP!Message
    <2>2. PubP!MarkAsPosted(sending[p].id) = ParP!MarkAsPosted(sending[p].id)
      BY DEF PubP!MarkAsPosted, ParP!MarkAsPosted
    <2>3. QED BY <1>1, <1>3, <1>4, <2>1, <2>2 DEF ParP!Others
  <1>7. QED BY <1>5, <1>6

(* The operator is part of what each module assumes of the other side.      *)
LEMMA OperatorSeenByBoth == OperatorSteps => ParP!Others /\ PubP!Others
  BY DEF OperatorSteps, OperatorApproves, parserVars, publisherVars, Stored,
         ParP!Others, ParP!OperatorApproves, ParP!parserVars, ParP!Stored,
         PubP!Others, PubP!OperatorApproves, PubP!publisherVars, PubP!Stored

LEMMA StepViews ==
  ASSUME ViewInv, [Next]_vars
  PROVE  [ParP!Next]_ParP!vars /\ [PubP!Next]_PubP!vars
  <1>1. CASE ParserSteps
    <2>1. ParP!ParserStep
      BY <1>1, SameParser DEF ParserSteps
    <2>2. QED
      BY <1>1, <2>1, ParserSeenByPublisher DEF ParP!Next, PubP!Next
  <1>2. CASE PublisherSteps
    BY <1>2, PublisherRuns, PublisherSeenByParser DEF ParP!Next, PubP!Next
  <1>3. CASE OperatorSteps
    BY <1>3, OperatorSeenByBoth DEF ParP!Next, PubP!Next
  <1>4. CASE UNCHANGED vars
    BY <1>4
    DEF vars, database, parserVars, publisherVars, ParP!vars, ParP!database,
        ParP!parserVars, PubP!vars, PubP!database, PubP!publisherVars
  <1>5. QED BY <1>1, <1>2, <1>3, <1>4 DEF Next

LEMMA StepKeepsViewInv == ViewInv /\ [Next]_vars => ViewInv'
  <1>1. /\ ParP!TypeInv /\ [ParP!Next]_ParP!vars => ParP!TypeInv'
        /\ PubP!TypeInv /\ [PubP!Next]_PubP!vars => PubP!TypeInv'
    BY Hypotheses, ParP!StepKeepsTypeInv, PubP!StepKeepsTypeInv
  <1>2. ASSUME ParP!DedupInv, ~LateInserts, [ParP!Next]_ParP!vars
        PROVE  ParP!DedupInv'
    BY <1>2, Hypotheses, ParP!StepKeepsDedupInv
  <1>3. QED BY <1>1, <1>2, StepViews DEF ViewInv

(* The composition is, to each binary alone, the environment its module     *)
(* assumes: a publisher that only marks events, a parser that only adds     *)
(* rows with the verdict of their content.                                  *)
THEOREM EachSeesWhatItAssumes == Spec => EachView
  <1>1. ViewInv /\ [Next]_vars =>
          [Par!Next]_(Par!vars) /\ [PublisherAlone!Next]_(PublisherAlone!vars)
    BY StepViews, SameParser, SamePublisher
  <1>2. QED
    BY InitViews, StepKeepsViewInv, <1>1, PTL
    DEF Spec, EachView, ParserView, PublisherView, Par!Spec,
        PublisherAlone!Spec

LEMMA PublisherSpec == Spec => PubP!Spec
  <1>1. Init => PubP!Init
    BY InitViews, SamePublisher
  <1>2. ViewInv /\ [Next]_vars => [PubP!Next]_PubP!vars
    BY StepViews
  <1>3. QED
    BY InitViews, StepKeepsViewInv, <1>1, <1>2, PTL DEF Spec, PubP!Spec

(* End to end: whatever both binaries and the operator do meanwhile, nothing *)
(* the checks held back reaches the topic before it is released.            *)
THEOREM NothingWithheldReachesTheTopic ==
  ASSUME ~LateInserts PROVE Spec => []Withheld
  <1>1. PubP!Spec => []PubP!Withheld
    BY Hypotheses, PubP!NothingWithheldIsShown
  <1>2. PubP!Withheld <=> Withheld
    BY DEF PubP!Withheld, Withheld, Pub!Withheld
  <1>3. QED BY <1>1, <1>2, PublisherSpec, PTL

(* End to end: an event recorded as posted was shown with the details that  *)
(* its row has, although the parser keeps fetching.                         *)
THEOREM PostedIsShownAsStored ==
  ASSUME ~LateInserts PROVE Spec => []PostedAsStored
  <1>1. PubP!Spec => []PubP!PostedShown
    BY Hypotheses, PubP!PostedEventsWereShown
  <1>2. PubP!PostedShown => PostedAsStored
    BY DEF PubP!PostedShown, PubP!PostedIds, PubP!Stored, PubP!Event,
           PostedAsStored, Stored, Event
  <1>3. QED BY <1>1, <1>2, PublisherSpec, PTL
=============================================================================
