------------------------------ MODULE Pipeline ------------------------------
(***************************************************************************)
(* The whole system: the runs of both binaries and the operator, step by   *)
(* step over the same tables.  The binaries take different locks, so a run *)
(* of one may overlap with a run of the other at any statement.            *)
(***************************************************************************)
EXTENDS Database

CONSTANTS Parser, NoParser, NoEvent, RawId, UIntRange, Refused,
          MaxParserFaults, Publisher, NoPublisher, NoMessage, MaxPublisherFaults

VARIABLES parser_pc, parser_lock, ids, pending, event_id, event, late, rested,
          parser_faults,
          publisher_pc, publisher_lock, events, sending, feed, delivered,
          unrecorded, alarmed, publisher_faults

parserVars == <<parser_pc, parser_lock, ids, pending, event_id, event, late,
                rested, parser_faults>>
publisherVars == <<publisher_pc, publisher_lock, events, sending, feed,
                   delivered, unrecorded, alarmed, publisher_faults>>

Par == INSTANCE Parser
Pub == INSTANCE Publisher

ASSUME PipelineAssumption == Par!ParserAssumption /\ Pub!PublisherAssumption

vars == <<database, parserVars, publisherVars>>

Init == DatabaseInit /\ Par!ParserOnlyInit /\ Pub!PublisherOnlyInit

ParserSteps == Par!ParserStep /\ UNCHANGED publisherVars
PublisherSteps == Pub!PublisherStep /\ UNCHANGED parserVars
OperatorSteps == /\ \E id \in Id : OperatorApproves(id)
                 /\ UNCHANGED <<parserVars, publisherVars>>

Next == ParserSteps \/ PublisherSteps \/ OperatorSteps

Spec == Init /\ [][Next]_vars
-----------------------------------------------------------------------------
(* End to end: nothing appears in the topic that the checks held back and   *)
(* no operator released (README, Features: unsafe events are "held back     *)
(* from publication").                                                      *)
Withheld == Pub!Withheld

(* End to end: an event recorded as posted was shown in the topic with the  *)
(* details its row has, although another run may have fetched them again.   *)
PostedAsStored ==
    \A id \in Stored : ctf_events[id].posted_at => Event(id) \in feed

(* To the parser the rest of the system is what Parser.tla assumes of it: a *)
(* publisher that only sets posted_at, an operator that only releases.  To  *)
(* the publisher the parser is what Publisher.tla assumes of it: it adds    *)
(* rows with the verdict of their content and never changes one.  What is   *)
(* checked and proved of each module alone so holds of the whole.           *)
ParserView == Par!Spec
PublisherAlone == INSTANCE Publisher WITH parser_buffer <- {}
PublisherView == PublisherAlone!Spec
EachView == ParserView /\ PublisherView
=============================================================================
