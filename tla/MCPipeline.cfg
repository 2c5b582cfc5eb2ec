CONSTANTS
    p1 = p1  q1 = q1
    fine = fine  unsafe = unsafe  garbled = garbled
    NoRow = NoRow  NoParser = NoParser  NoEvent = NoEvent
    NoPublisher = NoPublisher  NoMessage = NoMessage
    Parser <- MCParser1
    Publisher <- MCPublisher1
    Content <- MCContent
    SafeContent <- MCSafeContent
    Refused <- MCRefused
    Id <- MCId2
    RawId <- MCId2
    UIntRange = 3
    LateInserts = FALSE
    MaxParserFaults = 1
    MaxPublisherFaults = 1
SPECIFICATION Spec
INVARIANTS
    PostedAsStored
PROPERTIES
    EachView
