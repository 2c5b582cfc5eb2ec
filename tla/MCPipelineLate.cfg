CONSTANTS
    p1 = p1  q1 = q1
    fine = fine  unsafe = unsafe  garbled = garbled
    NoRow = NoRow  NoParser = NoParser  NoEvent = NoEvent
    NoPublisher = NoPublisher  NoMessage = NoMessage
    Parser <- MCParser1
    Publisher <- MCPublisher1
    Content <- MCContent
    SafeContent <- MCSafeContent
    Refused <- MCRefused
    Id <- MCId1
    RawId <- MCId1
    UIntRange = 2
    LateInserts = TRUE
    MaxParserFaults = 1
    MaxPublisherFaults = 0
SPECIFICATION Spec
INVARIANTS
    Withheld
