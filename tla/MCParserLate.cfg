CONSTANTS
    p1 = p1  p2 = p2
    fine = fine  unsafe = unsafe  garbled = garbled
    NoRow = NoRow  NoParser = NoParser  NoEvent = NoEvent
    Parser <- MCParser2
    Id <- MCId
    RawId <- MCRawId
    UIntRange = 3
    Content <- MCSafeContent
    SafeContent <- MCSafeContent
    Refused <- MCRefused
    LateInserts = TRUE
    MaxParserFaults = 1
SPECIFICATION LiveSpec
PROPERTIES
    PostedStays
    RunEnds
    BufferDrains
