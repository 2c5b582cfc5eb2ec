CONSTANTS
    p1 = p1  p2 = p2
    fine = fine  unsafe = unsafe  garbled = garbled
    NoRow = NoRow  NoParser = NoParser  NoEvent = NoEvent
    Parser <- MCParser2
    Id <- MCId
    RawId <- MCRawId
    UIntRange = 3
    Content <- MCContent
    SafeContent <- MCSafeContent
    Refused <- MCRefused
    LateInserts = FALSE
    MaxParserFaults = 2
SPECIFICATION Spec
INVARIANTS
    ParserTypeOK
    OneRun
    NoRefetch
    VerdictStands
PROPERTIES
    LeavesBufferForAReason
