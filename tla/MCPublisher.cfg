CONSTANTS
    q1 = q1  q2 = q2
    fine = fine  unsafe = unsafe
    NoRow = NoRow  NoPublisher = NoPublisher  NoMessage = NoMessage
    Publisher <- MCPublisher2
    Id <- MCId
    Content <- MCContent
    SafeContent <- MCSafeContent
    LateInserts = FALSE
    MaxPublisherFaults = 2
SPECIFICATION LiveSpec
INVARIANTS
    PublisherTypeOK
    Withheld
    Ledger
PROPERTIES
    SafeEventsGetPosted
