CONSTANTS
    MaxRetries = 1
    Longest = 300
    RetryAfter <- MCRetryAfter
SPECIFICATION LiveSpec
INVARIANTS
    WaitsAsAsked
PROPERTIES
    CallReturns
    ImplementsSendOnce
CHECK_DEADLOCK FALSE
