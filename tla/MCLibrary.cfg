CONSTANTS
    MaxLen = 10
    HeaderLen = 3
    ContHeaderLen = 2
    SepLen = 1
    ItemLen <- MCItemLen
    MaxEvents = 5
    MaxDepth = 2
    VectorCap = 1
    MaxTokens = 9
    SizeMax = 15
    StringCap = 3
    MaxResponse = 12
    ResponseCap = 2
    Piece <- MCPiece
    Fields <- MCFields
    Value <- MCValue
    Pieces <- MCPieces
    MaxPieces = 3
    Byte <- MCByte
    MaxBytes = 3
    TitleMax = 4
    DescMax = 4
    FormatMax = 2
    LocationMax = 3
    UrlMax = 12
    HostMax = 4
    PreviewLen = 3
    Letter = {"a", "union", "select", "all", "drop", "table", "lt"}
    FirstDay = 10957
    LastDay = 47482
    WeightMax = 99
    Fallback <- MCFallback
    NoTime = NoTime
    NoWeight = NoWeight
    InternalHosts <- MCInternalHosts
    Details <- MCDetails
    UrlParts <- MCUrlParts
    Hosts <- MCHosts
SPECIFICATION Spec
INVARIANTS
    LibraryTypeOK
    DigestPacked
    ParsesJson
    NothingLeaks
    StringsExact
    Utf8Exact
    BuffersHold
    StoredAsServed
    VerdictCoversShown
    HostsJudged
    ShownAsStored
PROPERTIES
    AppendReturns
