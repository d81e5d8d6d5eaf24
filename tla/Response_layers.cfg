\* The middleware: one response, every interleaving.  The events: two blocks, two
\* choices of two tool calls, or two items with a field of their own and a content
\* part each, every stream of 4 events, ended by [DONE], a terminal event or an
\* error, or cut short.  The text: every mapping of at most two of four texts,
\* every answer of up to 5 characters, every cut into chunks of up to 2.
SPECIFICATION ResponseSpec
CONSTANTS
    NBlocks = 2
    NChoices = 2
    NTools = 2
    Deltas <- MCDeltas
    Items = {0, 1}
    ItemParts = {0, 1}
    FirstNumber = 3
    MaxEvents = 4
    Mappings <- MCMappings
    Chars = {32, 45, 65, 91, 93}
    IdentChars = {65, 66}
    OpenBracket = 91
    MaxChunk = 2
    MaxText = 5
CHECK_DEADLOCK FALSE
INVARIANTS
    WireValid
    OutcomeTrue
    OriginalsReleased
    TailsInOrder
    AllDelivered
    StreamMatchesUnary
