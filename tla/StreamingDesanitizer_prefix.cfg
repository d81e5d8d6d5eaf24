\* The texts PARTNER and PARTNER-A, with A for PARTNER.
SPECIFICATION StreamSpec
CONSTANTS
    Mappings <- MCPrefixMappings
    Chars = {45, 65}
    IdentChars = {65, 66}
    OpenBracket = 91
    MaxChunk = 2
    MaxText = 6
CHECK_DEADLOCK FALSE
INVARIANTS
    StreamAlwaysMatchesUnary
