SPECIFICATION FairSpec
CONSTANTS
    Conversations = {c1, c2}
    Servers = {1, 2}
    MaxVersion = 1
    CacheSize = 1
    Prompt = 1
    PromptLength = 1
    ResponseLength = 3
    MaxModelLen = 5
    MaxAssistantTurns = 2
    ToolTokens = 1
    PartialRollouts = TRUE
    Torn = Torn
    None = None
CHECK_DEADLOCK FALSE
INVARIANTS
    TypeOK
    InflightExact
    OneVersionServed
    NeverTorn
    VersionsBracket
    RoomToGenerate
PROPERTIES
    Uninterrupted
    ConversationsEnd
    SyncEnds
