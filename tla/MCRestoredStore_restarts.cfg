CONSTANTS
    a1 = a1
    s1 = s1
    g1 = g1
    none = none
    AgentUids <- MCAgentUids
    ServerUids <- MCServerUids
    Misread <- MCMisread
    OtherKeys <- MCNothing
    Lacking <- MCLacking
    NoUid = none
    Actions <- MCActions
    NextActions <- MCNothing
    Configs <- MCNothing
    NoConfig = none
    Frequencies <- MCNothing
    MaxSequence = 0
    MaxCommands = 2
    MaxNextActions = 0
    MaxRestarts = 1
SPECIFICATION RestoredSpec
INVARIANTS QueueInvariant KeyedByOwnId
PROPERTIES RestoredAreAskedOnce
CONSTRAINT MCShortly
VIEW MCUnread
