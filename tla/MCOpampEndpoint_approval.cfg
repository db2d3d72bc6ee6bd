CONSTANTS
    a1 = a1
    s1 = s1
    s2 = s2
    none = none
    custom = custom
    h1 = h1
    w1 = w1
    w2 = w2
    loop = loop
    unknown = unknown
    NoUid = none
    NoConfig = none
    LoopFree = loop
    Anonymous = unknown
    PackageAvailable = "packageavailable"
    Frequencies <- MCFrequencies
    Configs <- MCConfigs
    MaxSequence = 1
    AgentUids <- MCAgentUids
    ServerUids <- MCServerUids
    Actions <- MCActions
    ToolActions <- MCActions
    NextActions <- MCNextActions
    HttpHandlers <- MCHttpHandlers
    WebSocketHandlers <- MCWebSockets
    MaxCommands = 2
    MaxNextActions = 1
SPECIFICATION EndpointSpec
INVARIANTS UnknownWaitForApproval
SYMMETRY MCSymmetry
CONSTRAINT MCBounds
