SPECIFICATION ConversationSpec
CONSTANTS
    Messages = {m1, m2}
    Main = Main
    Tools = {"otel_agents", "restart_agent"}
    Fits <- NameFits
    NoTool = NoTool
    MaxAttempts = 1
    MaxSessions = 3
    MaxOutages = 1
INVARIANTS
    CallsFollowInitialize
